----------------------------- MODULE LPCConnect -----------------------------
(***************************************************************************)
(* The LPC connection handshake (ntoskrnl/lpc: lpcconn.c, lpccompl.c, and  *)
(* lpcrecv.c, lpcclose.c, lpcqueue.c as far as they take part).  A client  *)
(* thread queues a connection message at the connection port and waits on  *)
(* its chain; a server thread receives the message, takes it from the      *)
(* client thread, creates the server's port and gives the message back,    *)
(* and then, or when it refuses, wakes the client.  Meanwhile clients are  *)
(* terminated and ports are closed.                                        *)
(*                                                                         *)
(* There is one connection per client thread: a client names the thread,   *)
(* its connection message and its pair of ports.  What the code does under *)
(* the global LPC lock is one step.                                        *)
(***************************************************************************)
EXTENDS Naturals, Sequences, FiniteSets

LOCAL INSTANCE FiniteSetsExt

CONSTANTS Clients,          \* client threads, each with its connection
          Servers,          \* threads of the server process
          None              \* NULL

VARIABLES
    orderly,    \* the server does not close its connection port while it
                \* handles a connection request
    conn,       \* how far the closing of the connection port is
    walked,     \* the thread LpcpDestroyPortQueue is waking
    queue,      \* MsgQueue.ReceiveHead of the connection port
    queueSem,   \* MsgQueue.Semaphore
    chain,      \* LpcReplyChainHead of the connection port
    freed,      \* freed[c]: how often c's connection message was freed
    replied,    \* the messages whose type is LPC_REPLY
    carries,    \* the messages with a reference in ConnectMsg->ClientPort
    reply,      \* the threads whose LpcReplyMessage is their message
    replyId,    \* the threads whose LpcReplyMessageId is not 0
    sem,        \* sem[c]: LpcReplySemaphore
    clientPort, \* clientPort[c], serverPort[c]: the life of c's ports
    serverPort,
    connected,  \* connected[side]: the ports whose ConnectedPort is not NULL
    attached,   \* attached[side]: the ports whose ConnectionPort is not NULL
    pending,    \* the server ports with a ClientThread
    received,   \* the connection requests the server process has seen
    pc,         \* pc[t]: where t is
    job         \* job[s]: the client whose request s handles

msgVars == <<freed, replied, carries>>
waitVars == <<chain, reply, replyId, sem>>
portVars == <<clientPort, serverPort, connected, attached, pending>>
connVars == <<orderly, conn, walked, queue, queueSem>>
vars == <<msgVars, waitVars, portVars, connVars, received, pc, job>>

Threads == Clients \cup Servers
Sides == {"client", "server"}

Init == /\ orderly \in BOOLEAN
        /\ conn = "open"
        /\ walked = None
        /\ queue = <<>>
        /\ queueSem = 0
        /\ chain = <<>>
        /\ freed = [c \in Clients |-> 0]
        /\ replied = {}
        /\ carries = {}
        /\ reply = {}
        /\ replyId = {}
        /\ sem = [c \in Clients |-> 0]
        /\ clientPort = [c \in Clients |-> "none"]
        /\ serverPort = [c \in Clients |-> "none"]
        /\ connected = [side \in Sides |-> {}]
        /\ attached = [side \in Sides |-> {}]
        /\ pending = {}
        /\ received = {}
        /\ pc \in [Threads -> {"idle", "gone"}]
        /\ job = [s \in Servers |-> None]

Goto(t, at) == pc' = [pc EXCEPT ![t] = at]
Without(q, c) == SelectSeq(q, LAMBDA d : d # c)
OnChain(c) == \E i \in 1 .. Len(chain) : chain[i] = c

(* LpcpFreeToPortZone: the message also leaves the queue, and its          *)
(* reference to the client's port is given up.                             *)
FreeMessage(c) ==
    /\ freed' = [freed EXCEPT ![c] = @ + 1]
    /\ carries' = carries \ {c}
    /\ UNCHANGED replied

-----------------------------------------------------------------------------
(* NtConnectPort.  The name is looked up, and the client's port and the    *)
(* message are allocated.                                                  *)
Connect(c) ==
    /\ pc[c] = "idle" /\ clientPort[c] = "none"
    /\ conn = "open"
    /\ clientPort' = [clientPort EXCEPT ![c] = "live"]
    /\ attached' = [attached EXCEPT !["client"] = @ \cup {c}]
    /\ Goto(c, "send")
    /\ UNCHANGED <<msgVars, waitVars, connVars, serverPort, connected, pending,
                   received, job>>

(* The message is queued, and attached to the thread, unless the port was  *)
(* closed since (PORT_NAME_DELETED).                                       *)
Send(c) ==
    /\ pc[c] = "send"
    /\ IF conn = "open"
       THEN /\ queue' = Append(queue, c)
            /\ chain' = Append(chain, c)
            /\ reply' = reply \cup {c}
            /\ replyId' = replyId \cup {c}
            /\ carries' = carries \cup {c}
            /\ Goto(c, "post")
       ELSE /\ Goto(c, "failed")
            /\ UNCHANGED <<queue, chain, reply, replyId, carries>>
    /\ UNCHANGED <<freed, replied, sem, portVars, orderly, conn, walked, queueSem,
                   received, job>>

Post(c) ==
    /\ pc[c] = "post"
    /\ queueSem' = queueSem + 1
    /\ Goto(c, "wait")
    /\ UNCHANGED <<msgVars, waitVars, portVars, orderly, conn, walked, queue, received,
                   job>>

TakeSemaphore(c) ==
    /\ sem[c] > 0
    /\ sem' = [sem EXCEPT ![c] = @ - 1]
    /\ UNCHANGED <<msgVars, chain, reply, replyId, portVars, connVars, received,
                   job>>

WaitSucceeds(c) == pc[c] = "wait" /\ TakeSemaphore(c) /\ Goto(c, "take")

(* The thread is being terminated: STATUS_USER_APC, unless the semaphore   *)
(* turns out to be signaled.                                               *)
WaitApc(c) ==
    /\ pc[c] = "wait" /\ sem[c] = 0
    /\ Goto(c, "apc")
    /\ UNCHANGED <<msgVars, waitVars, portVars, connVars, received, job>>

ApcSignaled(c) == pc[c] = "apc" /\ TakeSemaphore(c) /\ Goto(c, "dyingTake")

ApcNotSignaled(c) ==
    /\ pc[c] = "apc" /\ sem[c] = 0
    /\ Goto(c, "dyingFailed")
    /\ UNCHANGED <<msgVars, waitVars, portVars, connVars, received, job>>

(* LpcpFreeConMsg takes the message from the thread, and from the queue,   *)
(* if the thread still has it.                                             *)
LpcpFreeConMsg(c) ==
    /\ chain' = Without(chain, c)
    /\ reply' = reply \ {c}
    /\ replyId' = IF c \in reply THEN replyId \ {c} ELSE replyId
    /\ queue' = IF c \in reply THEN Without(queue, c) ELSE queue

(* The wait succeeded: with a message the connection is decided next,      *)
(* without one it is refused.  The thread frees its message in any case.   *)
Take(c) ==
    /\ pc[c] \in {"take", "dyingTake"}
    /\ LpcpFreeConMsg(c)
    /\ pc' = [pc EXCEPT ![c] =
                 CASE c \in reply /\ @ = "take" -> "decide"
                   [] c \in reply               -> "dyingDecide"
                   [] @ = "take"                -> "done"
                   [] OTHER                     -> "dying"]
    /\ UNCHANGED <<msgVars, sem, portVars, orderly, conn, walked, queueSem, received,
                   job>>

(* If the client's port is connected by now the caller gets a handle to    *)
(* it, otherwise STATUS_PORT_CONNECTION_REFUSED and the port is released.  *)
Decide(c) ==
    /\ pc[c] \in {"decide", "dyingDecide"}
    /\ clientPort' = [clientPort EXCEPT ![c] =
                         IF c \in connected["client"] THEN "open" ELSE @]
    /\ FreeMessage(c)
    /\ Goto(c, IF pc[c] = "decide" THEN "done" ELSE "dying")
    /\ UNCHANGED <<waitVars, serverPort, connected, attached, pending, connVars,
                   received, job>>

(* The wait failed, or the port had been closed: the thread takes its      *)
(* message and clears the semaphore; then it frees the message, if it took *)
(* it, and releases the port.                                              *)
Failed(c) ==
    /\ pc[c] \in {"failed", "dyingFailed"}
    /\ LpcpFreeConMsg(c)
    /\ IF c \in reply THEN FreeMessage(c) ELSE UNCHANGED msgVars
    /\ Goto(c, IF pc[c] = "failed" THEN "clear" ELSE "dyingClear")
    /\ UNCHANGED <<sem, portVars, orderly, conn, walked, queueSem, received, job>>

Clear(c) ==
    /\ pc[c] \in {"clear", "dyingClear"}
    /\ sem' = [sem EXCEPT ![c] = IF @ > 0 THEN @ - 1 ELSE @]
    /\ Goto(c, IF pc[c] = "clear" THEN "done" ELSE "dying")
    /\ UNCHANGED <<msgVars, chain, reply, replyId, portVars, connVars, received,
                   job>>

(* LpcExitThread.                                                          *)
LpcExitThread(c) ==
    /\ pc[c] = "dying"
    /\ chain' = Without(chain, c)
    /\ reply' = reply \ {c}
    /\ replyId' = replyId \ {c}
    /\ IF c \in reply THEN FreeMessage(c) ELSE UNCHANGED msgVars
    /\ Goto(c, "gone")
    /\ UNCHANGED <<sem, portVars, connVars, received, job>>

-----------------------------------------------------------------------------
(* The server: NtReplyWaitReceivePortEx.                                   *)
ReceiveWait(s) ==
    /\ pc[s] = "idle" /\ queueSem > 0
    /\ queueSem' = queueSem - 1
    /\ Goto(s, "received")
    /\ UNCHANGED <<msgVars, waitVars, portVars, orderly, conn, walked, queue, received,
                   job>>

(* A connection message is copied but stays with the client thread.        *)
ReceiveMessage(s) ==
    /\ pc[s] = "received"
    /\ \/ queue = <<>> /\ UNCHANGED <<queue, received>>
       \/ /\ queue # <<>>
          /\ queue' = Tail(queue)
          /\ received' = received \cup {Head(queue)}
    /\ Goto(s, "idle")
    /\ UNCHANGED <<msgVars, waitVars, portVars, orderly, conn, walked, queueSem, job>>

(* Mutant: the client thread keeps the message as well.                    *)
AcceptShares(s, c) ==
    /\ pc[s] = "idle" /\ c \in received
    /\ orderly => conn # "walking"
    /\ c \in reply /\ c \in replyId /\ c \notin replied
    /\ replyId' = replyId \ {c}
    /\ carries' = carries \ {c}
    /\ replied' = replied \cup {c}
    /\ job' = [job EXCEPT ![s] = c]
    /\ Goto(s, "accept")
    /\ UNCHANGED <<freed, chain, reply, sem, portVars, connVars, received>>

(* Mutant: any message of the thread is taken for its connection request.  *)
AcceptAny(s, c) ==
    /\ pc[s] = "idle" /\ c \in received
    /\ orderly => conn # "walking"
    /\ c \in reply
    /\ reply' = reply \ {c}
    /\ replyId' = replyId \ {c}
    /\ carries' = carries \ {c}
    /\ replied' = replied \cup {c}
    /\ job' = [job EXCEPT ![s] = c]
    /\ Goto(s, "accept")
    /\ UNCHANGED <<freed, chain, sem, portVars, connVars, received>>

(* NtAcceptConnectPort takes the message from the client thread, with the  *)
(* reference to the client's port; STATUS_REPLY_MESSAGE_MISMATCH if the    *)
(* thread has no connection request any more.                              *)
AcceptTake(s, c) ==
    /\ pc[s] = "idle" /\ c \in received
    /\ orderly => conn # "walking"
    /\ c \in reply /\ c \in replyId /\ c \notin replied
    /\ reply' = reply \ {c}
    /\ replyId' = replyId \ {c}
    /\ carries' = carries \ {c}
    /\ replied' = replied \cup {c}
    /\ job' = [job EXCEPT ![s] = c]
    /\ Goto(s, "accept")
    /\ UNCHANGED <<freed, chain, sem, portVars, connVars, received>>

(* AcceptConnection: the server's port is created and the ports are        *)
(* connected, outside the lock.                                            *)
AcceptConnect(s) ==
    LET c == job[s]
    IN  /\ pc[s] = "accept"
        /\ serverPort' = [serverPort EXCEPT ![c] = "live"]
        /\ connected' = [side \in Sides |-> connected[side] \cup {c}]
        /\ attached' = [attached EXCEPT !["server"] = @ \cup {c}]
        /\ Goto(s, "connected")
        /\ UNCHANGED <<msgVars, waitVars, clientPort, pending, connVars,
                       received, job>>

(* Mutant: the client's port keeps its ConnectedPort.                      *)
DeleteServerPortOnly(c) ==
    /\ serverPort' = [serverPort EXCEPT ![c] = "gone"]
    /\ pending' = pending \ {c}
    /\ connected' = [connected EXCEPT !["server"] = @ \ {c}]
    /\ attached' = [attached EXCEPT !["server"] = @ \ {c}]

(* The client's port is disconnected by the deletion of the server's.      *)
DeleteServerPort(c) ==
    /\ serverPort' = [serverPort EXCEPT ![c] = "gone"]
    /\ pending' = pending \ {c}
    /\ connected' = [side \in Sides |-> connected[side] \ {c}]
    /\ attached' = IF c \in connected["server"]
                   THEN [side \in Sides |-> attached[side] \ {c}]
                   ELSE [attached EXCEPT !["server"] = @ \ {c}]

(* A view cannot be mapped: the new port is dereferenced, and deleted.     *)
AcceptFails(s) ==
    /\ pc[s] = "connected"
    /\ DeleteServerPort(job[s])
    /\ Goto(s, "refuse")
    /\ UNCHANGED <<msgVars, waitVars, clientPort, connVars, received, job>>

(* The server process gets a handle to its port; the accept has its own    *)
(* reference, for the handle may be closed at once.                        *)
AcceptInsert(s) ==
    /\ pc[s] = "connected"
    /\ serverPort' = [serverPort EXCEPT ![job[s]] = "open"]
    /\ Goto(s, "inserted")
    /\ UNCHANGED <<msgVars, waitVars, clientPort, connected, attached, pending,
                   connVars, received, job>>

(* The client thread gets its message; it is woken later, by               *)
(* NtCompleteConnectPort.                                                  *)
AcceptPublish(s) ==
    LET c == job[s]
    IN  /\ pc[s] = "inserted"
        /\ pending' = pending \cup {c}
        /\ reply' = reply \cup {c}
        /\ job' = [job EXCEPT ![s] = None]
        /\ Goto(s, "idle")
        /\ UNCHANGED <<msgVars, chain, replyId, sem, clientPort, serverPort,
                       connected, attached, connVars, received>>

Refuse(s) ==
    /\ pc[s] = "accept"
    /\ Goto(s, "refuse")
    /\ UNCHANGED <<msgVars, waitVars, portVars, connVars, received, job>>

(* Mutant: the client thread is woken on the chain.                        *)
WakeOnChain(c) == chain' = chain

(* LpcpPrepareToWakeClient.                                                *)
PrepareToWake(c) ==
    chain' = IF pc[c] = "gone" THEN chain ELSE Without(chain, c)

RefuseReply(s) ==
    /\ pc[s] = "refuse"
    /\ reply' = reply \cup {job[s]}
    /\ PrepareToWake(job[s])
    /\ Goto(s, "wake")
    /\ UNCHANGED <<msgVars, replyId, sem, portVars, connVars, received, job>>

(* NtCompleteConnectPort does nothing if the client thread has no message  *)
(* or, with the port still connected, is not on the chain.                 *)
Complete(s, c) ==
    /\ pc[s] = "idle" /\ serverPort[c] = "open"
    /\ c \in pending /\ c \in reply
    /\ c \in attached["server"] => OnChain(c)
    /\ pending' = pending \ {c}
    /\ PrepareToWake(c)
    /\ job' = [job EXCEPT ![s] = c]
    /\ Goto(s, "wake")
    /\ UNCHANGED <<msgVars, reply, replyId, sem, clientPort, serverPort,
                   connected, attached, connVars, received>>

(* KeReleaseSemaphore, outside the lock.  At its limit of 1 the semaphore  *)
(* keeps its count, and the call raises STATUS_SEMAPHORE_LIMIT_EXCEEDED.   *)
Wake(s) ==
    /\ pc[s] = "wake"
    /\ sem' = [sem EXCEPT ![job[s]] = 1]
    /\ job' = [job EXCEPT ![s] = None]
    /\ Goto(s, "idle")
    /\ UNCHANGED <<msgVars, chain, reply, replyId, portVars, connVars, received>>

-----------------------------------------------------------------------------
(* Closing ports.                                                          *)
CloseServerHandle(c) ==
    /\ serverPort[c] = "open"
    /\ serverPort' = [serverPort EXCEPT ![c] = "closed"]
    /\ UNCHANGED <<msgVars, waitVars, clientPort, connected, attached, pending,
                   connVars, received, pc, job>>

(* The server's port without a handle, when no call uses it.               *)
ReleaseServerPort(c) ==
    /\ serverPort[c] = "closed"
    /\ \A s \in Servers : job[s] # c
    /\ DeleteServerPort(c)
    /\ UNCHANGED <<msgVars, waitVars, clientPort, connVars, received, pc, job>>

(* A client's port that its thread, its message and a server's accept have *)
(* released, or whose handle was closed.                                   *)
CloseClientPort(c) ==
    /\ clientPort[c] \in {"live", "open"}
    /\ pc[c] \in {"done", "dying", "gone"}
    /\ c \notin carries /\ \A s \in Servers : job[s] # c
    /\ clientPort' = [clientPort EXCEPT ![c] = "gone"]
    /\ connected' = [side \in Sides |-> connected[side] \ {c}]
    /\ attached' = IF c \in connected["client"]
                   THEN [side \in Sides |-> attached[side] \ {c}]
                   ELSE [attached EXCEPT !["client"] = @ \ {c}]
    /\ UNCHANGED <<msgVars, waitVars, serverPort, pending, connVars, received,
                   pc, job>>

(* The server is between NtAcceptConnectPort and the client's wake-up.     *)
Handling == \/ \E s \in Servers : job[s] # None
            \/ pending # {}

(* The walk of LpcpDestroyPortQueue along the chain, up to the first       *)
(* thread whose message it frees, for that drops the lock.  It goes on     *)
(* with woken, whose message was freed before.                             *)
WalkChain(woken) ==
    LET stops == {i \in 1 .. Len(chain) : sem[chain[i]] = 0 /\ chain[i] \in reply}
        n == IF stops = {} THEN Len(chain) ELSE Min(stops)
        last == IF stops = {} THEN None ELSE chain[n]
        wakes == woken \cup {c \in {chain[i] : i \in 1 .. n} : sem[c] = 0}
    IN  /\ chain' = SubSeq(chain, n + 1, Len(chain))
        /\ walked' = last
        /\ conn' = IF last = None THEN "draining" ELSE "walking"
        /\ replyId' = replyId \ (wakes \ {last})
        /\ sem' = [c \in Clients |-> IF c \in wakes \ {last} THEN 1 ELSE sem[c]]
        /\ reply' = reply \ {last}
        /\ IF last = None
           THEN UNCHANGED <<queue, msgVars>>
           ELSE queue' = Without(queue, last) /\ FreeMessage(last)

(* LpcpClosePort, the last handle of the connection port.                  *)
LpcpClosePort ==
    /\ conn = "open"
    /\ orderly => ~Handling
    /\ WalkChain({})
    /\ UNCHANGED <<orderly, portVars, queueSem, received, pc, job>>

Walk ==
    /\ conn = "walking"
    /\ WalkChain({walked})
    /\ UNCHANGED <<orderly, portVars, queueSem, received, pc, job>>

(* Then the queue is emptied.                                              *)
Drain ==
    /\ conn = "draining"
    /\ IF queue # <<>>
       THEN queue' = Tail(queue) /\ FreeMessage(Head(queue)) /\ UNCHANGED conn
       ELSE conn' = "closed" /\ UNCHANGED <<queue, msgVars>>
    /\ UNCHANGED <<waitVars, portVars, orderly, walked, queueSem, received, pc,
                   job>>

-----------------------------------------------------------------------------
ClientProceeds(c) ==
    \/ Send(c) \/ Post(c) \/ WaitSucceeds(c) \/ ApcSignaled(c)
    \/ ApcNotSignaled(c) \/ Take(c) \/ Decide(c) \/ Failed(c) \/ Clear(c)
    \/ LpcExitThread(c)

ServerProceeds(s) ==
    \/ ReceiveMessage(s) \/ AcceptConnect(s) \/ AcceptFails(s)
    \/ AcceptInsert(s) \/ AcceptPublish(s) \/ Refuse(s) \/ RefuseReply(s) \/ Wake(s)

Close == Walk \/ Drain

Next == \/ \E c \in Clients : \/ Connect(c) \/ ClientProceeds(c) \/ WaitApc(c)
                              \/ CloseServerHandle(c) \/ ReleaseServerPort(c)
                              \/ CloseClientPort(c)
        \/ \E s \in Servers :
              \/ ReceiveWait(s) \/ ServerProceeds(s)
              \/ \E c \in Clients : AcceptTake(s, c) \/ Complete(s, c)
        \/ LpcpClosePort \/ Close

Spec == Init /\ [][Next]_vars

(* Threads go on inside their calls; nothing makes the server receive,     *)
(* accept or complete.                                                     *)
FairSpec == /\ Spec /\ WF_vars(Close)
            /\ \A c \in Clients : WF_vars(ClientProceeds(c))
            /\ \A s \in Servers : WF_vars(ServerProceeds(s))

-----------------------------------------------------------------------------
(* The types of the variables.                                             *)
TypeOK ==
    /\ orderly \in BOOLEAN
    /\ conn \in {"open", "walking", "draining", "closed"}
    /\ walked \in Clients \cup {None}
    /\ queue \in Seq(Clients) /\ chain \in Seq(Clients)
    /\ queueSem \in Nat
    /\ freed \in [Clients -> Nat]
    /\ replied \subseteq Clients /\ carries \subseteq Clients
    /\ reply \subseteq Clients /\ replyId \subseteq Clients
    /\ sem \in [Clients -> {0, 1}]
    /\ clientPort \in [Clients -> {"none", "live", "open", "gone"}]
    /\ serverPort \in [Clients -> {"none", "live", "open", "closed", "gone"}]
    /\ connected \in [Sides -> SUBSET Clients]
    /\ attached \in [Sides -> SUBSET Clients]
    /\ pending \subseteq Clients /\ received \subseteq Clients
    /\ job \in [Servers -> Clients \cup {None}]

(* A connection message is freed once, and nobody still holds it: no       *)
(* thread, not the queue, not a server that is accepting it.               *)
FreedOnce ==
    \A c \in Clients :
        /\ freed[c] <= 1
        /\ freed[c] = 1 =>
              /\ c \notin reply
              /\ \A i \in 1 .. Len(queue) : queue[i] # c
              /\ \A s \in Servers :
                    job[s] = c => pc[s] = "wake"

(* The ports of a connection point to each other or not at all, and only   *)
(* while both exist: the server connects them without the lock.            *)
Linked ==
    /\ connected["client"] = connected["server"]
    /\ \A c \in connected["client"] :
          clientPort[c] # "gone" /\ serverPort[c] # "gone"

(* A call leaves nothing behind: a client thread that has returned and     *)
(* goes on is on no chain, has no message, and has no wake-up in its       *)
(* semaphore or on its way, which would end its next wait at once.         *)
NothingLeft ==
    orderly => \A c \in Clients :
                  pc[c] = "done" =>
                      /\ ~OnChain(c) /\ c \notin reply
                      /\ sem[c] = 0 /\ walked # c
                      /\ \A s \in Servers : ~(pc[s] = "wake" /\ job[s] = c)

(* A client thread is woken once: whoever is about to release its          *)
(* semaphore finds it at 0, below the limit of 1.                          *)
WokenOnce ==
    orderly => /\ \A s \in Servers :
                     pc[s] = "wake" => sem[job[s]] = 0 /\ walked # job[s]
               /\ walked # None => sem[walked] = 0

(* A client thread whose request was refused or completed, and every one   *)
(* that waits when the connection port is closed, is to return.            *)
Due(c) == pc[c] = "wait" /\ (~OnChain(c) \/ conn # "open")

Returned(c) == pc[c] \in {"done", "gone"}

(* A thread that has returned has freed its connection message, "back to   *)
(* the connection port's zone" as NtConnectPort says, unless a server      *)
(* still holds it.                                                         *)
MessageFreed ==
    \A c \in Clients :
        pc[c] = "done" => freed[c] = 1 \/ \E s \in Servers : job[s] = c
=============================================================================
