-------------------------------- MODULE LPC --------------------------------
(***************************************************************************)
(* Requests and replies over established LPC connections                   *)
(* (ntoskrnl/lpc: lpcsend.c, lpcreply.c, lpcrecv.c, lpcclose.c,            *)
(* lpcqueue.c).  Client threads send requests that are queued at the       *)
(* server's connection port; server threads receive them, call the client  *)
(* back, and reply by thread and message id, at most once or too late;     *)
(* waits are cut short by termination; ports are closed and deleted.       *)
(*                                                                         *)
(* What the code does under the global LPC lock is one step; semaphores    *)
(* are released and waited for outside it.                                 *)
(***************************************************************************)
EXTENDS Naturals, Sequences, FiniteSets

CONSTANTS Clients,      \* threads of the client process
          Servers,      \* threads of the server process
          Conns,        \* pairs of connected communication ports
          MaxId,        \* bound: message ids before LpcpNextMessageId wraps
          None          \* NULL

Threads == Clients \cup Servers

ClientPort(k) == [side |-> "client", conn |-> k]
ServerPort(k) == [side |-> "server", conn |-> k]
ConnectionPort == [side |-> "connection", conn |-> None]

CommPorts == {ClientPort(k) : k \in Conns} \cup {ServerPort(k) : k \in Conns}
Ports == CommPorts \cup {ConnectionPort}

Peer(p) == IF p.side = "client" THEN ServerPort(p.conn) ELSE ClientPort(p.conn)

VARIABLES
    life,       \* life[p]: how far the closing and deletion of port p is
    connected,  \* the ports whose ConnectedPort is not NULL
    attached,   \* the communication ports whose ConnectionPort is not NULL
    chain,      \* chain[p]: the threads on p's LpcReplyChainHead
    queue,      \* MsgQueue.ReceiveHead of the connection port
    queueSem,   \* MsgQueue.Semaphore of the connection port
    reply,      \* reply[t]: LpcReplyMessage or LpcWaitingOnPort, a union
    replyId,    \* replyId[t]: LpcReplyMessageId
    sem,        \* sem[t]: the count of LpcReplySemaphore
    nextId,     \* LpcpNextMessageId
    zone,       \* the number of messages allocated
    known,      \* the messages a process has received and may reply to
    pc,         \* pc[t]: where t is
    port,       \* port[t]: the port t's service has referenced
    target,     \* target[t]: WakeupThread
    call,       \* call[t]: the service t waits for a reply in
    asked       \* asked[t]: MessageId of the message t's call is about

portVars == <<life, connected, attached>>
waitVars == <<chain, reply, replyId, sem>>
queueVars == <<queue, queueSem, nextId>>
threadVars == <<pc, port, target, call, asked>>
vars == <<portVars, waitVars, queueVars, threadVars, zone, known>>

-----------------------------------------------------------------------------
(* The union of LpcReplyMessage and LpcWaitingOnPort: LPCP_PORT_BIT tells  *)
(* which it is.                                                            *)
WaitingOn(p) == [kind |-> "port", port |-> p]
Message(kind, id, from) == [kind |-> kind, id |-> id, from |-> from]

LpcpGetThreadMessage(t) ==
    IF reply[t] # None /\ reply[t].kind # "port" THEN reply[t] ELSE None

LpcpGetThreadPort(t) ==
    IF reply[t] # None /\ reply[t].kind = "port" THEN reply[t].port ELSE None

(* Only a port connected with the one the thread waits on may reply to it. *)
LpcpValidateClientPort(t, p) ==
    LET pt == LpcpGetThreadPort(t)
    IN  /\ pt # None
        /\ \/ p = ConnectionPort /\ pt \in attached \cup {ConnectionPort}
           \/ pt \in connected /\ p = Peer(pt)
           \/ p = pt
           \/ p.side = "server" /\ p \in attached /\ pt = ConnectionPort

(* Mutant: the message id of the reply is not compared.                    *)
CanReplyAnyId(m, p) ==
    /\ replyId[m.from] # 0
    /\ LpcpGetThreadMessage(m.from) = None
    /\ LpcpValidateClientPort(m.from, p)

(* The test of every service that answers message m through port p; the    *)
(* call ends with STATUS_REPLY_MESSAGE_MISMATCH when it fails.             *)
CanReply(m, p) ==
    /\ replyId[m.from] = m.id
    /\ LpcpGetThreadMessage(m.from) = None
    /\ LpcpValidateClientPort(m.from, p)

Unchained(ch, t) ==
    [p \in Ports |-> SelectSeq(ch[p], LAMBDA u : u # t)]

(* The threads with LpcExitThreadCalled.                                   *)
exiting == {t \in Threads : pc[t] = "gone"}

(* The port on whose chain a caller that uses p waits; NULL if p is        *)
(* disconnected.                                                           *)
RundownPort(p) == CASE p = ConnectionPort -> p
                    [] p \in connected    -> Peer(p)
                    [] OTHER              -> None

Init == /\ life = [p \in Ports |-> "live"]
        /\ connected = CommPorts
        /\ attached = CommPorts
        /\ chain = [p \in Ports |-> <<>>]
        /\ queue = <<>>
        /\ queueSem = 0
        /\ reply = [t \in Threads |-> None]
        /\ replyId = [t \in Threads |-> 0]
        /\ sem = [t \in Threads |-> 0]
        /\ nextId = 1
        /\ zone = 0
        /\ known = {}
        /\ pc = [t \in Threads |-> "idle"]
        /\ port = [t \in Threads |-> None]
        /\ target = [t \in Threads |-> None]
        /\ call = [t \in Threads |-> "request"]
        /\ asked = [t \in Threads |-> 0]

Goto(t, at) == pc' = [pc EXCEPT ![t] = at]

-----------------------------------------------------------------------------
(* NtRequestWaitReplyPort with a new request.                              *)
(* The request is queued at the connection port and the thread is put on   *)
(* the chain of the server's port.  A disconnected port ends the call with *)
(* STATUS_PORT_DISCONNECTED instead.                                       *)
Request(t, k) ==
    LET p == ClientPort(k)
    IN  /\ pc[t] = "idle"
        /\ life[p] = "live" /\ p \in connected /\ p \in attached
        /\ nextId <= MaxId
        /\ queue' = Append(queue, Message("request", nextId, t))
        /\ chain' = [chain EXCEPT ![ServerPort(k)] = Append(@, t)]
        /\ reply' = [reply EXCEPT ![t] = WaitingOn(p)]
        /\ replyId' = [replyId EXCEPT ![t] = nextId]
        /\ asked' = [asked EXCEPT ![t] = nextId]
        /\ nextId' = nextId + 1
        /\ zone' = zone + 1
        /\ port' = [port EXCEPT ![t] = p]
        /\ Goto(t, "post")
        /\ UNCHANGED <<portVars, sem, queueSem, target, call, known>>

(* KeReleaseSemaphore of the queue of the connection port.                 *)
Post(t) ==
    /\ pc[t] = "post"
    /\ queueSem' = queueSem + 1
    /\ Goto(t, "wait")
    /\ UNCHANGED <<portVars, waitVars, queue, nextId, port, target, call, asked, zone,
                   known>>

(* The messages that t's process can answer: a server those of clients and *)
(* the other way round; and the ports it has a handle to.                  *)
Answerable(t) == {m \in known : (m.from \in Clients) = (t \in Servers)}
PortsOf(t) == {p \in Ports : /\ life[p] = "live"
                              /\ (p.side = "client") = (t \in Clients)}

Answers(t, m, p) ==
    /\ pc[t] = "idle"
    /\ m \in Answerable(t) /\ p \in PortsOf(t)
    /\ CanReply(m, p)
    /\ zone' = zone + 1
    /\ target' = [target EXCEPT ![t] = m.from]
    /\ port' = [port EXCEPT ![t] = p]

(* Mutant: the thread that is answered stays on the chain.                 *)
ReplyChained(t, m, p, at) ==
    /\ Answers(t, m, p)
    /\ at = "releaseReceive" => p = ConnectionPort
    /\ reply' = [reply EXCEPT ![m.from] = Message("reply", m.id, t)]
    /\ replyId' = [replyId EXCEPT ![m.from] = 0]
    /\ Goto(t, at)
    /\ UNCHANGED <<portVars, chain, sem, queueVars, call, asked, known>>

(* NtReplyPort, and the reply of NtReplyWaitReceivePortEx: the message is  *)
(* attached to the thread that waits for it, which is unchained.           *)
Reply(t, m, p, at) ==
    /\ Answers(t, m, p)
    /\ at = "releaseReceive" => p = ConnectionPort
    /\ reply' = [reply EXCEPT ![m.from] = Message("reply", m.id, t)]
    /\ replyId' = [replyId EXCEPT ![m.from] = 0]
    /\ chain' = IF m.from \in exiting THEN chain ELSE Unchained(chain, m.from)
    /\ Goto(t, at)
    /\ UNCHANGED <<portVars, sem, queueVars, call, asked, known>>

(* The other thread gets a message, and the caller waits in its place for  *)
(* a reply with the same id.                                               *)
Exchange(t, m, p, kind) ==
    LET others == Unchained(chain, m.from)
        rundown == RundownPort(p)
    IN  /\ Answers(t, m, p)
        /\ reply' = [reply EXCEPT ![m.from] = Message(kind, m.id, t),
                                  ![t] = WaitingOn(p)]
        /\ replyId' = [replyId EXCEPT ![m.from] = 0, ![t] = m.id]
        /\ chain' = IF rundown = None THEN others
                    ELSE [others EXCEPT ![rundown] = Append(@, t)]
        /\ asked' = [asked EXCEPT ![t] = m.id]
        /\ Goto(t, "releaseWait")
        /\ UNCHANGED <<portVars, sem, queueVars, known>>

(* NtRequestWaitReplyPort with a request to the thread that waits for the  *)
(* reply to m.  A disconnected port ends it.                               *)
Callback(t, m, p) ==
    /\ RundownPort(p) # None
    /\ Exchange(t, m, p, "callback")
    /\ call' = [call EXCEPT ![t] = "request"]

(* NtReplyWaitReplyPort, which does not look whether p is connected.       *)
ReplyWait(t, m, p) ==
    /\ Exchange(t, m, p, "reply")
    /\ call' = [call EXCEPT ![t] = "replyWait"]

(* KeReleaseSemaphore of the thread that was answered, outside the lock.   *)
Release(t) ==
    /\ pc[t] \in {"release", "releaseReceive", "releaseWait"}
    /\ sem' = [sem EXCEPT ![target[t]] = @ + 1]
    /\ target' = [target EXCEPT ![t] = None]
    /\ pc' = [pc EXCEPT ![t] = CASE @ = "release"        -> "idle"
                                 [] @ = "releaseReceive" -> "receive"
                                 [] @ = "releaseWait"    -> "wait"]
    /\ port' = [port EXCEPT ![t] = IF pc[t] = "release" THEN None ELSE @]
    /\ UNCHANGED <<portVars, chain, reply, replyId, queueVars, call, asked, zone,
                   known>>

-----------------------------------------------------------------------------
(* The wait for the reply and the end of the call.                         *)
Returns(t, at) ==
    /\ Goto(t, at)
    /\ port' = [port EXCEPT ![t] = None]
    /\ call' = [call EXCEPT ![t] = "request"]
    /\ asked' = [asked EXCEPT ![t] = 0]
    /\ UNCHANGED <<portVars, queueVars, target>>

(* Under the lock the thread leaves the chain, if it is still on it, and   *)
(* takes the message it was given, which is copied to the caller and       *)
(* freed.  Without a message the call ends with STATUS_LPC_REPLY_LOST.     *)
TakeReply(t) ==
    LET msg == LpcpGetThreadMessage(t)
    IN  /\ chain' = Unchained(chain, t)
        /\ reply' = [reply EXCEPT ![t] = None]
        /\ replyId' = IF call[t] = "request" THEN [replyId EXCEPT ![t] = 0]
                      ELSE replyId
        /\ zone' = IF msg = None THEN zone ELSE zone - 1
        /\ known' = IF msg # None /\ msg.kind = "callback"
                    THEN known \cup {[id |-> msg.id, from |-> msg.from]}
                    ELSE known

(* Nobody touches the thread's fields between its wake-up and the lock:    *)
(* one step.                                                               *)
WaitSucceeds(t) ==
    /\ pc[t] = "wait" /\ sem[t] > 0
    /\ sem' = [sem EXCEPT ![t] = @ - 1]
    /\ TakeReply(t)
    /\ Returns(t, "idle")

(* The thread is being terminated: STATUS_USER_APC.                        *)
WaitApc(t) ==
    /\ pc[t] = "wait" /\ sem[t] = 0
    /\ Goto(t, "apc")
    /\ UNCHANGED <<portVars, waitVars, queueVars, port, target, call, asked,
                   zone, known>>

(* If the semaphore is signaled by then, it is cleared and the call        *)
(* succeeds.                                                               *)
ApcSignaled(t) ==
    /\ pc[t] = "apc" /\ sem[t] > 0
    /\ sem' = [sem EXCEPT ![t] = @ - 1]
    /\ TakeReply(t)
    /\ Returns(t, "dying")

ApcNotSignaled(t) ==
    /\ pc[t] = "apc" /\ sem[t] = 0
    /\ Goto(t, "failed")
    /\ UNCHANGED <<portVars, waitVars, queueVars, port, target, call, asked,
                   zone, known>>

(* Mutant: a thread whose wait failed stays on the chain.                  *)
WaitFailedChained(t) ==
    /\ pc[t] = "failed"
    /\ reply' = [reply EXCEPT ![t] = None]
    /\ replyId' = [replyId EXCEPT ![t] = 0]
    /\ zone' = IF LpcpGetThreadMessage(t) # None THEN zone - 1 ELSE zone
    /\ Returns(t, "dying")
    /\ UNCHANGED <<chain, sem, known>>

(* The wait failed.  NtRequestWaitReplyPort frees the message that may     *)
(* have come by now, NtReplyWaitReplyPort leaves it to LpcExitThread.      *)
WaitFailed(t) ==
    LET takes == call[t] = "request"
        msg == LpcpGetThreadMessage(t)
    IN  /\ pc[t] = "failed"
        /\ chain' = Unchained(chain, t)
        /\ reply' = IF takes THEN [reply EXCEPT ![t] = None] ELSE reply
        /\ replyId' = IF takes THEN [replyId EXCEPT ![t] = 0] ELSE replyId
        /\ zone' = IF takes /\ msg # None THEN zone - 1 ELSE zone
        /\ Returns(t, "dying")
        /\ UNCHANGED <<sem, known>>

-----------------------------------------------------------------------------
(* NtReplyWaitReceivePortEx on the connection port.                        *)
Receive(t) ==
    /\ pc[t] = "idle" /\ t \in Servers
    /\ life[ConnectionPort] = "live"
    /\ port' = [port EXCEPT ![t] = ConnectionPort]
    /\ Goto(t, "receive")
    /\ UNCHANGED <<portVars, waitVars, queueVars, target, call, asked, zone,
                   known>>

(* Mutant: the queue is looked at without a wait for its semaphore.        *)
ReceiveAnyway(t) ==
    /\ pc[t] = "receive"
    /\ queueSem' = queueSem - 1
    /\ Goto(t, "received")
    /\ UNCHANGED <<portVars, waitVars, queue, nextId, port, target, call, asked,
                   zone, known>>

ReceiveWait(t) ==
    /\ pc[t] = "receive" /\ queueSem > 0
    /\ queueSem' = queueSem - 1
    /\ Goto(t, "received")
    /\ UNCHANGED <<portVars, waitVars, queue, nextId, port, target, call, asked, zone,
                   known>>

(* Mutant: a receive whose time is over takes the count it did not get.    *)
ReceiveEndsTaking(t) ==
    /\ pc[t] = "receive"
    /\ queueSem' = IF queueSem > 0 THEN queueSem - 1 ELSE 0
    /\ Goto(t, "idle")
    /\ port' = [port EXCEPT ![t] = None]
    /\ UNCHANGED <<portVars, waitVars, queue, nextId, target, call, asked, zone,
                   known>>

(* The time is over, or an APC.                                            *)
ReceiveEnds(t) ==
    /\ pc[t] = "receive"
    /\ Goto(t, "idle")
    /\ port' = [port EXCEPT ![t] = None]
    /\ UNCHANGED <<portVars, waitVars, queueVars, target, call, asked, zone,
                   known>>

(* The first message is removed, copied to the caller and freed; the queue *)
(* may be empty because the port was closed: STATUS_UNSUCCESSFUL.          *)
ReceiveMessage(t) ==
    /\ pc[t] = "received"
    /\ \/ queue = <<>> /\ UNCHANGED <<queue, zone, known>>
       \/ /\ queue # <<>>
          /\ queue' = Tail(queue)
          /\ zone' = zone - 1
          /\ known' = IF Head(queue).kind = "request"
                      THEN known \cup {[id |-> Head(queue).id,
                                        from |-> Head(queue).from]}
                      ELSE known
    /\ Goto(t, "idle")
    /\ port' = [port EXCEPT ![t] = None]
    /\ UNCHANGED <<portVars, waitVars, queueSem, nextId, target, call, asked>>

-----------------------------------------------------------------------------
(* Mutant: a message that came for the thread is left to it.               *)
ExitThreadKeeps(t) ==
    /\ pc[t] = "dying"
    /\ chain' = Unchained(chain, t)
    /\ replyId' = [replyId EXCEPT ![t] = 0]
    /\ Goto(t, "gone")
    /\ UNCHANGED <<portVars, reply, sem, queueVars, port, target, call, asked,
                   zone, known>>

(* LpcExitThread.  A thread that exits while it is in no LPC call just     *)
(* makes no more calls.                                                    *)
LpcExitThread(t) ==
    /\ pc[t] = "dying"
    /\ chain' = Unchained(chain, t)
    /\ replyId' = [replyId EXCEPT ![t] = 0]
    /\ IF LpcpGetThreadMessage(t) # None
       THEN reply' = [reply EXCEPT ![t] = None] /\ zone' = zone - 1
       ELSE UNCHANGED <<reply, zone>>
    /\ Goto(t, "gone")
    /\ UNCHANGED <<portVars, sem, queueVars, port, target, call, asked,
                   known>>

-----------------------------------------------------------------------------
(* Closing and deleting ports.                                             *)
(* The walk of LpcpDestroyPortQueue along the chain of p: it stops at a    *)
(* thread that exits, and forgets whoever it did not reach.                *)
Reached(p) ==
    {chain[p][i] : i \in {j \in 1 .. Len(chain[p]) :
                            \A h \in 1 .. j : chain[p][h] \notin exiting}}

(* Mutant: the threads are taken off the chain and not woken.              *)
WakeNone(p) ==
    /\ chain' = [chain EXCEPT ![p] = <<>>]
    /\ UNCHANGED <<reply, replyId, sem>>

WakeChain(p) ==
    LET woken == {t \in Reached(p) : sem[t] = 0}
    IN  /\ chain' = [chain EXCEPT ![p] = <<>>]
        /\ replyId' = [t \in Threads |-> IF t \in woken THEN 0 ELSE replyId[t]]
        /\ sem' = [t \in Threads |-> IF t \in woken THEN 1 ELSE sem[t]]
        /\ UNCHANGED reply

(* The last handle of the connection port: LpcpClosePort empties its queue.*)
(* The lock is dropped for each message.                                   *)
LpcpClosePort ==
    /\ life[ConnectionPort] = "live"
    /\ life' = [life EXCEPT ![ConnectionPort] = "draining"]
    /\ WakeChain(ConnectionPort)
    /\ UNCHANGED <<connected, attached, queueVars, threadVars, zone,
                   known>>

Drain ==
    /\ life[ConnectionPort] = "draining"
    /\ IF queue # <<>>
       THEN queue' = Tail(queue) /\ zone' = zone - 1 /\ UNCHANGED life
       ELSE /\ life' = [life EXCEPT ![ConnectionPort] = "closed"]
            /\ UNCHANGED <<queue, zone>>
    /\ UNCHANGED <<connected, attached, waitVars, queueSem, nextId,
                   threadVars, known>>

(* The calls that have referenced the connection port themselves.          *)
UsesConnectionPort(t) ==
    port[t] # None /\ port[t].side = "client" /\ call[t] = "request"

(* The references other than handles that keep port p.  A communication    *)
(* port whose handle is closed while a call still uses it is deleted when  *)
(* the call returns: the handle is taken to be closed then.                *)
Referenced(p) ==
    \/ \E t \in Threads : port[t] = p
    \/ /\ p = ConnectionPort
       /\ attached # {} \/ \E t \in Threads : UsesConnectionPort(t)

(* Mutant: the other port keeps its ConnectedPort.                         *)
DisconnectOne(p) ==
    /\ connected' = connected \ {p}
    /\ attached' = attached \ {p}

Disconnect(p) ==
    IF p \in connected
    THEN /\ connected' = connected \ {p, Peer(p)}
         /\ attached' = attached \ {p, Peer(p)}
    ELSE /\ attached' = attached \ {p}
         /\ UNCHANGED connected

(* LpcpDeletePort of a server's port disconnects the client's and wakes    *)
(* the threads that wait for replies through it.                           *)
DeleteServerPort(p) ==
    /\ p.side = "server" /\ life[p] = "live" /\ ~Referenced(p)
    /\ life' = [life EXCEPT ![p] = "gone"]
    /\ Disconnect(p)
    /\ WakeChain(p)
    /\ UNCHANGED <<queueVars, threadVars, zone, known>>

(* LpcpDeletePort of a client's port first sends LPC_PORT_CLOSED, a        *)
(* datagram: no thread waits with its message id.                          *)
DeleteClientPort(p) ==
    /\ p.side = "client" /\ life[p] = "live" /\ ~Referenced(p)
    /\ life' = [life EXCEPT ![p] = "notified"]
    /\ IF p \in connected /\ p \in attached
       THEN /\ queue' = Append(queue, Message("closed", 0, None))
            /\ queueSem' = queueSem + 1
            /\ zone' = zone + 1
       ELSE UNCHANGED <<queue, queueSem, zone>>
    /\ UNCHANGED <<connected, attached, waitVars, nextId, threadVars,
                   known>>

DestroyClientPort(p) ==
    /\ life[p] = "notified"
    /\ life' = [life EXCEPT ![p] = "gone"]
    /\ Disconnect(p)
    /\ WakeChain(p)
    /\ UNCHANGED <<queueVars, threadVars, zone, known>>

(* The connection port goes last, with what was queued since it was closed.*)
DeleteConnectionPort ==
    /\ life[ConnectionPort] = "closed" /\ ~Referenced(ConnectionPort)
    /\ life' = [life EXCEPT ![ConnectionPort] = "gone"]
    /\ queue' = <<>>
    /\ zone' = zone - Len(queue)
    /\ WakeChain(ConnectionPort)
    /\ UNCHANGED <<connected, attached, queueSem, nextId, threadVars,
                   known>>

-----------------------------------------------------------------------------
Call(t) ==
    \/ \E k \in Conns : t \in Clients /\ Request(t, k)
    \/ \E m \in Answerable(t), p \in PortsOf(t) :
          \/ Reply(t, m, p, "release")
          \/ Reply(t, m, p, "releaseReceive")
          \/ Callback(t, m, p)
          \/ ReplyWait(t, m, p)
    \/ Receive(t)

(* What a thread does by itself inside a call.                             *)
Proceed(t) ==
    \/ Post(t) \/ Release(t) \/ WaitSucceeds(t) \/ ApcSignaled(t)
    \/ ApcNotSignaled(t) \/ WaitFailed(t) \/ LpcExitThread(t)
    \/ ReceiveMessage(t)

Close == LpcpClosePort \/ \E p \in CommPorts : \/ DeleteServerPort(p)
                                              \/ DeleteClientPort(p)

Delete == Drain \/ DeleteConnectionPort
          \/ \E p \in CommPorts : DestroyClientPort(p)

Next == \/ \E t \in Threads : \/ Call(t) \/ Proceed(t) \/ WaitApc(t)
                             \/ ReceiveWait(t) \/ ReceiveEnds(t)
        \/ Close \/ Delete

Spec == Init /\ [][Next]_vars

(* Threads go on inside their calls and the deletion of a port goes on;    *)
(* no call, close or termination is assumed to happen.                     *)
FairSpec == Spec /\ WF_vars(Delete) /\ \A t \in Threads : WF_vars(Proceed(t))

-----------------------------------------------------------------------------
PCs == {"idle", "post", "wait", "release", "releaseReceive", "releaseWait",
        "apc", "failed", "receive", "received", "dying", "gone"}

Messages(kinds, senders) ==
    [kind : kinds, id : 0 .. MaxId, from : senders]

(* Among the types: LpcReplySemaphore stays within the limit of 1 that     *)
(* PspCreateThread gave it (KeReleaseSemaphore would raise an exception).  *)
TypeOK ==
    /\ life \in [Ports -> {"live", "draining", "closed", "notified", "gone"}]
    /\ connected \subseteq CommPorts /\ attached \subseteq CommPorts
    /\ \A p \in Ports : chain[p] \in Seq(Threads)
    /\ queue \in Seq(Messages({"request", "closed"}, Clients \cup {None}))
    /\ queueSem \in Nat
    /\ reply \in [Threads -> {None} \cup {WaitingOn(p) : p \in Ports}
                            \cup Messages({"reply", "callback"}, Threads)]
    /\ replyId \in [Threads -> 0 .. MaxId]
    /\ sem \in [Threads -> {0, 1}]
    /\ nextId \in 1 .. MaxId + 1
    /\ zone \in Nat
    /\ known \subseteq [id : 1 .. MaxId, from : Threads]
    /\ pc \in [Threads -> PCs]
    /\ port \in [Threads -> Ports \cup {None}]
    /\ target \in [Threads -> Threads \cup {None}]
    /\ call \in [Threads -> {"request", "replyWait"}]
    /\ asked \in [Threads -> 0 .. MaxId]

OnChain(t) == {p \in Ports : \E i \in 1 .. Len(chain[p]) : chain[p][i] = t}

Wakers(t) == {u \in Threads : target[u] = t}

dying == {t \in Threads : pc[t] \in {"apc", "failed", "dying", "gone"}}

Waiting == {"post", "releaseWait", "wait", "apc"}

(* A thread that waits for a reply and is not on a chain any more has one  *)
(* wake-up, in its semaphore or on its way; nobody else has any, except a  *)
(* thread whose wait was cut short by its termination.  So no reply, no    *)
(* disconnection and no combination of them wakes a thread twice, and no   *)
(* count is left for the thread's next wait.                               *)
WakeupOwed ==
    \A t \in Threads :
        LET wakeups == sem[t] + Cardinality(Wakers(t))
        IN  CASE pc[t] \in Waiting -> wakeups = IF OnChain(t) = {} THEN 1 ELSE 0
              [] t \in dying      -> wakeups <= 1
              [] OTHER            -> wakeups = 0

(* A message attached to a thread answers what the thread is asking, and   *)
(* for a thread that is on a chain there is none.                          *)
ReplyMatches ==
    \A t \in Threads :
        LpcpGetThreadMessage(t) # None =>
            /\ OnChain(t) = {}
            /\ t \notin dying => reply[t].id = asked[t]

(* A thread waits on the chain of the port connected to the one it uses,   *)
(* once, and its disconnection will reach it: neither port is gone and no  *)
(* thread on a chain is exiting, at which the walk would stop.             *)
ChainSound ==
    \A p \in Ports : \A i \in 1 .. Len(chain[p]) :
        LET t == chain[p][i]
        IN  /\ \A j \in 1 .. Len(chain[p]) : chain[p][j] = t => j = i
            /\ reply[t] = WaitingOn(port[t])
            /\ RundownPort(port[t]) = p
            /\ life[p] # "gone" /\ life[port[t]] # "gone"

(* Every message allocated is queued or attached to a thread that will     *)
(* free it: none is lost and none is freed twice.                          *)
MessagesAccounted ==
    /\ zone = Len(queue)
              + Cardinality({t \in Threads : LpcpGetThreadMessage(t) # None})
    /\ \A t \in exiting : LpcpGetThreadMessage(t) = None

Posting == Cardinality({t \in Threads : pc[t] = "post"})
Receiving == Cardinality({t \in Threads : pc[t] = "received"})

(* For each queued message the semaphore of the queue has a count, or one  *)
(* is on its way: no request stays in the queue while a server waits.      *)
QueueCovered == Len(queue) <= queueSem + Posting + Receiving

(* ConnectedPort and ConnectionPort never point to a deleted port.         *)
NoDangling ==
    /\ \A p \in connected : life[p] # "gone" /\ life[Peer(p)] # "gone"
    /\ attached # {} => life[ConnectionPort] # "gone"

(* A thread that was answered, and one whose port was disconnected, is to  *)
(* return.                                                                 *)
Due(t) ==
    \/ LpcpGetThreadMessage(t) # None
    \/ /\ pc[t] = "wait"
       /\ \E p \in CommPorts : port[t] = p /\ life[Peer(p)] = "gone"

Returned(t) == pc[t] \in {"idle", "gone"}
=============================================================================
