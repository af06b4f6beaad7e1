----------------------------- MODULE HandleTable -----------------------------
(***************************************************************************)
(* HANDLE_TABLE (ntoskrnl/ex/handle.c): the lists of free entries, the     *)
(* lock in each entry, and the push lock HandleContentionEvent on which    *)
(* threads block until some entry is unlocked (ExBlockPushLock and         *)
(* ExfUnblockPushLock of ntoskrnl/ex/pushlock.c).                          *)
(*                                                                         *)
(* A handle is the index of its entry; the first entry of each page is not *)
(* a handle and 0 ends a list.  A step is one access to a word that other  *)
(* threads may change, with the local code up to the next.  The table's    *)
(* push locks are those that RWLock specifies.                             *)
(***************************************************************************)
EXTENDS Integers, FiniteSets, Functions

CONSTANTS Threads,
          Objects,      \* what an entry may point to
          Null,         \* the NULL object and the NULL wait block
          PageEntries,  \* LOWLEVEL_COUNT
          MaxPages,     \* bound on the pages of the table
          TableLocks,   \* HANDLE_TABLE_LOCKS
          FreePool      \* the free handles a strict FIFO table likes to have

ASSUME HandleTableAssumption ==
    /\ PageEntries \in Nat \ {0, 1} /\ MaxPages \in Nat \ {0}
    /\ TableLocks \in Nat \ {0, 1} /\ FreePool \in Nat
    /\ Null \notin Threads \cup Objects

VARIABLES
    firstFree,  \* HandleTable->FirstFree
    lastFree,   \* HandleTable->LastFree
    next,       \* next[h]: NextFreeTableEntry, in union with GrantedAccess
    value,      \* value[h]: the object of entry h and whether h is locked
    pages,      \* NextHandleNeedingPool, in pages
    count,      \* HandleTable->HandleCount
    strictFIFO, \* HandleTable->StrictFIFO
    shared,     \* shared[i]: the threads that share HandleTableLock[i]
    chain,      \* HandleContentionEvent: the newest wait block
    block,      \* block[t]: the wait block in t's frame
    pc,         \* pc[t]: where t is
    my          \* my[t]: t's local variables

vars == <<firstFree, lastFree, next, value, pages, count, strictFIFO, shared,
          chain, block, pc, my>>

-----------------------------------------------------------------------------
Indexes == 1 .. MaxPages * PageEntries - 1
Handles == {i \in Indexes : i % PageEntries # 0}
Page(p) == {h \in Handles : h \div PageEntries = p}
First(p) == p * PageEntries + 1
Last(p)  == p * PageEntries + PageEntries - 1

(* GrantedAccess of an entry in use, read as a free list link.             *)
Access == -1

Free       == [object |-> Null, locked |-> FALSE]
Idx(h)     == h % TableLocks

(* The pcs in which a thread owns HandleTableLock[0] exclusively.          *)
ExclusivePCs == {"move", "drain", "moveWhole", "reverse", "expand",
                 "movePush", "growPush"}
Locked(i) == \/ shared[i] # {}
             \/ i = 0 /\ \E t \in Threads : pc[t] \in ExclusivePCs

NoBlock  == [live |-> FALSE, next |-> Null, spinning |-> FALSE, event |-> FALSE]

(* h: Handle; old: the free list head last read; cur: the entry value last *)
(* read; new: NewValue of a pop, or the head of the list a push links in;  *)
(* idx: the lock being drained; strict: the captured StrictFIFO; list:     *)
(* which list a push goes to; walk, target: the wait blocks being woken;   *)
(* ret: where ExUnblockPushLock or ExpInterlockedExchange returns to.      *)
NoLocals == [h |-> 0, old |-> 0, new |-> 0, idx |-> 0, strict |-> FALSE,
             cur |-> Free, list |-> "first", walk |-> Null, target |-> Null,
             ret |-> "idle"]

(* The free list of a new page: each entry links to the next, the last     *)
(* ends the list.                                                          *)
PageLinks(p) == [h \in Page(p) |-> IF h = Last(p) THEN 0 ELSE h + 1]

(* ExCreateHandleTable: one page, all of it free.                          *)
Init == /\ firstFree = 1
        /\ lastFree = 0
        /\ next = [h \in Handles |-> IF h \in Page(0) THEN PageLinks(0)[h] ELSE 0]
        /\ value = [h \in Handles |-> Free]
        /\ pages = 1
        /\ count = 0
        /\ strictFIFO = FALSE
        /\ shared = [i \in 0 .. TableLocks - 1 |-> {}]
        /\ chain = Null
        /\ block = [t \in Threads |-> NoBlock]
        /\ pc = [t \in Threads |-> "idle"]
        /\ my = [t \in Threads |-> NoLocals]

listVars  == <<firstFree, lastFree, next, pages>>
tableVars == <<firstFree, lastFree, next, pages, value, count, strictFIFO, shared>>
waitVars  == <<chain, block>>

Goto(t, l)  == pc' = [pc EXCEPT ![t] = l]
Return(t)   == Goto(t, "idle") /\ my' = [my EXCEPT ![t] = NoLocals]
Shares(t, i)   == shared' = [shared EXCEPT ![i] = @ \cup {t}]
Unshares(t, i) == shared' = [shared EXCEPT ![i] = @ \ {t}]

-----------------------------------------------------------------------------
(* ExpAllocateHandleTableEntry.                                            *)

(* The read of FirstFree at the top of the loop, and the one after an      *)
(* expansion.                                                              *)
AllocRead(t) ==
    /\ pc[t] \in {"idle", "alloc"}
    /\ Goto(t, IF firstFree = 0 THEN "lockTable" ELSE "popLock")
    /\ my' = [my EXCEPT ![t] = [NoLocals EXCEPT !.h = firstFree]]
    /\ UNCHANGED <<tableVars, waitVars>>

(* ExpLockHandleTableExclusive, and the look at the free list under the    *)
(* lock: some other thread may have filled it meanwhile.                   *)
LockTable(t) ==
    /\ pc[t] = "lockTable"
    /\ ~Locked(0)
    /\ Goto(t, IF firstFree # 0 THEN "popLock" ELSE "move")
    /\ my' = [my EXCEPT ![t].h = firstFree]
    /\ UNCHANGED <<tableVars, waitVars>>

(* ExpMoveFreeHandles: take the whole alternate list.                      *)
MoveTake(t) ==
    /\ pc[t] = "move"
    /\ lastFree' = 0
    /\ my' = [my EXCEPT ![t].h = lastFree, ![t].idx = 1]
    /\ Goto(t, IF lastFree = 0 THEN "expand" ELSE "drain")
    /\ UNCHANGED <<firstFree, next, pages, value, count, strictFIFO, shared, waitVars>>

(* Mutant: the other locks are not passed through.                         *)
MoveUndrained(t) ==
    /\ pc[t] = "drain"
    /\ my' = [my EXCEPT ![t].idx = 0, ![t].strict = strictFIFO]
    /\ Goto(t, IF strictFIFO THEN "reverse" ELSE "moveWhole")
    /\ UNCHANGED <<tableVars, waitVars>>

(* ExAcquireReleasePushLockExclusive of each other lock, so that no thread *)
(* is still popping one of the taken entries; then StrictFIFO is captured. *)
MoveDrain(t) ==
    /\ pc[t] = "drain"
    /\ ~Locked(my[t].idx)
    /\ IF my[t].idx < TableLocks - 1
       THEN my' = [my EXCEPT ![t].idx = @ + 1] /\ UNCHANGED pc
       ELSE /\ my' = [my EXCEPT ![t].idx = 0, ![t].strict = strictFIFO]
            /\ Goto(t, IF strictFIFO THEN "reverse" ELSE "moveWhole")
    /\ UNCHANGED <<tableVars, waitVars>>

(* An empty free list takes the chain as it is; the table is unlocked.     *)
MoveWhole(t) ==
    /\ pc[t] = "moveWhole"
    /\ \/ /\ firstFree = 0
          /\ firstFree' = my[t].h
          /\ my' = [my EXCEPT ![t] = [NoLocals EXCEPT !.h = my[t].h]]
          /\ Goto(t, "popLock")
       \/ /\ firstFree # 0
          /\ Goto(t, "reverse")
          /\ UNCHANGED <<firstFree, my>>
    /\ UNCHANGED <<lastFree, next, pages, value, count, strictFIFO, shared, waitVars>>

(* The list that starts at h, as a function from positions.                *)
ListFrom(h) ==
    LET N    == Cardinality(Handles)
        at[k \in 1 .. N] == IF k = 1 THEN h
                            ELSE IF at[k - 1] \in Handles THEN next[at[k - 1]] ELSE 0
    IN  [k \in {j \in 1 .. N : at[j] # 0} |-> at[k]]

(* The loop that turns the taken chain round: every entry links to the one *)
(* before it.  A strict FIFO table that got too few handles also expands.  *)
MoveReverse(t) ==
    LET list == ListFrom(my[t].h)
        size == Cardinality(DOMAIN list)
    IN  /\ pc[t] = "reverse"
        /\ next' = [h \in Handles |->
                       IF \E k \in 2 .. size : list[k] = h
                       THEN list[(CHOOSE k \in 2 .. size : list[k] = h) - 1]
                       ELSE next[h]]
        /\ my' = [my EXCEPT ![t].new = list[size],
                            ![t].ret = IF my[t].strict /\ size < FreePool
                                       THEN "expand" ELSE "popLock"]
        /\ Goto(t, "movePush")
        /\ UNCHANGED <<firstFree, lastFree, pages, value, count, strictFIFO, shared, waitVars>>

(* ExpInterlockedExchange pushes the chain on the free list: the loop      *)
(* reads the head, links the last entry to it and compare-exchanges.  An   *)
(* attempt that fails leaves nothing but a link in an entry that no other  *)
(* thread has; here, and for a new page, the step is the attempt that      *)
(* succeeds.  (FreeRead and FreeCAS have the loop in full.)                *)
MovePush(t) ==
    /\ pc[t] = "movePush"
    /\ next' = [next EXCEPT ![my[t].h] = firstFree]
    /\ firstFree' = my[t].new
    /\ Goto(t, my[t].ret)
    /\ my' = [my EXCEPT ![t] = [NoLocals EXCEPT !.h = my[t].h]]
    /\ UNCHANGED <<lastFree, pages, value, count, strictFIFO, shared, waitVars>>

(* ExpAllocateHandleTableEntrySlow: a new page, unless memory, quota or    *)
(* the limit on handles forbids it.  The unlock of the table and the read  *)
(* of FirstFree follow a failure.                                          *)
Expand(t) ==
    /\ pc[t] = "expand"
    /\ pages < MaxPages
    /\ next' = [h \in Handles |-> IF h \in Page(pages) THEN PageLinks(pages)[h] ELSE next[h]]
    /\ value' = [h \in Handles |-> IF h \in Page(pages) THEN Free ELSE value[h]]
    /\ pages' = pages + 1
    /\ my' = [my EXCEPT ![t] = [NoLocals EXCEPT !.h = Last(pages), !.new = First(pages)]]
    /\ Goto(t, "growPush")
    /\ UNCHANGED <<firstFree, lastFree, count, strictFIFO, shared, waitVars>>

ExpandFails(t) ==
    /\ pc[t] = "expand"
    /\ Goto(t, "failRead")
    /\ my' = [my EXCEPT ![t] = NoLocals]
    /\ UNCHANGED <<tableVars, waitVars>>

(* The new page's entries are pushed; then the table is unlocked and the   *)
(* free list is read again.                                                *)
GrowPush(t) ==
    /\ pc[t] = "growPush"
    /\ next' = [next EXCEPT ![my[t].h] = firstFree]
    /\ firstFree' = my[t].new
    /\ Goto(t, "alloc")
    /\ my' = [my EXCEPT ![t] = NoLocals]
    /\ UNCHANGED <<lastFree, pages, value, count, strictFIFO, shared, waitVars>>

(* The call fails unless somebody has freed a handle in the gap.           *)
FailRead(t) ==
    /\ pc[t] = "failRead"
    /\ \/ firstFree = 0 /\ Return(t)
       \/ /\ firstFree # 0
          /\ Goto(t, "popLock")
          /\ my' = [my EXCEPT ![t] = [NoLocals EXCEPT !.h = firstFree]]
    /\ UNCHANGED <<tableVars, waitVars>>

(* The pop.  The shared lock of the entry's bucket tells threads that free *)
(* the entry to keep it off this list until the pop is over; the head is   *)
(* compared again under the lock.                                          *)
PopLock(t) ==
    /\ pc[t] = "popLock"
    /\ Idx(my[t].h) = 0 => \A u \in Threads : pc[u] \notin ExclusivePCs
    /\ \/ /\ my[t].h = firstFree
          /\ Shares(t, Idx(my[t].h))
          /\ Goto(t, "popNext")
          /\ UNCHANGED my
       \/ /\ my[t].h # firstFree
          /\ Goto(t, "alloc")
          /\ my' = [my EXCEPT ![t] = NoLocals]
          /\ UNCHANGED shared
    /\ UNCHANGED <<listVars, value, count, strictFIFO, waitVars>>

PopNext(t) ==
    /\ pc[t] = "popNext"
    /\ my' = [my EXCEPT ![t].new = next[my[t].h]]
    /\ Goto(t, "popCAS")
    /\ UNCHANGED <<tableVars, waitVars>>

PopCAS(t) ==
    /\ pc[t] = "popCAS"
    /\ Unshares(t, Idx(my[t].h))
    /\ \/ /\ firstFree = my[t].h
          /\ firstFree' = my[t].new
          /\ Goto(t, "fill")
          /\ my' = [my EXCEPT ![t] = [NoLocals EXCEPT !.h = my[t].h]]
       \/ /\ firstFree # my[t].h
          /\ Goto(t, "alloc")
          /\ my' = [my EXCEPT ![t] = NoLocals]
          /\ UNCHANGED firstFree
    /\ UNCHANGED <<lastFree, next, pages, value, count, strictFIFO, waitVars>>

(* ExCreateHandle copies its template, a locked entry, into the popped one *)
(* and unlocks it.                                                         *)
Fill(t, o) ==
    /\ pc[t] = "fill"
    /\ count' = count + 1
    /\ value' = [value EXCEPT ![my[t].h] = [object |-> o, locked |-> TRUE]]
    /\ next' = [next EXCEPT ![my[t].h] = Access]
    /\ Goto(t, "filled")
    /\ UNCHANGED <<firstFree, lastFree, pages, strictFIFO, shared, waitVars, my>>

-----------------------------------------------------------------------------
(* ExpLockHandleTableEntry, called for whatever handle value the caller of *)
(* ExMapHandleToPointer, ExDestroyHandle or ExChangeHandle names.          *)
LockRead(t, h) ==
    /\ \/ pc[t] = "idle" /\ h \div PageEntries < pages
       \/ pc[t] = "lockRead" /\ h = my[t].h
    /\ LET v == value[h] IN
       \/ /\ v = Free
          /\ Return(t)
       \/ /\ v # Free
          /\ my' = [my EXCEPT ![t] = [NoLocals EXCEPT !.h = h, !.cur = v]]
          /\ Goto(t, IF v.locked THEN "block" ELSE "lockCAS")
    /\ UNCHANGED <<tableVars, waitVars>>

(* Mutant: a store instead of the compare-exchange.                        *)
LockStore(t) ==
    /\ pc[t] = "lockCAS"
    /\ my' = [my EXCEPT ![t].cur = Free]
    /\ value' = [value EXCEPT ![my[t].h].locked = TRUE]
    /\ Goto(t, "held")
    /\ UNCHANGED <<listVars, count, strictFIFO, shared, waitVars>>

LockCAS(t) ==
    /\ pc[t] = "lockCAS"
    /\ my' = [my EXCEPT ![t].cur = Free]
    /\ \/ /\ value[my[t].h] = my[t].cur
          /\ value' = [value EXCEPT ![my[t].h].locked = TRUE]
          /\ Goto(t, "held")
       \/ /\ value[my[t].h] # my[t].cur
          /\ Goto(t, "block")
          /\ UNCHANGED value
    /\ UNCHANGED <<listVars, count, strictFIFO, shared, waitVars>>

(* ExpBlockOnLockedHandleEntry: ExBlockPushLock queues the wait block, and *)
(* then the entry is looked at again.                                      *)
BlockPush(t) ==
    /\ pc[t] = "block"
    /\ block' = [block EXCEPT ![t] = [live |-> TRUE, next |-> chain,
                                      spinning |-> TRUE, event |-> FALSE]]
    /\ chain' = t
    /\ my' = [my EXCEPT ![t].cur = Free]
    /\ Goto(t, "blockCheck")
    /\ UNCHANGED tableVars

(* Mutant: the entry is not looked at again once the block is queued.      *)
BlockUnchecked(t) ==
    /\ pc[t] = "blockCheck"
    /\ Goto(t, "wait")
    /\ UNCHANGED <<tableVars, waitVars, my>>

BlockCheck(t) ==
    /\ pc[t] = "blockCheck"
    /\ \/ /\ ~value[my[t].h].locked
          /\ my' = [my EXCEPT ![t].ret = "selfCheck"]
          /\ Goto(t, "unblock")
       \/ /\ value[my[t].h].locked
          /\ Goto(t, "wait")
          /\ UNCHANGED my
    /\ UNCHANGED <<tableVars, waitVars>>

(* The frame with the wait block is left and the entry is tried again.     *)
LeaveFrame(t) ==
    /\ block' = [block EXCEPT ![t] = NoBlock]
    /\ my' = [my EXCEPT ![t] = [NoLocals EXCEPT !.h = my[t].h]]
    /\ Goto(t, "lockRead")

(* ExTimedWaitForUnblockPushLock without a time: initialise the event,     *)
(* then stop spinning, unless the block was already unblocked.             *)
Wait(t) ==
    /\ pc[t] = "wait"
    /\ \/ /\ block[t].spinning
          /\ block' = [block EXCEPT ![t].spinning = FALSE, ![t].event = FALSE]
          /\ Goto(t, "sleep")
          /\ UNCHANGED my
       \/ /\ ~block[t].spinning
          /\ LeaveFrame(t)
    /\ UNCHANGED <<tableVars, chain>>

Sleep(t) ==
    /\ pc[t] = "sleep"
    /\ block[t].event
    /\ LeaveFrame(t)
    /\ UNCHANGED <<tableVars, chain>>

(* ExfUnblockPushLock takes the whole chain and wakes every block on it;   *)
(* ExUnblockPushLock without a block of its own does nothing if there is   *)
(* none.                                                                   *)
Unblock(t) ==
    /\ pc[t] = "unblock"
    /\ chain' = Null
    /\ my' = [my EXCEPT ![t].walk = chain]
    /\ Goto(t, IF chain = Null THEN my[t].ret ELSE "wake")
    /\ UNCHANGED <<tableVars, block>>

(* The link is read before the flag is cleared, after which the block may  *)
(* be gone; only a block that no longer spins has its event set.           *)
Wake(t) ==
    LET b == my[t].walk IN
    /\ pc[t] = "wake"
    /\ \/ /\ b # Null
          /\ \/ /\ block[b].spinning
                /\ block' = [block EXCEPT ![b].spinning = FALSE]
                /\ my' = [my EXCEPT ![t].walk = block[b].next]
                /\ UNCHANGED pc
             \/ /\ ~block[b].spinning
                /\ my' = [my EXCEPT ![t].walk = block[b].next, ![t].target = b]
                /\ Goto(t, "wakeEvent")
                /\ UNCHANGED block
       \/ /\ b = Null
          /\ Goto(t, my[t].ret)
          /\ UNCHANGED <<block, my>>
    /\ UNCHANGED <<tableVars, chain>>

WakeEvent(t) ==
    /\ pc[t] = "wakeEvent"
    /\ block' = [block EXCEPT ![my[t].target].event = TRUE]
    /\ my' = [my EXCEPT ![t].target = Null]
    /\ Goto(t, "wake")
    /\ UNCHANGED <<tableVars, chain>>

(* Mutant: a thread that unblocked does not see whether its own block was  *)
(* on the chain it took.                                                   *)
SelfLeave(t) ==
    /\ pc[t] = "selfCheck"
    /\ LeaveFrame(t)
    /\ UNCHANGED <<tableVars, chain>>

(* A thread that unblocked its own block waits if another thread has it.   *)
SelfCheck(t) ==
    /\ pc[t] = "selfCheck"
    /\ \/ /\ block[t].spinning
          /\ Goto(t, "wait")
          /\ UNCHANGED <<block, my>>
       \/ /\ ~block[t].spinning
          /\ LeaveFrame(t)
    /\ UNCHANGED <<tableVars, chain>>

(* ExUnlockHandleTableEntry, by the thread that locked the entry or by     *)
(* ExCreateHandle.                                                         *)
UnlockEntry(t) ==
    /\ pc[t] \in {"held", "filled"}
    /\ value' = [value EXCEPT ![my[t].h].locked = FALSE]
    /\ my' = [my EXCEPT ![t] = NoLocals]
    /\ Goto(t, "unblock")
    /\ UNCHANGED <<listVars, count, strictFIFO, shared, waitVars>>

(* ExDestroyHandle of a locked entry: the entry becomes free, which also   *)
(* unlocks it, and its waiters are unblocked.                              *)
DestroyHandle(t) ==
    /\ pc[t] = "held"
    /\ value' = [value EXCEPT ![my[t].h] = Free]
    /\ my' = [my EXCEPT ![t].ret = "free"]
    /\ Goto(t, "unblock")
    /\ UNCHANGED <<listVars, count, strictFIFO, shared, waitVars>>

(* Mutant: a freed entry goes straight to the free list, whoever pops.     *)
FreeToFirst(t) ==
    /\ pc[t] = "free"
    /\ count' = count - 1
    /\ my' = [my EXCEPT ![t].ret = "idle",
                        ![t].list = IF strictFIFO THEN "last" ELSE "first"]
    /\ Goto(t, "freeRead")
    /\ UNCHANGED <<listVars, value, strictFIFO, shared, waitVars>>

(* ExpFreeHandleTableEntry: on the free list if no one is popping from the *)
(* entry's bucket (ExTryAcquireReleasePushLockExclusive), else, or if the  *)
(* table is strict FIFO, on the alternate list.                            *)
FreeEntry(t) ==
    /\ pc[t] = "free"
    /\ count' = count - 1
    /\ my' = [my EXCEPT ![t].ret = "idle",
                        ![t].list = IF strictFIFO \/ Locked(Idx(my[t].h))
                                    THEN "last" ELSE "first"]
    /\ Goto(t, "freeRead")
    /\ UNCHANGED <<listVars, value, strictFIFO, shared, waitVars>>

FreeRead(t) ==
    LET head == IF my[t].list = "first" THEN firstFree ELSE lastFree IN
    /\ pc[t] = "freeRead"
    /\ next' = [next EXCEPT ![my[t].h] = head]
    /\ my' = [my EXCEPT ![t].old = head]
    /\ Goto(t, "freeCAS")
    /\ UNCHANGED <<firstFree, lastFree, pages, value, count, strictFIFO, shared, waitVars>>

FreeCAS(t) ==
    LET head == IF my[t].list = "first" THEN firstFree ELSE lastFree IN
    /\ pc[t] = "freeCAS"
    /\ \/ /\ head = my[t].old
          /\ IF my[t].list = "first"
             THEN firstFree' = my[t].h /\ UNCHANGED lastFree
             ELSE lastFree' = my[t].h /\ UNCHANGED firstFree
          /\ Return(t)
       \/ /\ head # my[t].old
          /\ Goto(t, "freeRead")
          /\ UNCHANGED <<firstFree, lastFree, my>>
    /\ UNCHANGED <<next, pages, value, count, strictFIFO, shared, waitVars>>

(* ExSetHandleTableStrictFIFO, ExEnableHandleTracing.                      *)
SetStrictFIFO ==
    /\ ~strictFIFO
    /\ strictFIFO' = TRUE
    /\ UNCHANGED <<listVars, value, count, shared, waitVars, pc, my>>

-----------------------------------------------------------------------------
Alloc(t) ==
    \/ AllocRead(t) \/ LockTable(t) \/ MoveTake(t) \/ MoveDrain(t)
    \/ MoveWhole(t) \/ MoveReverse(t) \/ MovePush(t) \/ Expand(t)
    \/ ExpandFails(t) \/ GrowPush(t) \/ FailRead(t) \/ PopLock(t)
    \/ PopNext(t) \/ PopCAS(t) \/ \E o \in Objects : Fill(t, o)

LockUnlock(t) ==
    \/ \E h \in Handles : LockRead(t, h)
    \/ LockCAS(t) \/ BlockPush(t) \/ BlockCheck(t) \/ Wait(t) \/ Sleep(t)
    \/ Unblock(t) \/ Wake(t) \/ WakeEvent(t) \/ SelfCheck(t) \/ UnlockEntry(t)

Destroy(t) == DestroyHandle(t) \/ FreeEntry(t) \/ FreeRead(t) \/ FreeCAS(t)

Next == \/ \E t \in Threads : Alloc(t) \/ LockUnlock(t) \/ Destroy(t)
        \/ SetStrictFIFO

Spec == Init /\ [][Next]_vars

-----------------------------------------------------------------------------
PCs == ExclusivePCs \cup
       {"idle", "alloc", "lockTable", "failRead", "popLock", "popNext",
        "popCAS", "fill", "filled", "lockRead", "lockCAS", "block", "blockCheck",
        "wait", "sleep", "unblock", "wake", "wakeEvent", "selfCheck",
        "held", "free", "freeRead", "freeCAS"}

Links  == Handles \cup {0}
Values == [object : Objects \cup {Null}, locked : BOOLEAN]
Blocks == Threads \cup {Null}

TypeOK ==
    /\ firstFree \in Links /\ lastFree \in Links
    /\ next \in [Handles -> Links \cup {Access}]
    /\ value \in [Handles -> Values]
    /\ pages \in 1 .. MaxPages
    /\ count \in 0 .. Cardinality(Handles)
    /\ strictFIFO \in BOOLEAN
    /\ shared \in [0 .. TableLocks - 1 -> SUBSET Threads]
    /\ chain \in Blocks
    /\ block \in [Threads -> [live : BOOLEAN, next : Blocks, spinning : BOOLEAN,
                              event : BOOLEAN]]
    /\ pc \in [Threads -> PCs]
    /\ my \in [Threads -> [h : Links, old : Links, new : Links \cup {Access},
                           idx : 0 .. TableLocks - 1, strict : BOOLEAN,
                           cur : Values, list : {"first", "last"}, walk : Blocks,
                           target : Blocks,
                           ret : {"idle", "expand", "popLock", "selfCheck", "free"}]]

(* The entries on the way from one list to another, or to its user, in the *)
(* hands of thread t.                                                      *)
Carries(t) ==
    CASE pc[t] \in {"drain", "moveWhole", "reverse"} -> Range(ListFrom(my[t].h))
      [] pc[t] = "movePush" ->
             LET l == ListFrom(my[t].new)
             IN  {l[k] : k \in {k \in DOMAIN l : \A j \in 1 .. k - 1 : l[j] # my[t].h}}
      [] pc[t] = "growPush" -> Page(pages - 1)
      [] pc[t] \in {"fill", "free", "freeRead", "freeCAS"} \/ my[t].ret = "free" -> {my[t].h}
      [] OTHER -> {}

EndsWell(head) ==
    LET l == ListFrom(head) IN
    \A k \in DOMAIN l : l[k] \in Handles /\ (k + 1 \notin DOMAIN l => next[l[k]] = 0)

(* A locked entry has exactly one owner, and an owner's entry is locked:   *)
(* the ASSERTs of ExUnlockHandleTableEntry and ExDestroyHandle.            *)
LockOwned ==
    \A h \in Handles :
        Cardinality({t \in Threads : pc[t] \in {"held", "filled"} /\ my[t].h = h})
            = IF value[h].locked THEN 1 ELSE 0

(* Every entry of the table is in exactly one place: on the free list, on  *)
(* the alternate list, in use, or with one thread.  No interleaving of     *)
(* pops, frees, moves and expansions loses a handle or gives it out twice  *)
(* (the A-B-A problem of ExpAllocateHandleTableEntry), and both lists end. *)
(* A locked entry has one owner.                                           *)
OnePlace ==
    LET first == Range(ListFrom(firstFree))
        last  == Range(ListFrom(lastFree))
        hands == [t \in Threads |-> Carries(t)]
        on(b) == IF b THEN 1 ELSE 0
    IN  /\ EndsWell(firstFree) /\ EndsWell(lastFree) /\ LockOwned
        /\ \A h \in {h \in Handles : h \div PageEntries < pages} :
              Cardinality({t \in Threads : h \in hands[t]}) + on(h \in first)
                  + on(h \in last) + on(value[h] # Free) = 1

(* The wait blocks reached from a block along the links.                   *)
Reach(b) ==
    LET N == Cardinality(Threads)
        r[k \in 0 .. N] == IF k = 0 THEN {b} \ {Null}
                           ELSE r[k - 1] \cup ({block[u].next : u \in r[k - 1]} \ {Null})
    IN  r[N]

(* Wait blocks are on the stacks of the waiters.  Each block that the      *)
(* contention event or an unblocking thread can reach is in a frame that   *)
(* still exists, and only one of them reaches it.                          *)
BlocksLive ==
    \A u \in Threads :
        LET holders == {t \in Threads : u \in Reach(my[t].walk)}
            setters == {t \in Threads : my[t].target = u}
            n == Cardinality(holders) + Cardinality(setters)
                     + (IF u \in Reach(chain) THEN 1 ELSE 0)
        IN  n <= 1 /\ (n = 1 => block[u].live)

(* No wake-up is lost: a thread asleep without its event set has its block *)
(* with a thread that is unblocking, or on the contention event while its  *)
(* entry is still locked or some thread has yet to unblock.                *)
SleeperRemembered ==
    \A u \in Threads :
        pc[u] = "sleep" /\ ~block[u].event =>
            \/ \E t \in Threads : u \in Reach(my[t].walk) \/ my[t].target = u
            \/ /\ u \in Reach(chain)
               /\ \/ value[my[u].h].locked
                  \/ \E t \in Threads : pc[t] = "unblock"

(* A waiter's block is there for as long as it can be reached, and the     *)
(* waiter is woken.                                                        *)
WaitersKept == BlocksLive /\ SleeperRemembered
=============================================================================
