-------------------------------- MODULE Hive --------------------------------
(***************************************************************************)
(* Writing a registry hive and its log, and loading it after a crash       *)
(* (ntoskrnl/config/hivesync.c, hiveload.c and hiveinit.c).                *)
(*                                                                         *)
(* A hive lives in memory; HvSyncHive writes its dirty sectors first to    *)
(* the log, then to the primary file, each time bracketed by two writes of *)
(* a header whose sequence numbers differ in between.  HvLoadHive looks at *)
(* the headers and applies the log if the primary was being written.       *)
(*                                                                         *)
(* Only the equality of the two sequence numbers is ever looked at, so a   *)
(* header says whether they are equal ("done").  The unit is a dirty unit  *)
(* of HvMarkDirty (a page).  Writers are locked out during a sync.  The    *)
(* hive grows and does not shrink; self healing is off.                    *)
(***************************************************************************)
EXTENDS Integers, FiniteSets

CONSTANTS Values,      \* contents of a sector
          Torn,        \* contents of a sector after an interrupted write
          MaxLength,   \* bound: sectors of the hive
          MaxTime,     \* bound: the clock stands still when it gets here
          FailPoints   \* the I/O operations that may fail

ASSUME ConstantsAssumption ==
    /\ MaxLength \in Nat \ {0}
    /\ MaxTime \in Nat
    /\ Torn \notin Values
    /\ Torn \notin [len : 1 .. MaxLength, stamp : 0 .. MaxTime, done : BOOLEAN]
    /\ Torn \notin [val : Values, stamp : 0 .. MaxTime]
    /\ \A v \in SUBSET (1 .. MaxLength) : Torn # v

VARIABLES
    disk,       \* disk[f]: what would survive a crash
    cache,      \* cache[f]: written and not flushed
    mem,        \* the bins
    len,        \* Storage[Stable].Length
    dirty,      \* DirtyVector
    open,       \* BaseBlock->Sequence1 # BaseBlock->Sequence2
    baseLen,    \* BaseBlock->Length
    timeStamp,  \* BaseBlock->TimeStamp
    binStamp,   \* TimeStamp of the first bin
    pc,
    op,         \* "sync", or "recover": HvInitializeHive after a recovery
    synced,     \* the image that was last synced, or loaded
    allowed,    \* images that a load may find: the last synced, those tried since
    tornFirst,  \* a crash has torn the header that announces a primary write
    corrupt     \* the last load failed

diskVars == <<disk, cache>>
memVars  == <<mem, len, dirty, open, baseLen, timeStamp, binStamp>>
history  == <<synced, allowed, tornFirst, corrupt>>
vars == <<diskVars, memVars, pc, op, history>>

-----------------------------------------------------------------------------
(* A file is a sequence of sectors.  The log has its header, the dirty     *)
(* vector, and the dirty sectors one after the other.                      *)
Header    == 0
Vector    == -1
Sectors   == 1 .. MaxLength
Addresses == {Header, Vector} \cup Sectors
Files     == {"primary", "log"}

Nothing == [a \in {} |-> Torn]
Overlay(w, c) == [a \in DOMAIN w \cup DOMAIN c |-> IF a \in DOMAIN w THEN w[a] ELSE c[a]]
Part(w, S) == [a \in S |-> w[a]]

BaseBlock(n, t, done) == [len |-> n, stamp |-> t, done |-> done]
Sector(v, t) == [val |-> v, stamp |-> t]
Val(s) == IF s = Torn THEN Torn ELSE s.val

Blank == [i \in Sectors |-> Torn]
Image(m, n) == [i \in 1 .. n |-> m[i]]

(* What is written for sector i; the first bin carries a time stamp.       *)
Contents(i, t) == Sector(mem[i], IF i = 1 THEN t ELSE 0)

(* HvpFindNextDirtyBlock finds the dirty sectors in ascending order.       *)
Place(v, i) == Cardinality({j \in v : j <= i})

Init == /\ \E v \in Values, n \in Sectors :
               /\ mem = [i \in Sectors |-> IF i <= n THEN v ELSE Torn]
               /\ len = n
               /\ baseLen = n
               /\ disk = [f \in Files |-> [a \in Addresses |->
                             IF f = "log" \/ a \notin {Header} \cup 1 .. n THEN Torn
                             ELSE IF a = Header THEN BaseBlock(n, 0, TRUE) ELSE Sector(v, 0)]]
        /\ cache = [f \in Files |-> Nothing]
        /\ dirty = {}
        /\ open = FALSE
        /\ timeStamp = 0
        /\ binStamp = 0
        /\ pc = "idle"
        /\ op = "sync"
        /\ synced = Image(mem, len)
        /\ allowed = {synced}
        /\ tornFirst = FALSE
        /\ corrupt = FALSE

-----------------------------------------------------------------------------
(* Changes in memory.                                                      *)

(* Mutant: the first sector is not forced dirty.                           *)
MarkDirtyAlone(i) == dirty' = dirty \cup {i}

(* HvMarkDirty: the first sector is dirty whenever another one is.         *)
MarkDirty(i) == dirty' = dirty \cup {i} \cup IF dirty = {} THEN {1} ELSE {}

Modify(i, v) ==
    /\ pc = "idle"
    /\ i <= len
    /\ mem' = [mem EXCEPT ![i] = v]
    /\ MarkDirty(i)
    /\ UNCHANGED <<diskVars, len, open, baseLen, timeStamp, binStamp, pc, op, history>>

(* Mutant: the length of the storage is not advanced.                      *)
AddBinShort(v) ==
    /\ pc = "idle"
    /\ len < MaxLength
    /\ mem' = [mem EXCEPT ![len + 1] = v]
    /\ MarkDirty(len + 1)
    /\ UNCHANGED <<diskVars, len, open, baseLen, timeStamp, binStamp, pc, op, history>>

(* HvpAddBin.                                                              *)
AddBin(v) ==
    /\ pc = "idle"
    /\ len < MaxLength
    /\ len' = len + 1
    /\ mem' = [mem EXCEPT ![len + 1] = v]
    /\ MarkDirty(len + 1)
    /\ UNCHANGED <<diskVars, open, baseLen, timeStamp, binStamp, pc, op, history>>

-----------------------------------------------------------------------------
(* I/O: an operation succeeds and the routine goes on, or it fails half    *)
(* way and the routine returns FALSE.                                      *)

GiveUp == pc' = IF op = "sync" THEN "idle" ELSE "down"

FileWrite(f, w, next) ==
    /\ \/ cache' = [cache EXCEPT ![f] = Overlay(w, @)] /\ pc' = next
       \/ /\ pc \in FailPoints
          /\ \E S \in SUBSET DOMAIN w : cache' = [cache EXCEPT ![f] = Overlay(Part(w, S), @)]
          /\ GiveUp
    /\ UNCHANGED disk

FileFlush(f, next) ==
    \/ /\ disk' = [disk EXCEPT ![f] = Overlay(cache[f], @)]
       /\ cache' = [cache EXCEPT ![f] = Nothing]
       /\ pc' = next
    \/ /\ pc \in FailPoints
       /\ \E S \in SUBSET DOMAIN cache[f] :
              disk' = [disk EXCEPT ![f] = Overlay(Part(cache[f], S), @)]
       /\ GiveUp
       /\ UNCHANGED cache

-----------------------------------------------------------------------------
(* HvSyncHive, of a hive with dirty data.                                  *)
SyncHive ==
    /\ pc = "idle"
    /\ dirty # {}
    /\ op' = "sync"
    /\ pc' = "logHeader"
    /\ UNCHANGED <<diskVars, memVars, history>>

StartLog(t) ==
    /\ t \in timeStamp .. MaxTime
    /\ open' = TRUE
    /\ timeStamp' = t
    /\ allowed' = allowed \cup {Image(mem, len)}
    /\ FileWrite("log", [a \in {Header} |-> BaseBlock(baseLen, t, FALSE)], "logFlush1")

(* Mutant: an attempt that failed is not noticed.                          *)
LogHeaderAlways(t) ==
    /\ pc = "logHeader"
    /\ StartLog(t)
    /\ UNCHANGED <<mem, len, dirty, baseLen, binStamp, op, synced, tornFirst, corrupt>>

(* HvpWriteLog: it gives up if an earlier attempt has failed, or else      *)
(* writes the first header.                                                *)
LogHeader(t) ==
    /\ pc = "logHeader"
    /\ IF open THEN GiveUp /\ UNCHANGED <<diskVars, open, timeStamp, allowed>> ELSE StartLog(t)
    /\ UNCHANGED <<mem, len, dirty, baseLen, binStamp, op, synced, tornFirst, corrupt>>

LogFlush1 ==
    /\ pc = "logFlush1"
    /\ FileFlush("log", "logVector")
    /\ UNCHANGED <<memVars, op, history>>

LogVector ==
    /\ pc = "logVector"
    /\ FileWrite("log", [a \in {Vector} |-> dirty], "logBody")
    /\ UNCHANGED <<memVars, op, history>>

LogBody ==
    /\ pc = "logBody"
    /\ FileWrite("log", [p \in {Place(dirty, i) : i \in dirty} |->
                            Contents(CHOOSE i \in dirty : Place(dirty, i) = p, binStamp)], "logFlush2")
    /\ UNCHANGED <<memVars, op, history>>

LogFlush2 ==
    /\ pc = "logFlush2"
    /\ FileFlush("log", "logHeader2")
    /\ UNCHANGED <<memVars, op, history>>

(* The header that reports completion has the new length of a hive that    *)
(* has grown.                                                              *)
LogHeader2 ==
    /\ pc = "logHeader2"
    /\ open' = FALSE
    /\ FileWrite("log", [a \in {Header} |->
           BaseBlock(IF baseLen < len THEN len ELSE baseLen, timeStamp, TRUE)], "logFlush3")
    /\ UNCHANGED <<mem, len, dirty, baseLen, timeStamp, binStamp, op, history>>

LogFlush3 ==
    /\ pc = "logFlush3"
    /\ FileFlush("log", "primaryFlush0")
    /\ UNCHANGED <<memVars, op, history>>

-----------------------------------------------------------------------------
(* HvpDoWriteHive; its first flush is for a file that has grown.           *)
PrimaryFlush0 ==
    /\ pc = "primaryFlush0"
    /\ FileFlush("primary", "primaryHeader")
    /\ UNCHANGED <<memVars, op, history>>

PrimaryHeader ==
    /\ pc = "primaryHeader"
    /\ IF open THEN /\ GiveUp
                    /\ UNCHANGED <<diskVars, open, baseLen>>
               ELSE /\ open' = TRUE
                    /\ baseLen' = len
                    /\ FileWrite("primary", [a \in {Header} |-> BaseBlock(len, timeStamp, FALSE)],
                                 "primaryFlush1")
    /\ UNCHANGED <<mem, len, dirty, timeStamp, binStamp, op, history>>

(* Mutant: the header is not flushed before the body is written.           *)
PrimaryFlush1Skipped ==
    /\ pc = "primaryFlush1"
    /\ pc' = "primaryBody"
    /\ UNCHANGED <<diskVars, memVars, op, history>>

PrimaryFlush1 ==
    /\ pc = "primaryFlush1"
    /\ FileFlush("primary", "primaryBody")
    /\ UNCHANGED <<memVars, op, history>>

(* Mutant: the first bin is not stamped.                                   *)
PrimaryBodyUnstamped ==
    /\ pc = "primaryBody"
    /\ FileWrite("primary", [i \in dirty |-> Contents(i, binStamp)], "primaryFlush2")
    /\ UNCHANGED <<memVars, op, history>>

(* The first bin is stamped with the time of the log.                      *)
PrimaryBody ==
    /\ pc = "primaryBody"
    /\ binStamp' = timeStamp
    /\ FileWrite("primary", [i \in dirty |-> Contents(i, timeStamp)], "primaryFlush2")
    /\ UNCHANGED <<mem, len, dirty, open, baseLen, timeStamp, op, history>>

PrimaryFlush2 ==
    /\ pc = "primaryFlush2"
    /\ FileFlush("primary", "primaryHeader2")
    /\ UNCHANGED <<memVars, op, history>>

PrimaryHeader2 ==
    /\ pc = "primaryHeader2"
    /\ open' = FALSE
    /\ FileWrite("primary", [a \in {Header} |-> BaseBlock(len, timeStamp, TRUE)], "primaryFlush3")
    /\ UNCHANGED <<mem, len, dirty, baseLen, timeStamp, binStamp, op, history>>

(* Mutant: the completed header is not flushed.                            *)
PrimaryFlush3Skipped ==
    /\ pc = "primaryFlush3"
    /\ pc' = "shrinkLog"
    /\ synced' = Image(mem, len)
    /\ allowed' = {synced'}
    /\ UNCHANGED <<diskVars, memVars, op, tornFirst, corrupt>>

PrimaryFlush3 ==
    /\ pc = "primaryFlush3"
    /\ FileFlush("primary", "shrinkLog")
    /\ IF pc' = "shrinkLog" THEN synced' = Image(mem, len) /\ allowed' = {synced'}
                            ELSE UNCHANGED <<synced, allowed>>
    /\ UNCHANGED <<memVars, op, tornFirst, corrupt>>

(* The log goes back to its minimal size, two clusters, or to nothing      *)
(* after a recovery; then the dirty map is cleared.                        *)
ShrinkLog ==
    /\ pc = "shrinkLog"
    /\ LET kept == IF op = "sync" THEN {Header, Vector} ELSE {}
       IN /\ disk' = [disk EXCEPT !["log"] = [a \in Addresses |-> IF a \in kept THEN @[a] ELSE Torn]]
          /\ cache' = [cache EXCEPT !["log"] = Part(@, DOMAIN @ \cap kept)]
    /\ dirty' = {}
    /\ pc' = "idle"
    /\ UNCHANGED <<mem, len, open, baseLen, timeStamp, binStamp, op, history>>

-----------------------------------------------------------------------------
OnFile(f) == Overlay(cache[f], disk[f])

(* The hive of the primary file, as far as its dirty sectors go.           *)
Reread(n) ==
    /\ mem' = [i \in Sectors |-> IF i > n THEN Torn
                                 ELSE IF i \in dirty THEN Val(OnFile("primary")[i]) ELSE mem[i]]
    /\ binStamp' = IF OnFile("primary")[1] = Torn THEN 0 ELSE OnFile("primary")[1].stamp
    /\ dirty' = {}

(* Mutant: what was added to the hive stays.                               *)
RefreshHiveLong ==
    /\ pc = "idle"
    /\ dirty # {}
    /\ LET h == OnFile("primary")[Header]
       IN /\ Reread(len)
          /\ baseLen' = len
          /\ timeStamp' = h.stamp
          /\ open' = ~h.done
          /\ allowed' = IF h.done THEN {synced} ELSE allowed
    /\ UNCHANGED <<diskVars, len, pc, op, synced, tornFirst, corrupt>>

(* HvRefreshHive, the abort of a transaction: base block and dirty sectors *)
(* are read from the primary file and what was added is freed.  A file     *)
(* that says it is complete has none of what was tried since.              *)
RefreshHive ==
    /\ pc = "idle"
    /\ dirty # {}
    /\ LET h == OnFile("primary")[Header]
       IN /\ Reread(h.len)
          /\ len' = h.len
          /\ baseLen' = h.len
          /\ timeStamp' = h.stamp
          /\ open' = ~h.done
          /\ allowed' = IF h.done THEN {synced} ELSE allowed
    /\ UNCHANGED <<diskVars, pc, op, synced, tornFirst, corrupt>>

-----------------------------------------------------------------------------
(* The machine stops.  Of what was not flushed, the sectors in S were      *)
(* being written, and those in T are torn.                                 *)
Settle(f, S, T) == [a \in Addresses |-> IF a \in T THEN Torn
                                        ELSE IF a \in S THEN cache[f][a] ELSE disk[f][a]]

Crash ==
    /\ pc # "down" \/ \E f \in Files : cache[f] # Nothing
    /\ \E S1 \in SUBSET DOMAIN cache["primary"], S2 \in SUBSET DOMAIN cache["log"] :
       \E T1 \in SUBSET S1, T2 \in SUBSET S2 :
           /\ disk' = [f \in Files |-> IF f = "primary" THEN Settle(f, S1, T1) ELSE Settle(f, S2, T2)]
           /\ tornFirst' = (tornFirst \/ (Header \in T1 /\ ~cache["primary"][Header].done))
    /\ cache' = [f \in Files |-> Nothing]
    /\ mem' = Blank
    /\ len' = 0
    /\ dirty' = {}
    /\ open' = FALSE
    /\ baseLen' = 0
    /\ timeStamp' = 0
    /\ binStamp' = 0
    /\ pc' = "down"
    /\ UNCHANGED <<op, synced, allowed, corrupt>>

(* HvpGetHiveHeader. *)
GetHiveHeader(p) ==
    IF p[Header] = Torn THEN IF p[1] = Torn THEN "NotHive" ELSE "RecoverHeader"
    ELSE IF p[Header].done THEN "HiveSuccess" ELSE "RecoverData"

(* HvpGetLogHeader: the log is complete and of time t.                     *)
LogHeaderValid(l, t) == l[Header] # Torn /\ l[Header].done /\ l[Header].stamp = t

(* Mutant: a sector is looked for at its place in the hive.                *)
RecoverDataInPlace(p, l, n) ==
    [i \in 1 .. n |-> IF i \in l[Vector] THEN l[i] ELSE p[i]]

(* HvpRecoverData: the sectors, with those of the log instead of the       *)
(* primary's; it does not look at the header of the log.                   *)
RecoverData(p, l, n) ==
    LET v == l[Vector] \cap 1 .. n
    IN [i \in 1 .. n |-> IF i \in v THEN l[Place(v, i)] ELSE p[i]]

(* The hive is in memory, with sectors b and the header h.                 *)
Loaded(b, h, d, next) ==
    /\ mem' = [i \in Sectors |-> IF i <= h.len THEN Val(b[i]) ELSE Torn]
    /\ len' = h.len
    /\ baseLen' = h.len
    /\ timeStamp' = h.stamp
    /\ binStamp' = IF b[1] = Torn THEN 0 ELSE b[1].stamp
    /\ dirty' = d
    /\ open' = FALSE
    /\ op' = "recover"
    /\ pc' = next
    /\ synced' = [i \in 1 .. h.len |-> Val(b[i])]
    /\ allowed' = {synced'}
    /\ corrupt' = FALSE

(* HvLoadHive, and what HvInitializeHive does with its status.             *)
LoadHive ==
    /\ pc = "down"
    /\ LET p == OnFile("primary")
           l == OnFile("log")
           r == GetHiveHeader(p)
           h == IF r = "RecoverHeader" THEN l[Header] ELSE p[Header]
           Recover(b) == Loaded(b, h, {1} \cup (l[Vector] \cap 1 .. h.len), "primaryFlush0")
           usable == CASE r = "NotHive" -> FALSE
                       [] r = "RecoverHeader" -> LogHeaderValid(l, p[1].stamp) /\ l[Vector] # Torn
                       [] r = "RecoverData" -> l[Vector] # Torn
                       [] r = "HiveSuccess" -> \A i \in 1 .. h.len : p[i] # Torn
       IN \/ /\ usable
             /\ IF r = "HiveSuccess" THEN Loaded(p, h, {}, "idle") ELSE Recover(RecoverData(p, l, h.len))
          \/ /\ ~usable
             /\ corrupt' = TRUE
             /\ UNCHANGED <<memVars, pc, op, synced, allowed>>
    /\ UNCHANGED <<diskVars, tornFirst>>

Next == \/ \E i \in Sectors, v \in Values : Modify(i, v)
        \/ \E v \in Values : AddBin(v)
        \/ SyncHive
        \/ \E t \in 0 .. MaxTime : LogHeader(t)
        \/ LogFlush1 \/ LogVector \/ LogBody \/ LogFlush2 \/ LogHeader2 \/ LogFlush3
        \/ PrimaryFlush0 \/ PrimaryHeader \/ PrimaryFlush1 \/ PrimaryBody \/ PrimaryFlush2
        \/ PrimaryHeader2 \/ PrimaryFlush3 \/ ShrinkLog
        \/ RefreshHive
        \/ Crash
        \/ LoadHive

Spec == Init /\ [][Next]_vars

-----------------------------------------------------------------------------
PCs == {"idle", "down", "logHeader", "logFlush1", "logVector", "logBody", "logFlush2",
        "logHeader2", "logFlush3", "primaryFlush0", "primaryHeader", "primaryFlush1",
        "primaryBody", "primaryFlush2", "primaryHeader2", "primaryFlush3", "shrinkLog"}
LogPCs == {"logFlush1", "logVector", "logBody", "logFlush2", "logHeader2", "logFlush3"}

(* The types of the state.                                                 *)
TypeOK ==
    /\ DOMAIN disk = Files /\ \A f \in Files : DOMAIN disk[f] = Addresses
    /\ DOMAIN cache = Files /\ \A f \in Files : DOMAIN cache[f] \subseteq Addresses
    /\ mem \in [Sectors -> Values \cup {Torn}]
    /\ len \in 0 .. MaxLength /\ baseLen \in 0 .. len
    /\ dirty \subseteq 1 .. len
    /\ open \in BOOLEAN
    /\ timeStamp \in 0 .. MaxTime /\ binStamp \in 0 .. MaxTime
    /\ pc \in PCs /\ op \in {"sync", "recover"}
    /\ tornFirst \in BOOLEAN /\ corrupt \in BOOLEAN

(* Whatever the crash and whatever failed before it, HvLoadHive returns    *)
(* the whole of the last image that HvSyncHive wrote successfully or of an *)
(* image of a later HvSyncHive: never a mixture of two of them.            *)
LoadsASync == [][pc = "down" /\ pc' # "down" => Image(mem', len') \in allowed]_vars

(* HvRefreshHive "backs out all changes ... since it was last flushed",     *)
(* added sectors and the header of a failed sync included, whenever the    *)
(* primary file says that it is complete.                                  *)
RefreshesASync ==
    [][pc = "idle" /\ pc' = "idle" /\ dirty # {} /\ dirty' = {} /\ ~open' => Image(mem', len') = synced]_vars

(* What a load or a refresh brings into memory was written by one sync.    *)
ReadsASync == LoadsASync /\ RefreshesASync

(* HvLoadHive can read the hive again after every crash but one: the one   *)
(* that tears the header with which HvpDoWriteHive announces its write.    *)
LoadSucceeds == corrupt => tornFirst

(* "this hive needs to be recovered, so punt": HvpWriteLog does not touch  *)
(* the log while the primary file on the disk needs it to be recovered.    *)
LogKept == pc \in LogPCs => disk["primary"][Header] # Torn /\ disk["primary"][Header].done

(* A hive without dirty data is on the disk, and its header says so,       *)
(* unless HvRefreshHive found the header of an interrupted write.          *)
CleanIsDurable ==
    pc = "idle" /\ dirty = {} /\ ~open =>
        /\ disk["primary"][Header] = BaseBlock(len, timeStamp, TRUE)
        /\ \A i \in 1 .. len : Val(disk["primary"][i]) = mem[i]
        /\ cache["primary"] = Nothing

(* A sector that differs from the one on the disk is marked dirty, and the *)
(* first sector with it, whose stamp is to match the log's; and a clean    *)
(* hive is on the disk.                                                    *)
DirtyTracked ==
    /\ CleanIsDurable
    /\ pc = "idle" =>
          /\ \A i \in 1 .. len : Val(OnFile("primary")[i]) # mem[i] => i \in dirty
          /\ dirty # {} => 1 \in dirty
=============================================================================
