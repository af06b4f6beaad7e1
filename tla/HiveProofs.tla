----------------------------- MODULE HiveProofs -----------------------------
(***************************************************************************)
(* Proofs about Hive, for hives of any length, any contents and any number *)
(* of failures and crashes: what a load or a refresh brings into memory    *)
(* was written by one sync, the log is kept while it is needed, and what   *)
(* differs from the disk is marked dirty.                                  *)
(***************************************************************************)
EXTENDS Hive, FiniteSetTheorems, TLAPS

(* The writes that report the completion of the primary file do not fail.  *)
(* If one does, HvSyncHive returns FALSE with a file that may be complete  *)
(* on the disk and a base block that says so, and LogKept is lost: that is *)
(* what the run with these two failure points shows.                       *)
Completes == FailPoints \cap {"primaryHeader2", "primaryFlush3"} = {}

DiskP  == disk["primary"]
CacheP == cache["primary"]
DiskL  == disk["log"]
CacheL == cache["log"]

(* What the primary file has at address a.                                 *)
Primary(a) == IF a \in DOMAIN CacheP THEN CacheP[a] ELSE DiskP[a]

Headers == [len : Sectors, stamp : 0 .. MaxTime, done : BOOLEAN]
SectorRecs == [val : Values, stamp : 0 .. MaxTime]
Holds(x, v) == x \in SectorRecs /\ x.val = v

(* What HvpDoWriteHive writes for sector i of image m at time s.           *)
Body(m, s, i) == Sector(m[i], IF i = 1 THEN s ELSE 0)

(* The primary file consists of sectors.                                   *)
Contained ==
    \A i \in Sectors : /\ DiskP[i] \in SectorRecs \cup {Torn}
                       /\ i \in DOMAIN CacheP => CacheP[i] \in SectorRecs

FileImage == [i \in 1 .. DiskP[Header].len |-> DiskP[i].val]

(* The primary file on the disk says that it is complete, and it is an     *)
(* image that a load may find.                                             *)
Finished ==
    /\ DiskP[Header] \in Headers /\ DiskP[Header].done
    /\ \A i \in 1 .. DiskP[Header].len : DiskP[i] \in SectorRecs
    /\ FileImage \in allowed

Complete == CacheP = Nothing /\ Finished
Current  == Complete /\ FileImage = synced

(* The log on the disk is complete: it has the sectors d of the image m,   *)
(* which has length n, from time s.                                        *)
GoodLog(n, s, d, m) ==
    /\ CacheL = Nothing
    /\ n \in Sectors /\ s \in 0 .. MaxTime
    /\ d \subseteq 1 .. n /\ 1 \in d
    /\ m \in [1 .. n -> Values] /\ m \in allowed
    /\ DiskL[Header] = BaseBlock(n, s, TRUE)
    /\ DiskL[Vector] = d
    /\ \A i \in d : Holds(DiskL[Place(d, i)], m[i])

Remain(n, d, m) == \A i \in (1 .. n) \ d : Holds(DiskP[i], m[i])

(* The primary file is about to be overwritten with these sectors, or was  *)
(* when an operation failed or the machine stopped: what is not in the log *)
(* is in place, and no sector is written before the header on the disk     *)
(* says so.                                                                *)
Writing(n, s, d, m) ==
    /\ Remain(n, d, m)
    /\ DOMAIN CacheP \subseteq {Header} \cup d
    /\ \A i \in d \cap DOMAIN CacheP : CacheP[i] = Body(m, s, i)
    /\ Header \in DOMAIN CacheP => CacheP[Header] = BaseBlock(n, s, FALSE)
    /\ \/ DiskP[Header] = BaseBlock(n, s, FALSE)
       \/ /\ DOMAIN CacheP \subseteq {Header}
          /\ \/ DiskP[Header] = Torn /\ (tornFirst \/ (DiskP[1] \in SectorRecs /\ DiskP[1].stamp = s))
             \/ Finished

(* The header on the disk does not say that the primary file is complete.  *)
Pending(n, s) == DiskP[Header] \in {Torn, BaseBlock(n, s, FALSE)}

(* The memory differs from a complete primary file in dirty sectors only.  *)
Mirrors ==
    /\ DiskP[Header].len <= len
    /\ \A i \in 1 .. len :
          /\ mem[i] \in Values
          /\ i \notin dirty => i <= DiskP[Header].len /\ DiskP[i].val = mem[i]

(* A sync has failed while it wrote the primary file.                      *)
Interrupted ==
    \E n \in 1 .. len, s \in 0 .. MaxTime, d \in SUBSET (1 .. len), m \in allowed :
        /\ GoodLog(n, s, d, m)
        /\ Writing(n, s, d, m)
        /\ Header \in DOMAIN CacheP \/ DiskP[Header] = BaseBlock(n, s, FALSE)

AtRest ==
    pc \in {"idle", "logHeader"} =>
        /\ dirty # {} => 1 \in dirty
        /\ pc = "logHeader" => dirty # {} /\ op = "sync"
        /\ \A i \in 1 .. len : i \notin dirty => Val(Primary(i)) = mem[i]
        /\ ~open => /\ Current /\ Mirrors
                    /\ dirty = {} => DiskP[Header] = BaseBlock(len, timeStamp, TRUE)
        /\ open => (Current /\ DiskP[Header].len <= len) \/ Interrupted

(* HvpWriteLog at work: the primary file is complete.                      *)
InLog ==
    pc \in LogPCs =>
        /\ Current /\ Mirrors
        /\ 1 \in dirty /\ op = "sync"
        /\ Image(mem, len) \in allowed
        /\ open <=> pc # "logFlush3"
        /\ pc \in {"logBody", "logFlush2"} => Vector \in DOMAIN CacheL /\ CacheL[Vector] = dirty
        /\ pc = "logFlush2" =>
              \A i \in dirty : /\ Place(dirty, i) \in DOMAIN CacheL
                               /\ CacheL[Place(dirty, i)] = Contents(i, binStamp)
        /\ pc \in {"logHeader2", "logFlush3"} =>
              /\ DiskL[Vector] = dirty
              /\ \A i \in dirty : Holds(DiskL[Place(dirty, i)], mem[i])
        /\ pc = "logHeader2" => CacheL = Nothing
        /\ pc = "logFlush3" => CacheL = [a \in {Header} |-> BaseBlock(len, timeStamp, TRUE)]

PrimaryPCs == {"primaryFlush0", "primaryHeader", "primaryFlush1", "primaryBody", "primaryFlush2",
               "primaryHeader2", "primaryFlush3"}

(* HvpDoWriteHive at work: the log has what it writes.                     *)
AtPrimary(n, s, d, m) ==
    /\ GoodLog(n, s, d, m)
    /\ open <=> pc \notin {"primaryFlush0", "primaryHeader", "primaryFlush3"}
    /\ pc # "primaryFlush3" => Writing(n, s, d, m)
    /\ pc \in {"primaryFlush0", "primaryHeader", "primaryFlush1"} =>
          /\ op = "recover" => Pending(n, s)
          /\ op = "sync" => DiskP[Header] \in Headers /\ DiskP[Header].len <= n
    /\ pc \in {"primaryFlush0", "primaryHeader"} /\ op = "sync" => Current /\ Mirrors
    /\ pc \in {"primaryHeader", "primaryBody", "primaryHeader2"} => CacheP = Nothing
    /\ pc = "primaryFlush1" => CacheP = [a \in {Header} |-> BaseBlock(n, s, FALSE)]
    /\ pc = "primaryFlush2" => CacheP = [i \in d |-> Body(m, s, i)]
    /\ pc \in {"primaryBody", "primaryFlush2", "primaryHeader2", "primaryFlush3"} =>
          DiskP[Header] = BaseBlock(n, s, FALSE)
    /\ pc \in {"primaryHeader2", "primaryFlush3"} => \A i \in d : DiskP[i] = Body(m, s, i)
    /\ pc = "primaryFlush3" => /\ Remain(n, d, m)
                               /\ CacheP = [a \in {Header} |-> BaseBlock(n, s, TRUE)]

InPrimary == pc \in PrimaryPCs => AtPrimary(len, timeStamp, dirty, Image(mem, len))

Shrinking ==
    pc = "shrinkLog" =>
        /\ Current /\ ~open
        /\ DiskP[Header] = BaseBlock(len, timeStamp, TRUE)
        /\ \A i \in 1 .. len : DiskP[i].val = mem[i]

(* The machine has stopped, or a recovery has failed: there is a complete  *)
(* primary file or a log to recover it from.                               *)
Recoverable ==
    \E n \in Sectors, s \in 0 .. MaxTime, d \in SUBSET Sectors, m \in allowed :
        GoodLog(n, s, d, m) /\ Writing(n, s, d, m) /\ Pending(n, s)

FilesOK == /\ DOMAIN disk = Files /\ \A f \in Files : DOMAIN disk[f] = Addresses
           /\ DOMAIN cache = Files /\ \A f \in Files : DOMAIN cache[f] \subseteq Addresses

Down == pc = "down" => Complete \/ Recoverable

IInv == /\ TypeOK /\ Contained /\ LoadSucceeds
        /\ AtRest /\ InLog /\ InPrimary /\ Shrinking /\ Down

-----------------------------------------------------------------------------
(* What is written is no torn sector, and the addresses are distinct.      *)
LEMMA Consts ==
    /\ 1 \in Sectors /\ Header \notin Sectors /\ Vector \notin Sectors /\ Header # Vector
    /\ Sectors \subseteq Addresses /\ Header \in Addresses /\ Vector \in Addresses
    /\ Torn \notin Headers /\ Torn \notin SectorRecs /\ Torn \notin Values
    /\ \A d \in SUBSET Sectors : Torn # d
<1>1. /\ 1 \in Sectors /\ Header \notin Sectors /\ Vector \notin Sectors /\ Header # Vector
      /\ Sectors \subseteq Addresses /\ Header \in Addresses /\ Vector \in Addresses
  BY ConstantsAssumption DEF Sectors, Header, Vector, Addresses
<1>2. /\ Torn \notin Headers /\ Torn \notin SectorRecs /\ Torn \notin Values
      /\ \A d \in SUBSET Sectors : Torn # d
  BY Zenon, ConstantsAssumption DEF Sectors, Headers, SectorRecs
<1> QED
  BY Zenon, <1>1, <1>2

(* The fields of a base block.                                             *)
LEMMA BlockFacts ==
    ASSUME NEW n \in Sectors, NEW s \in 0 .. MaxTime
    PROVE  /\ BaseBlock(n, s, TRUE) \in Headers /\ BaseBlock(n, s, FALSE) \in Headers
           /\ BaseBlock(n, s, TRUE) # Torn /\ BaseBlock(n, s, FALSE) # Torn
           /\ BaseBlock(n, s, TRUE).len = n /\ BaseBlock(n, s, FALSE).len = n
           /\ BaseBlock(n, s, TRUE).stamp = s /\ BaseBlock(n, s, FALSE).stamp = s
           /\ BaseBlock(n, s, TRUE).done /\ ~BaseBlock(n, s, FALSE).done
<1>1. BaseBlock(n, s, TRUE) \in Headers /\ BaseBlock(n, s, FALSE) \in Headers
  BY DEF BaseBlock, Headers
<1>2. BaseBlock(n, s, TRUE) # Torn /\ BaseBlock(n, s, FALSE) # Torn
  BY Zenon, <1>1, Consts
<1> QED
  BY <1>1, <1>2 DEF BaseBlock

(* The fields of a sector.                                                 *)
LEMMA BodyFacts ==
    ASSUME NEW v \in Values, NEW s \in 0 .. MaxTime, NEW i
    PROVE  /\ Sector(v, IF i = 1 THEN s ELSE 0) \in SectorRecs
           /\ Sector(v, IF i = 1 THEN s ELSE 0).val = v
           /\ i = 1 => Sector(v, IF i = 1 THEN s ELSE 0).stamp = s
<1>1. 0 \in 0 .. MaxTime
  BY ConstantsAssumption
<1> QED
  BY <1>1 DEF Sector, SectorRecs

LEMMA ValFacts == \A x \in SectorRecs : Val(x) = x.val /\ x # Torn
  BY Consts DEF Val

LEMMA NothingFacts == DOMAIN Nothing = {}
  BY DEF Nothing

(* Overlay, address by address.                                            *)
LEMMA OverlayFacts ==
    ASSUME NEW w, NEW c
    PROVE  /\ DOMAIN Overlay(w, c) = DOMAIN w \cup DOMAIN c
           /\ \A a \in DOMAIN w : a \in DOMAIN Overlay(w, c) /\ Overlay(w, c)[a] = w[a]
           /\ \A a \in DOMAIN c : /\ a \in DOMAIN Overlay(w, c)
                                 /\ a \notin DOMAIN w => Overlay(w, c)[a] = c[a]
  BY DEF Overlay

LEMMA PartFacts ==
    ASSUME NEW w, NEW S
    PROVE  DOMAIN Part(w, S) = S /\ \A a \in S : Part(w, S)[a] = w[a]
  BY DEF Part

(* The sectors of a log have places of their own.                          *)
LEMMA PlaceFacts ==
    ASSUME NEW d \in SUBSET Sectors
    PROVE  /\ \A i \in d : Place(d, i) \in Sectors
           /\ \A i, j \in d : Place(d, i) = Place(d, j) => i = j
<1> DEFINE Upto(i) == {j \in d : j <= i}
<1>1. IsFiniteSet(Sectors) /\ Cardinality(Sectors) = MaxLength
  <2>1. 1 \in Int /\ MaxLength \in Int /\ MaxLength >= 1
    BY ConstantsAssumption
  <2>2. /\ IsFiniteSet(1 .. MaxLength)
        /\ Cardinality(1 .. MaxLength) = IF 1 > MaxLength THEN 0 ELSE MaxLength - 1 + 1
    BY Zenon, <2>1, FS_Interval
  <2> QED  BY <2>1, <2>2 DEF Sectors
<1>2. \A i \in d : Upto(i) \in SUBSET Sectors
  OBVIOUS
<1>3. \A i \in d : /\ IsFiniteSet(Upto(i)) /\ Cardinality(Upto(i)) \in Nat
                    /\ Cardinality(Upto(i)) <= MaxLength
  BY <1>1, <1>2, FS_Subset, FS_CardinalityType
<1>4. \A i \in d : Upto(i) # {}
  BY DEF Sectors
<1>5. \A i \in d : Cardinality(Upto(i)) # 0
  BY <1>3, <1>4, FS_EmptySet
<1>6. \A i \in d : Place(d, i) \in Sectors
  BY <1>3, <1>5, ConstantsAssumption DEF Place, Sectors
<1>7. ASSUME NEW i \in d, NEW j \in d, i < j PROVE Place(d, i) # Place(d, j)
  <2>1. j <= j /\ ~(j <= i) /\ \A k \in d : k <= i => k <= j
    BY <1>7 DEF Sectors
  <2>2. j \in Upto(j) /\ j \notin Upto(i) /\ Upto(i) \in SUBSET Upto(j)
    BY Zenon, <2>1
  <2>3. Cardinality(Upto(j)) # Cardinality(Upto(i))
    BY Zenon, <1>3, <2>2, FS_Subset
  <2> QED  BY Zenon, <2>3 DEF Place
<1>8. \A i, j \in d : i < j \/ j < i \/ i = j
  BY DEF Sectors
<1> QED
  BY <1>6, <1>7, <1>8

(* A write to one file.                                                    *)
LEMMA WriteFacts ==
    ASSUME FilesOK, NEW f \in Files, NEW w, NEW next, DOMAIN w \subseteq Addresses,
           FileWrite(f, w, next)
    PROVE  /\ FilesOK' /\ disk' = disk
           /\ \A g \in Files : g # f => cache'[g] = cache[g]
           /\ \/ pc' = next /\ cache'[f] = Overlay(w, cache[f])
              \/ /\ pc \in FailPoints /\ GiveUp
                 /\ \E S \in SUBSET DOMAIN w : cache'[f] = Overlay(Part(w, S), cache[f])
<1>1. disk' = disk
  BY DEF FileWrite
<1>2. ASSUME NEW u, DOMAIN u \subseteq DOMAIN w
      PROVE  DOMAIN Overlay(u, cache[f]) \subseteq Addresses
  <2>1. DOMAIN Overlay(u, cache[f]) = DOMAIN u \cup DOMAIN cache[f]
    BY Zenon, OverlayFacts
  <2> QED  BY Zenon, <1>2, <2>1 DEF FilesOK
<1>3. CASE cache' = [cache EXCEPT ![f] = Overlay(w, cache[f])] /\ pc' = next
  <2>1. DOMAIN cache' = Files /\ cache'[f] = Overlay(w, cache[f])
        /\ \A g \in Files : g # f => cache'[g] = cache[g]
    BY <1>3 DEF FilesOK
  <2>2. DOMAIN cache'[f] \subseteq Addresses
    BY Zenon, <1>2, <2>1
  <2> QED  BY Zenon, <1>1, <1>3, <2>1, <2>2 DEF FilesOK
<1>4. ASSUME pc \in FailPoints, GiveUp, NEW S \in SUBSET DOMAIN w,
             cache' = [cache EXCEPT ![f] = Overlay(Part(w, S), cache[f])]
      PROVE  /\ FilesOK' /\ disk' = disk
             /\ \A g \in Files : g # f => cache'[g] = cache[g]
             /\ cache'[f] = Overlay(Part(w, S), cache[f])
  <2>1. DOMAIN cache' = Files /\ cache'[f] = Overlay(Part(w, S), cache[f])
        /\ \A g \in Files : g # f => cache'[g] = cache[g]
    BY <1>4 DEF FilesOK
  <2>2. DOMAIN cache'[f] \subseteq Addresses
    BY <1>2, <2>1, PartFacts
  <2> QED  BY Zenon, <1>1, <2>1, <2>2 DEF FilesOK
<1> QED
  BY Zenon, <1>1, <1>3, <1>4 DEF FileWrite

(* A flush of one file.                                                    *)
LEMMA FlushFacts ==
    ASSUME FilesOK, NEW f \in Files, NEW next, FileFlush(f, next)
    PROVE  /\ FilesOK'
           /\ \A g \in Files : g # f => cache'[g] = cache[g] /\ disk'[g] = disk[g]
           /\ \/ pc' = next /\ cache'[f] = Nothing /\ disk'[f] = Overlay(cache[f], disk[f])
              \/ /\ pc \in FailPoints /\ GiveUp /\ cache' = cache
                 /\ \E S \in SUBSET DOMAIN cache[f] :
                        disk'[f] = Overlay(Part(cache[f], S), disk[f])
<1>1. ASSUME NEW u, DOMAIN u \subseteq Addresses PROVE DOMAIN Overlay(u, disk[f]) = Addresses
  <2>1. DOMAIN Overlay(u, disk[f]) = DOMAIN u \cup DOMAIN disk[f]
    BY Zenon, OverlayFacts
  <2> QED  BY <1>1, <2>1 DEF FilesOK
<1>2. CASE /\ disk' = [disk EXCEPT ![f] = Overlay(cache[f], disk[f])]
           /\ cache' = [cache EXCEPT ![f] = Nothing] /\ pc' = next
  <2>1. /\ DOMAIN cache' = Files /\ cache'[f] = Nothing
        /\ DOMAIN disk' = Files /\ disk'[f] = Overlay(cache[f], disk[f])
        /\ \A g \in Files : g # f => cache'[g] = cache[g] /\ disk'[g] = disk[g]
    BY <1>2 DEF FilesOK
  <2>2. DOMAIN cache'[f] \subseteq Addresses /\ DOMAIN disk'[f] = Addresses
    BY <1>1, <2>1, NothingFacts DEF FilesOK
  <2> QED  BY Zenon, <1>2, <2>1, <2>2 DEF FilesOK
<1>3. ASSUME NEW S \in SUBSET DOMAIN cache[f], cache' = cache,
             disk' = [disk EXCEPT ![f] = Overlay(Part(cache[f], S), disk[f])]
      PROVE  /\ FilesOK' /\ disk'[f] = Overlay(Part(cache[f], S), disk[f])
             /\ \A g \in Files : g # f => cache'[g] = cache[g] /\ disk'[g] = disk[g]
  <2>1. /\ DOMAIN disk' = Files /\ disk'[f] = Overlay(Part(cache[f], S), disk[f])
        /\ \A g \in Files : g # f => cache'[g] = cache[g] /\ disk'[g] = disk[g]
    BY <1>3 DEF FilesOK
  <2>2. DOMAIN disk'[f] = Addresses
    BY <1>1, <2>1, PartFacts DEF FilesOK
  <2> QED  BY Zenon, <1>3, <2>1, <2>2 DEF FilesOK
<1> QED
  BY Zenon, <1>2, <1>3 DEF FileFlush

(* The same for each of the two files.                                     *)
LEMMA LogWrite ==
    ASSUME FilesOK, NEW w, NEW next, DOMAIN w \subseteq Addresses, FileWrite("log", w, next)
    PROVE  /\ FilesOK' /\ DiskP' = DiskP /\ CacheP' = CacheP /\ DiskL' = DiskL
           /\ \/ pc' = next /\ CacheL' = Overlay(w, CacheL)
              \/ pc \in FailPoints /\ GiveUp
<1>1. "log" \in Files /\ "primary" \in Files /\ "primary" # "log"
  BY DEF Files
<1> QED
  BY Zenon, <1>1, WriteFacts DEF DiskP, CacheP, DiskL, CacheL

LEMMA LogFlush ==
    ASSUME FilesOK, NEW next, FileFlush("log", next)
    PROVE  /\ FilesOK' /\ DiskP' = DiskP /\ CacheP' = CacheP
           /\ \/ pc' = next /\ CacheL' = Nothing /\ DiskL' = Overlay(CacheL, DiskL)
              \/ pc \in FailPoints /\ GiveUp
<1>1. "log" \in Files /\ "primary" \in Files /\ "primary" # "log"
  BY DEF Files
<1> QED
  BY Zenon, <1>1, FlushFacts DEF DiskP, CacheP, DiskL, CacheL

LEMMA PrimaryWrite ==
    ASSUME FilesOK, NEW w, NEW next, DOMAIN w \subseteq Addresses, FileWrite("primary", w, next)
    PROVE  /\ FilesOK' /\ DiskP' = DiskP /\ DiskL' = DiskL /\ CacheL' = CacheL
           /\ \/ pc' = next /\ CacheP' = Overlay(w, CacheP)
              \/ /\ pc \in FailPoints /\ GiveUp
                 /\ \E S \in SUBSET DOMAIN w : CacheP' = Overlay(Part(w, S), CacheP)
<1>1. "log" \in Files /\ "primary" \in Files /\ "primary" # "log"
  BY DEF Files
<1> QED
  BY Zenon, <1>1, WriteFacts DEF DiskP, CacheP, DiskL, CacheL

LEMMA PrimaryFlush ==
    ASSUME FilesOK, NEW next, FileFlush("primary", next)
    PROVE  /\ FilesOK' /\ DiskL' = DiskL /\ CacheL' = CacheL
           /\ \/ pc' = next /\ CacheP' = Nothing /\ DiskP' = Overlay(CacheP, DiskP)
              \/ /\ pc \in FailPoints /\ GiveUp /\ CacheP' = CacheP
                 /\ \E S \in SUBSET DOMAIN CacheP : DiskP' = Overlay(Part(CacheP, S), DiskP)
<1>1. "log" \in Files /\ "primary" \in Files /\ "primary" # "log"
  BY DEF Files
<1> QED
  BY Zenon, <1>1, FlushFacts DEF DiskP, CacheP, DiskL, CacheL

(* Only one part of the invariant concerns a given pc.                     *)
LEMMA OnlyRest ==
    ASSUME TypeOK', Contained', LoadSucceeds', AtRest', pc' \in {"idle", "logHeader"}
    PROVE  IInv'
  BY Zenon DEF IInv, InLog, InPrimary, Shrinking, Down, LogPCs, PrimaryPCs

LEMMA OnlyLog ==
    ASSUME TypeOK', Contained', LoadSucceeds', InLog', pc' \in LogPCs
    PROVE  IInv'
  BY Zenon DEF IInv, AtRest, InPrimary, Shrinking, Down, LogPCs, PrimaryPCs

LEMMA OnlyPrimary ==
    ASSUME TypeOK', Contained', LoadSucceeds', InPrimary', pc' \in PrimaryPCs
    PROVE  IInv'
  BY Zenon DEF IInv, AtRest, InLog, Shrinking, Down, LogPCs, PrimaryPCs

LEMMA OnlyShrinking ==
    ASSUME TypeOK', Contained', LoadSucceeds', Shrinking', pc' = "shrinkLog"
    PROVE  IInv'
  BY Zenon DEF IInv, AtRest, InLog, InPrimary, Down, LogPCs, PrimaryPCs

LEMMA OnlyDown ==
    ASSUME TypeOK', Contained', LoadSucceeds', Down', pc' = "down"
    PROVE  IInv'
  BY Zenon DEF IInv, AtRest, InLog, InPrimary, Shrinking, LogPCs, PrimaryPCs

LEMMA TypeFacts ==
    ASSUME TypeOK
    PROVE  /\ FilesOK
           /\ 1 .. len \subseteq Sectors /\ dirty \subseteq 1 .. len
           /\ len \in Int /\ baseLen \in Int /\ baseLen <= len
  BY ConstantsAssumption DEF TypeOK, FilesOK, Sectors

(* A complete primary file stays complete while it is not written to.      *)
LEMMA CurrentStays ==
    ASSUME Current, CacheP' = Nothing, \A a \in Addresses : DiskP'[a] = DiskP[a],
           UNCHANGED synced, synced \in allowed'
    PROVE  Current'
<1>1. /\ DiskP[Header] \in Headers /\ DiskP[Header].done
      /\ \A i \in 1 .. DiskP[Header].len : DiskP[i] \in SectorRecs
      /\ FileImage = synced
  BY Zenon DEF Current, Complete, Finished
<1>2. DiskP'[Header] = DiskP[Header]
  BY Zenon, Consts
<1>3. \A i \in 1 .. DiskP[Header].len : DiskP'[i] = DiskP[i]
  <2>1. DiskP[Header].len \in Sectors
    BY <1>1 DEF Headers
  <2>2. 1 .. DiskP[Header].len \subseteq Addresses
    BY <2>1, ConstantsAssumption DEF Sectors, Addresses
  <2> QED  BY Zenon, <2>2
<1>4. FileImage' = FileImage
  BY <1>2, <1>3 DEF FileImage
<1> QED
  BY Zenon, <1>1, <1>2, <1>3, <1>4 DEF Current, Complete, Finished

LEMMA MirrorsStays ==
    ASSUME Mirrors, TypeOK, \A a \in Addresses : DiskP'[a] = DiskP[a],
           UNCHANGED <<mem, len, dirty>>
    PROVE  Mirrors'
<1>1. \A i \in 1 .. len : DiskP'[i] = DiskP[i]
  BY Zenon, TypeFacts, Consts
<1>2. DiskP'[Header] = DiskP[Header]
  BY Zenon, Consts
<1> QED
  BY Zenon, <1>1, <1>2 DEF Mirrors

(* A memory that mirrors the primary file has its differences marked.      *)
LEMMA Tracks ==
    ASSUME Current', Mirrors'
    PROVE  \A i \in 1 .. len' : i \notin dirty' => Val(Primary(i))' = mem'[i]
<1> SUFFICES ASSUME NEW i \in 1 .. len', i \notin dirty' PROVE Val(Primary(i))' = mem'[i]
  OBVIOUS
<1>1. DiskP'[Header].len \in Int /\ i <= DiskP'[Header].len /\ DiskP'[i].val = mem'[i]
  BY DEF Mirrors, Current, Complete, Finished, Headers, Sectors
<1>2. DiskP'[i] \in SectorRecs /\ CacheP' = Nothing
  BY <1>1 DEF Current, Complete, Finished
<1>3. Primary(i)' = DiskP'[i]
  BY Zenon, <1>2, NothingFacts DEF Primary
<1> QED
  BY Zenon, <1>1, <1>2, <1>3, ValFacts

(* What a failed write of the log leaves.                                  *)
LEMMA LogFails ==
    ASSUME Current', Mirrors', 1 \in dirty', pc' = "idle"
    PROVE  AtRest'
  BY Zenon, Tracks DEF AtRest, Mirrors

LEMMA InLogStays ==
    ASSUME IInv, pc \in LogPCs, FilesOK', DiskP' = DiskP, CacheP' = CacheP,
           open' \in BOOLEAN, pc' \in PCs,
           UNCHANGED <<mem, len, dirty, baseLen, timeStamp, binStamp, op, history>>
    PROVE  /\ TypeOK' /\ Contained' /\ LoadSucceeds' /\ Current' /\ Mirrors'
           /\ 1 \in dirty' /\ op' = "sync" /\ Image(mem, len)' \in allowed'
           /\ pc' = "idle" => IInv'
<1>1. /\ TypeOK /\ Contained /\ LoadSucceeds /\ Current /\ Mirrors /\ CacheP = Nothing
      /\ 1 \in dirty /\ op = "sync" /\ Image(mem, len) \in allowed /\ synced \in allowed
  BY Zenon DEF IInv, InLog, Current, Complete, Finished
<1>2. TypeOK'
  BY Zenon, <1>1 DEF TypeOK, FilesOK, history
<1>3. Contained' /\ LoadSucceeds'
  BY Zenon, <1>1 DEF Contained, LoadSucceeds, history
<1>4. Current' /\ Mirrors'
  BY Zenon, <1>1, CurrentStays, MirrorsStays DEF history
<1>5. 1 \in dirty' /\ op' = "sync" /\ Image(mem, len)' \in allowed'
  BY Zenon, <1>1 DEF history, Image
<1> QED
  BY Zenon, <1>2, <1>3, <1>4, <1>5, LogFails, OnlyRest

(* Nothing is read or written.                                             *)
LEMMA Undisturbed ==
    ASSUME UNCHANGED <<disk, cache, allowed, synced, tornFirst>>, len <= len', len \in Int,
           len' \in Int
    PROVE  /\ Current /\ DiskP[Header].len <= len /\ DiskP[Header].len \in Int =>
                  (Current /\ DiskP[Header].len <= len)'
           /\ Interrupted => Interrupted'
<1>1. DiskP' = DiskP /\ CacheP' = CacheP /\ DiskL' = DiskL /\ CacheL' = CacheL
  BY Zenon DEF DiskP, CacheP, DiskL, CacheL
<1>2. Finished' = Finished /\ (Current => Current')
  BY Zenon, <1>1 DEF Current, Complete, Finished, FileImage
<1>3. ASSUME NEW n, NEW s, NEW d, NEW m, GoodLog(n, s, d, m), Writing(n, s, d, m)
      PROVE  GoodLog(n, s, d, m)' /\ Writing(n, s, d, m)'
  <2>1. GoodLog(n, s, d, m)'
    BY Zenon, <1>1, <1>3 DEF GoodLog
  <2>2. Writing(n, s, d, m)'
    BY Zenon, <1>1, <1>2, <1>3 DEF Writing, Remain
  <2> QED  BY Zenon, <2>1, <2>2
<1>4. ASSUME Interrupted PROVE Interrupted'
  <2>1. PICK n \in 1 .. len, s \in 0 .. MaxTime, d \in SUBSET (1 .. len), m \in allowed :
            /\ GoodLog(n, s, d, m) /\ Writing(n, s, d, m)
            /\ Header \in DOMAIN CacheP \/ DiskP[Header] = BaseBlock(n, s, FALSE)
    BY Zenon, <1>4 DEF Interrupted
  <2>2. n \in 1 .. len' /\ d \in SUBSET (1 .. len') /\ m \in allowed'
    BY <2>1
  <2> QED  BY ZenonT(60), <1>1, <1>3, <2>1, <2>2 DEF Interrupted
<1>5. ASSUME Current, DiskP[Header].len <= len, DiskP[Header].len \in Int
      PROVE  (Current /\ DiskP[Header].len <= len)'
  <2>1. DiskP[Header].len <= len'
    BY <1>5
  <2> QED  BY Zenon, <1>1, <1>2, <1>5, <2>1
<1> QED
  BY Zenon, <1>4, <1>5

-----------------------------------------------------------------------------
(* The steps of HvpWriteLog.                                               *)
LEMMA LogHeaderStep == ASSUME IInv, NEW t \in 0 .. MaxTime, LogHeader(t) PROVE IInv'
<1>1. /\ TypeOK /\ Contained /\ LoadSucceeds /\ AtRest /\ pc = "logHeader"
      /\ UNCHANGED <<mem, len, dirty, baseLen, binStamp, op, synced, tornFirst, corrupt>>
  BY Zenon DEF IInv, LogHeader
<1>2. /\ dirty # {} /\ op = "sync" /\ 1 \in dirty
      /\ \A i \in 1 .. len : i \notin dirty => Val(Primary(i)) = mem[i]
      /\ ~open => Current /\ Mirrors
      /\ open => (Current /\ DiskP[Header].len <= len) \/ Interrupted
  BY Zenon, <1>1 DEF AtRest
<1>3. CASE open
  <2>1. pc' = "idle" /\ UNCHANGED <<disk, cache, open, timeStamp, allowed>>
    BY Zenon, <1>1, <1>2, <1>3 DEF LogHeader, GiveUp, diskVars
  <2>2. TypeOK' /\ Contained' /\ LoadSucceeds'
    BY Zenon, <1>1, <2>1 DEF TypeOK, Contained, LoadSucceeds, DiskP, CacheP, PCs
  <2>3. AtRest'
    <3>1. (Current /\ DiskP[Header].len <= len)' \/ Interrupted'
      <4>1. len \in Int /\ len' \in Int /\ len <= len'
        BY <1>1, TypeFacts
      <4>2. Current => DiskP[Header].len \in Int
        BY DEF Current, Complete, Finished, Headers, Sectors
      <4> QED  BY Zenon, <1>1, <1>2, <1>3, <2>1, <4>1, <4>2, Undisturbed
    <3>2. \A i \in 1 .. len' : i \notin dirty' => Val(Primary(i))' = mem'[i]
      BY Zenon, <1>1, <1>2, <2>1 DEF Primary, DiskP, CacheP, Val
    <3> QED  BY Zenon, <1>1, <1>2, <1>3, <2>1, <3>1, <3>2 DEF AtRest
  <2> QED  BY Zenon, <2>1, <2>2, <2>3, OnlyRest
<1>4. CASE ~open
  <2> DEFINE w == [a \in {Header} |-> BaseBlock(baseLen, t, FALSE)]
  <2>1. /\ open' = TRUE /\ timeStamp' = t /\ allowed' = allowed \cup {Image(mem, len)}
        /\ FileWrite("log", w, "logFlush1")
    BY Zenon, <1>4 DEF LogHeader, StartLog
  <2>2. DOMAIN w \subseteq Addresses
    BY Zenon, Consts
  <2>3. /\ FilesOK' /\ DiskP' = DiskP /\ CacheP' = CacheP
        /\ pc' = "logFlush1" \/ GiveUp
    <3> HIDE DEF w
    <3> QED  BY Zenon, <1>1, <2>1, <2>2, TypeFacts, LogWrite
  <2>4. pc' \in {"idle", "logFlush1"}
    BY Zenon, <1>2, <2>3 DEF GiveUp
  <2>5. TypeOK'
    BY Zenon, <1>1, <2>1, <2>3, <2>4 DEF TypeOK, FilesOK, PCs
  <2>6. Contained' /\ LoadSucceeds'
    BY Zenon, <1>1, <2>3 DEF Contained, LoadSucceeds
  <2>7. Current' /\ Mirrors'
    <3>1. CacheP = Nothing /\ synced \in allowed'
      BY Zenon, <1>2, <1>4, <2>1 DEF Current, Complete, Finished
    <3> QED  BY Zenon, <1>1, <1>2, <1>4, <2>3, <3>1, CurrentStays, MirrorsStays
  <2>8. CASE pc' = "idle"
    BY Zenon, <1>1, <1>2, <2>5, <2>6, <2>7, <2>8, LogFails, OnlyRest
  <2>9. CASE pc' = "logFlush1"
    <3>1. Image(mem, len)' \in allowed'
      BY Zenon, <1>1, <2>1 DEF Image
    <3>2. InLog'
      BY Zenon, <1>1, <1>2, <2>1, <2>7, <2>9, <3>1 DEF InLog
    <3> QED  BY Zenon, <2>5, <2>6, <2>9, <3>2, OnlyLog DEF LogPCs
  <2> QED  BY Zenon, <2>4, <2>8, <2>9
<1> QED
  BY Zenon, <1>3, <1>4

LEMMA LogFlush1Step == ASSUME IInv, LogFlush1 PROVE IInv'
<1>1. /\ TypeOK /\ pc = "logFlush1" /\ FileFlush("log", "logVector")
      /\ UNCHANGED <<memVars, op, history>> /\ op = "sync" /\ open
  BY Zenon DEF IInv, LogFlush1, InLog, LogPCs
<1>2. /\ FilesOK' /\ DiskP' = DiskP /\ CacheP' = CacheP /\ pc' \in {"logVector", "idle"}
  BY Zenon, <1>1, TypeFacts, LogFlush DEF GiveUp
<1>3. /\ TypeOK' /\ Contained' /\ LoadSucceeds' /\ Current' /\ Mirrors'
      /\ 1 \in dirty' /\ op' = "sync" /\ Image(mem, len)' \in allowed'
      /\ pc' = "idle" => IInv'
  BY Zenon, <1>1, <1>2, InLogStays DEF memVars, TypeOK, LogPCs, PCs
<1>4. CASE pc' = "logVector"
  <2>1. InLog'
    BY Zenon, <1>1, <1>3, <1>4 DEF InLog, memVars
  <2> QED  BY Zenon, <1>3, <1>4, <2>1, OnlyLog DEF LogPCs
<1> QED
  BY Zenon, <1>2, <1>3, <1>4

LEMMA LogVectorStep == ASSUME IInv, LogVector PROVE IInv'
<1> DEFINE w == [a \in {Vector} |-> dirty]
<1>1. /\ TypeOK /\ pc = "logVector" /\ FileWrite("log", w, "logBody")
      /\ UNCHANGED <<memVars, op, history>> /\ op = "sync" /\ open
  BY Zenon DEF IInv, LogVector, InLog, LogPCs
<1>2. DOMAIN w = {Vector} /\ w[Vector] = dirty /\ DOMAIN w \subseteq Addresses
  BY Zenon, Consts
<1> HIDE DEF w
<1>3. /\ FilesOK' /\ DiskP' = DiskP /\ CacheP' = CacheP
      /\ \/ pc' = "logBody" /\ CacheL' = Overlay(w, CacheL)
         \/ pc' = "idle"
  BY Zenon, <1>1, <1>2, TypeFacts, LogWrite DEF GiveUp
<1>4. /\ TypeOK' /\ Contained' /\ LoadSucceeds' /\ Current' /\ Mirrors'
      /\ 1 \in dirty' /\ op' = "sync" /\ Image(mem, len)' \in allowed'
      /\ pc' = "idle" => IInv'
  BY Zenon, <1>1, <1>3, InLogStays DEF memVars, TypeOK, LogPCs, PCs
<1>5. CASE pc' = "logBody" /\ CacheL' = Overlay(w, CacheL)
  <2>1. Vector \in DOMAIN CacheL' /\ CacheL'[Vector] = dirty
    <3>1. Vector \in DOMAIN w
      BY Zenon, <1>2
    <3>2. \A a \in DOMAIN w : a \in DOMAIN Overlay(w, CacheL) /\ Overlay(w, CacheL)[a] = w[a]
      BY Zenon, OverlayFacts
    <3> QED  BY Zenon, <1>2, <1>5, <3>1, <3>2
  <2>2. InLog'
    BY Zenon, <1>1, <1>4, <1>5, <2>1 DEF InLog, memVars
  <2> QED  BY Zenon, <1>4, <1>5, <2>2, OnlyLog DEF LogPCs
<1> QED
  BY Zenon, <1>3, <1>4, <1>5

(* The sectors go to places of their own, none of them the vector's.       *)
LEMMA LogBodyStep == ASSUME IInv, LogBody PROVE IInv'
<1> DEFINE places == {Place(dirty, i) : i \in dirty}
           w == [p \in places |-> Contents(CHOOSE i \in dirty : Place(dirty, i) = p, binStamp)]
<1>1. /\ TypeOK /\ pc = "logBody" /\ FileWrite("log", w, "logFlush2")
      /\ UNCHANGED <<memVars, op, history>> /\ op = "sync" /\ open
      /\ Vector \in DOMAIN CacheL /\ CacheL[Vector] = dirty
  BY Zenon DEF IInv, LogBody, InLog, LogPCs
<1>2. dirty \in SUBSET Sectors
  BY Zenon, <1>1, TypeFacts
<1>3. /\ places \subseteq Sectors
      /\ \A i \in dirty : (CHOOSE j \in dirty : Place(dirty, j) = Place(dirty, i)) = i
  BY <1>2, PlaceFacts
<1>4. DOMAIN w = places /\ DOMAIN w \subseteq Addresses /\ Vector \notin DOMAIN w
  BY Zenon, <1>3, Consts
<1>5. \A i \in dirty : Place(dirty, i) \in DOMAIN w /\ w[Place(dirty, i)] = Contents(i, binStamp)
  BY Zenon, <1>3, <1>4
<1> HIDE DEF w, places
<1>6. /\ FilesOK' /\ DiskP' = DiskP /\ CacheP' = CacheP
      /\ \/ pc' = "logFlush2" /\ CacheL' = Overlay(w, CacheL)
         \/ pc' = "idle"
  BY Zenon, <1>1, <1>4, TypeFacts, LogWrite DEF GiveUp
<1>7. /\ TypeOK' /\ Contained' /\ LoadSucceeds' /\ Current' /\ Mirrors'
      /\ 1 \in dirty' /\ op' = "sync" /\ Image(mem, len)' \in allowed'
      /\ pc' = "idle" => IInv'
  BY Zenon, <1>1, <1>6, InLogStays DEF memVars, TypeOK, LogPCs, PCs
<1>8. CASE pc' = "logFlush2" /\ CacheL' = Overlay(w, CacheL)
  <2>1. Vector \in DOMAIN CacheL' /\ CacheL'[Vector] = dirty
    <3>1. \A a \in DOMAIN CacheL : /\ a \in DOMAIN Overlay(w, CacheL)
                                   /\ a \notin DOMAIN w => Overlay(w, CacheL)[a] = CacheL[a]
      BY DEF Overlay
    <3> QED  BY Zenon, <1>1, <1>4, <1>8, <3>1
  <2>2. \A i \in dirty : /\ Place(dirty, i) \in DOMAIN CacheL'
                         /\ CacheL'[Place(dirty, i)] = Contents(i, binStamp)
    <3>1. \A a \in DOMAIN w : a \in DOMAIN Overlay(w, CacheL) /\ Overlay(w, CacheL)[a] = w[a]
      BY Zenon, OverlayFacts
    <3> QED  BY Zenon, <1>5, <1>8, <3>1
  <2>3. \A i : Contents(i, binStamp)' = Contents(i, binStamp)
    BY Zenon, <1>1 DEF memVars, Contents
  <2>4. InLog'
    BY Zenon, <1>1, <1>7, <1>8, <2>1, <2>2, <2>3 DEF InLog, memVars
  <2> QED  BY Zenon, <1>7, <1>8, <2>4, OnlyLog DEF LogPCs
<1> QED
  BY Zenon, <1>6, <1>7, <1>8

LEMMA LogFlush2Step == ASSUME IInv, LogFlush2 PROVE IInv'
<1>1. /\ TypeOK /\ pc = "logFlush2" /\ FileFlush("log", "logHeader2")
      /\ UNCHANGED <<memVars, op, history>> /\ op = "sync" /\ open /\ Mirrors
      /\ Vector \in DOMAIN CacheL /\ CacheL[Vector] = dirty
      /\ \A i \in dirty : /\ Place(dirty, i) \in DOMAIN CacheL
                          /\ CacheL[Place(dirty, i)] = Contents(i, binStamp)
  BY Zenon DEF IInv, LogFlush2, InLog, LogPCs
<1>2. /\ FilesOK' /\ DiskP' = DiskP /\ CacheP' = CacheP
      /\ \/ pc' = "logHeader2" /\ CacheL' = Nothing /\ DiskL' = Overlay(CacheL, DiskL)
         \/ pc' = "idle"
  BY Zenon, <1>1, TypeFacts, LogFlush DEF GiveUp
<1>3. /\ TypeOK' /\ Contained' /\ LoadSucceeds' /\ Current' /\ Mirrors'
      /\ 1 \in dirty' /\ op' = "sync" /\ Image(mem, len)' \in allowed'
      /\ pc' = "idle" => IInv'
  BY Zenon, <1>1, <1>2, InLogStays DEF memVars, TypeOK, LogPCs, PCs
<1>4. CASE pc' = "logHeader2" /\ CacheL' = Nothing /\ DiskL' = Overlay(CacheL, DiskL)
  <2>1. \A a \in DOMAIN CacheL : DiskL'[a] = CacheL[a]
    BY <1>4 DEF Overlay
  <2>2. DiskL'[Vector] = dirty
    BY Zenon, <1>1, <2>1
  <2>3. ASSUME NEW i \in dirty PROVE Holds(DiskL'[Place(dirty, i)], mem[i])
    <3>1. DiskL'[Place(dirty, i)] = Contents(i, binStamp)
      BY Zenon, <1>1, <2>1
    <3>2. mem[i] \in Values /\ binStamp \in 0 .. MaxTime
      BY Zenon, <1>1 DEF TypeOK, Mirrors
    <3>3. /\ Sector(mem[i], IF i = 1 THEN binStamp ELSE 0) \in SectorRecs
          /\ Sector(mem[i], IF i = 1 THEN binStamp ELSE 0).val = mem[i]
      BY Zenon, <3>2, BodyFacts
    <3> QED  BY <3>1, <3>3 DEF Contents, Holds
  <2>4. InLog'
    BY Zenon, <1>1, <1>3, <1>4, <2>2, <2>3 DEF InLog, memVars
  <2> QED  BY Zenon, <1>3, <1>4, <2>4, OnlyLog DEF LogPCs
<1> QED
  BY Zenon, <1>2, <1>3, <1>4

LEMMA LogHeader2Step == ASSUME IInv, LogHeader2 PROVE IInv'
<1> DEFINE w == [a \in {Header} |-> BaseBlock(IF baseLen < len THEN len ELSE baseLen, timeStamp, TRUE)]
<1>1. /\ TypeOK /\ pc = "logHeader2" /\ FileWrite("log", w, "logFlush3") /\ open' = FALSE
      /\ UNCHANGED <<mem, len, dirty, baseLen, timeStamp, binStamp, op, history>> /\ op = "sync"
      /\ DiskL[Vector] = dirty /\ CacheL = Nothing
      /\ \A i \in dirty : Holds(DiskL[Place(dirty, i)], mem[i])
  BY Zenon DEF IInv, LogHeader2, InLog, LogPCs
<1>2. (IF baseLen < len THEN len ELSE baseLen) = len
  BY <1>1, TypeFacts
<1>3. w = [a \in {Header} |-> BaseBlock(len, timeStamp, TRUE)]
  BY Zenon, <1>2
<1>4. Overlay(w, Nothing) = [a \in {Header} |-> BaseBlock(len, timeStamp, TRUE)]
  BY <1>3, NothingFacts DEF Overlay
<1>5. DOMAIN w \subseteq Addresses
  BY Zenon, Consts
<1> HIDE DEF w
<1>6. /\ FilesOK' /\ DiskP' = DiskP /\ CacheP' = CacheP /\ DiskL' = DiskL
      /\ \/ pc' = "logFlush3" /\ CacheL' = Overlay(w, CacheL)
         \/ pc' = "idle"
  BY Zenon, <1>1, <1>5, TypeFacts, LogWrite DEF GiveUp
<1>7. /\ TypeOK' /\ Contained' /\ LoadSucceeds' /\ Current' /\ Mirrors'
      /\ 1 \in dirty' /\ op' = "sync" /\ Image(mem, len)' \in allowed'
      /\ pc' = "idle" => IInv'
  BY Zenon, <1>1, <1>6, InLogStays DEF LogPCs, PCs
<1>8. CASE pc' = "logFlush3" /\ CacheL' = Overlay(w, CacheL)
  <2>1. CacheL' = [a \in {Header} |-> BaseBlock(len', timeStamp', TRUE)]
    BY Zenon, <1>1, <1>4, <1>8
  <2>2. InLog'
    BY Zenon, <1>1, <1>6, <1>7, <1>8, <2>1 DEF InLog
  <2> QED  BY Zenon, <1>7, <1>8, <2>2, OnlyLog DEF LogPCs
<1> QED
  BY Zenon, <1>6, <1>7, <1>8

(* The log is complete, and the primary file still is.                     *)
LEMMA LogFlush3Step == ASSUME IInv, LogFlush3 PROVE IInv'
<1>1. /\ TypeOK /\ pc = "logFlush3" /\ FileFlush("log", "primaryFlush0")
      /\ UNCHANGED <<memVars, op, history>> /\ op = "sync" /\ ~open
      /\ DiskL[Vector] = dirty
      /\ \A i \in dirty : Holds(DiskL[Place(dirty, i)], mem[i])
      /\ CacheL = [a \in {Header} |-> BaseBlock(len, timeStamp, TRUE)]
  BY Zenon DEF IInv, LogFlush3, InLog, LogPCs
<1>2. /\ FilesOK' /\ DiskP' = DiskP /\ CacheP' = CacheP
      /\ \/ pc' = "primaryFlush0" /\ CacheL' = Nothing /\ DiskL' = Overlay(CacheL, DiskL)
         \/ pc' = "idle"
  BY Zenon, <1>1, TypeFacts, LogFlush DEF GiveUp
<1>3. /\ TypeOK' /\ Contained' /\ LoadSucceeds' /\ Current' /\ Mirrors'
      /\ 1 \in dirty' /\ op' = "sync" /\ Image(mem, len)' \in allowed'
      /\ pc' = "idle" => IInv'
  BY Zenon, <1>1, <1>2, InLogStays DEF memVars, TypeOK, LogPCs, PCs
<1>4. CASE pc' = "primaryFlush0" /\ CacheL' = Nothing /\ DiskL' = Overlay(CacheL, DiskL)
  <2>1. PICK n, s, d, m : /\ n = len /\ s = timeStamp /\ d = dirty /\ m = Image(mem, len)
                          /\ n = len' /\ s = timeStamp' /\ d = dirty' /\ m = Image(mem', len')
    BY Zenon, <1>1 DEF memVars
  <2>2. /\ n \in Sectors /\ s \in 0 .. MaxTime /\ d \subseteq 1 .. n /\ 1 \in d
        /\ d \in SUBSET Sectors /\ 1 .. n \subseteq Sectors
    <3>1. n \in 0 .. MaxLength /\ s \in 0 .. MaxTime /\ d \subseteq 1 .. n /\ 1 \in d
      BY Zenon, <1>3, <2>1 DEF TypeOK
    <3>2. n \in Sectors /\ 1 .. n \subseteq Sectors
      BY <3>1, ConstantsAssumption DEF Sectors
    <3> QED  BY Zenon, <3>1, <3>2
  <2>3. /\ \A i \in 1 .. n : m[i] = mem'[i] /\ m[i] \in Values
        /\ m \in [1 .. n -> Values] /\ m \in allowed'
    <3>1. m = [i \in 1 .. n |-> mem'[i]] /\ m \in allowed'
      BY Zenon, <1>3, <2>1 DEF Image
    <3>2. \A i \in 1 .. n : mem'[i] \in Values
      BY Zenon, <1>3, <2>1 DEF Mirrors
    <3> QED  BY <3>1, <3>2
  <2>4. /\ DiskL'[Header] = BaseBlock(n, s, TRUE)
        /\ \A a \in Addresses : a # Header => DiskL'[a] = DiskL[a]
    <3>1. DOMAIN CacheL = {Header} /\ CacheL[Header] = BaseBlock(n, s, TRUE)
      BY Zenon, <1>1, <2>1
    <3>2. DOMAIN DiskL = Addresses
      BY Zenon, <1>1, TypeFacts DEF FilesOK, DiskL, Files
    <3>3. /\ \A a \in DOMAIN CacheL : Overlay(CacheL, DiskL)[a] = CacheL[a]
          /\ \A a \in DOMAIN DiskL : a \notin DOMAIN CacheL => Overlay(CacheL, DiskL)[a] = DiskL[a]
      BY DEF Overlay
    <3> QED  BY Zenon, <1>4, <3>1, <3>2, <3>3
  <2>5. DiskL'[Vector] = d
    BY Zenon, <1>1, <2>1, <2>4, Consts
  <2>6. ASSUME NEW i \in d PROVE Holds(DiskL'[Place(d, i)], m[i])
    <3>1. Place(d, i) \in Addresses /\ Place(d, i) # Header
      <4>1. Place(d, i) \in Sectors
        BY Zenon, <2>2, PlaceFacts
      <4> QED  BY Zenon, <4>1, Consts
    <3>2. Holds(DiskL[Place(d, i)], mem[i]) /\ mem[i] = m[i]
      BY Zenon, <1>1, <2>1, <2>2, <2>3 DEF memVars
    <3> QED  BY Zenon, <2>4, <3>1, <3>2
  <2>7. GoodLog(n, s, d, m)'
    BY Zenon, <1>4, <2>2, <2>3, <2>4, <2>5, <2>6 DEF GoodLog
  <2>8. /\ CacheP' = Nothing /\ Finished' /\ DiskP'[Header] \in Headers /\ DiskP'[Header].len <= n
    BY Zenon, <1>3, <2>1 DEF Current, Complete, Finished, Mirrors
  <2>9. Remain(n, d, m)'
    <3> SUFFICES ASSUME NEW i \in (1 .. n) \ d PROVE Holds(DiskP'[i], m[i])
      BY Zenon DEF Remain
    <3>1. i \in 1 .. DiskP'[Header].len /\ DiskP'[i].val = mem'[i]
      BY <1>3, <2>1, <2>2, <2>8 DEF Mirrors, Headers, Sectors
    <3> QED  BY Zenon, <2>3, <2>8, <3>1 DEF Finished, Holds
  <2>10. Writing(n, s, d, m)'
    <3>1. DOMAIN CacheP' = {}
      BY Zenon, <2>8, NothingFacts
    <3> QED  BY <2>8, <2>9, <3>1 DEF Writing
  <2>11. AtPrimary(n, s, d, m)'
    BY Zenon, <1>1, <1>3, <1>4, <2>7, <2>8, <2>10 DEF AtPrimary, memVars
  <2>12. InPrimary'
    BY Zenon, <2>1, <2>11 DEF InPrimary
  <2> QED  BY Zenon, <1>3, <1>4, <2>12, OnlyPrimary DEF PrimaryPCs
<1> QED
  BY Zenon, <1>2, <1>3, <1>4

-----------------------------------------------------------------------------
(* The steps of HvpDoWriteHive.                                            *)
LEMMA PrimaryBegin ==
    ASSUME IInv, pc \in PrimaryPCs, UNCHANGED <<mem, len, dirty, timeStamp>>
    PROVE  \E n \in Sectors, s \in 0 .. MaxTime, d \in SUBSET Sectors, m \in allowed :
               /\ n = len /\ s = timeStamp /\ d = dirty /\ m = Image(mem, len)
               /\ n = len' /\ s = timeStamp' /\ d = dirty' /\ m = Image(mem', len')
               /\ AtPrimary(n, s, d, m)
               /\ d \subseteq 1 .. n /\ 1 \in d /\ 1 .. n \subseteq Sectors
               /\ \A i \in 1 .. n : m[i] = mem[i] /\ m[i] \in Values
<1>1. PICK n, s, d, m : n = len /\ s = timeStamp /\ d = dirty /\ m = Image(mem, len)
  BY Zenon
<1>2. AtPrimary(n, s, d, m)
  BY Zenon, <1>1 DEF IInv, InPrimary
<1>3. /\ n \in Sectors /\ s \in 0 .. MaxTime /\ d \subseteq 1 .. n /\ 1 \in d
      /\ m \in [1 .. n -> Values] /\ m \in allowed
  BY Zenon, <1>2 DEF AtPrimary, GoodLog
<1>4. 1 .. n \subseteq Sectors
  BY <1>3, ConstantsAssumption DEF Sectors
<1>5. \A i \in 1 .. n : m[i] = mem[i] /\ m[i] \in Values
  BY <1>1, <1>3 DEF Image
<1>6. m = Image(mem', len') /\ d \in SUBSET Sectors
  BY Zenon, <1>1, <1>3, <1>4
<1> QED
  BY Zenon, <1>1, <1>2, <1>3, <1>4, <1>5, <1>6

LEMMA GoodLogStays ==
    ASSUME NEW n, NEW s, NEW d, NEW m, GoodLog(n, s, d, m),
           DiskL' = DiskL, CacheL' = CacheL, m \in allowed'
    PROVE  GoodLog(n, s, d, m)'
  BY Zenon DEF GoodLog

LEMMA FinishedStays ==
    ASSUME Finished, \A a \in Addresses : DiskP'[a] = DiskP[a], allowed' = allowed
    PROVE  Finished'
<1>1. /\ DiskP[Header] \in Headers /\ DiskP[Header].done /\ FileImage \in allowed
      /\ \A i \in 1 .. DiskP[Header].len : DiskP[i] \in SectorRecs
  BY Zenon DEF Finished
<1>2. DiskP'[Header] = DiskP[Header]
  BY Zenon, Consts
<1>3. \A i \in 1 .. DiskP[Header].len : DiskP'[i] = DiskP[i]
  <2>1. DiskP[Header].len \in Sectors
    BY <1>1 DEF Headers
  <2>2. 1 .. DiskP[Header].len \subseteq Addresses
    BY <2>1, ConstantsAssumption DEF Sectors, Addresses
  <2> QED  BY Zenon, <2>2
<1>4. FileImage' = FileImage
  BY <1>2, <1>3 DEF FileImage
<1> QED
  BY Zenon, <1>1, <1>2, <1>3, <1>4 DEF Finished

(* Some of what is cached of the primary file reaches the disk, untorn.    *)
LEMMA FlushWriting ==
    ASSUME Contained, NEW n, NEW s, NEW d, NEW m,
           d \subseteq 1 .. n, 1 .. n \subseteq Sectors, Writing(n, s, d, m),
           NEW S \in SUBSET DOMAIN CacheP,
           \A a \in Addresses : DiskP'[a] = IF a \in S THEN CacheP[a] ELSE DiskP[a],
           CacheP' = CacheP \/ CacheP' = Nothing, UNCHANGED <<tornFirst, allowed>>
    PROVE  Writing(n, s, d, m)' /\ Contained'
<1>1. /\ Remain(n, d, m) /\ DOMAIN CacheP \subseteq {Header} \cup d
      /\ \A i \in d \cap DOMAIN CacheP : CacheP[i] = Body(m, s, i)
      /\ Header \in DOMAIN CacheP => CacheP[Header] = BaseBlock(n, s, FALSE)
  BY Zenon DEF Writing
<1>2. Header \notin 1 .. n /\ 1 .. n \subseteq Addresses /\ Header \in Addresses
  BY Zenon, Consts
<1>3. DOMAIN CacheP' \subseteq DOMAIN CacheP /\ \A a \in DOMAIN CacheP' : CacheP'[a] = CacheP[a]
  BY Zenon, NothingFacts
<1>4. Contained'
  <2>1. ASSUME NEW i \in Sectors PROVE DiskP'[i] \in SectorRecs \cup {Torn}
    <3>1. (DiskP'[i] = CacheP[i] /\ i \in DOMAIN CacheP) \/ DiskP'[i] = DiskP[i]
      BY Consts
    <3> QED  BY Zenon, <3>1 DEF Contained
  <2> QED  BY Zenon, <1>3, <2>1 DEF Contained
<1>5. Remain(n, d, m)'
  <2> SUFFICES ASSUME NEW i \in (1 .. n) \ d PROVE Holds(DiskP'[i], m[i])
    BY Zenon DEF Remain
  <2>1. i \notin S /\ i \in Addresses
    BY Zenon, <1>1, <1>2
  <2>2. DiskP'[i] = DiskP[i]
    BY Zenon, <2>1
  <2> QED  BY Zenon, <1>1, <2>2 DEF Remain
<1>6. \/ DiskP'[Header] = BaseBlock(n, s, FALSE)
      \/ /\ DOMAIN CacheP' \subseteq {Header}
         /\ \/ DiskP'[Header] = Torn /\ (tornFirst' \/ (DiskP'[1] \in SectorRecs /\ DiskP'[1].stamp = s))
            \/ Finished'
  <2>1. CASE Header \in S
    BY Zenon, <1>1, <1>2, <2>1
  <2>2. CASE Header \notin S /\ DiskP[Header] = BaseBlock(n, s, FALSE)
    BY Zenon, <1>2, <2>2
  <2>3. CASE Header \notin S /\ DiskP[Header] # BaseBlock(n, s, FALSE)
    <3>1. DOMAIN CacheP \subseteq {Header}
      BY Zenon, <2>3 DEF Writing
    <3>2. \A a \in Addresses : DiskP'[a] = DiskP[a]
      BY Zenon, <2>3, <3>1
    <3>3. CASE DiskP[Header] = Torn /\ (tornFirst \/ (DiskP[1] \in SectorRecs /\ DiskP[1].stamp = s))
      BY Zenon, <1>3, <3>1, <3>2, <3>3, Consts
    <3>4. CASE Finished
      BY Zenon, <1>3, <3>1, <3>2, <3>4, FinishedStays
    <3> QED  BY Zenon, <2>3, <3>3, <3>4 DEF Writing
  <2> QED  BY Zenon, <2>1, <2>2, <2>3
<1>7. /\ DOMAIN CacheP' \subseteq {Header} \cup d
      /\ \A i \in d \cap DOMAIN CacheP' : CacheP'[i] = Body(m, s, i)
      /\ Header \in DOMAIN CacheP' => CacheP'[Header] = BaseBlock(n, s, FALSE)
  BY Zenon, <1>1, <1>3
<1> QED
  BY Zenon, <1>4, <1>5, <1>6, <1>7 DEF Writing

(* What a failed write of the primary file leaves: the log, if the header  *)
(* of the primary file was touched.                                        *)
LEMMA PrimaryGivesUp ==
    ASSUME TypeOK', Contained', LoadSucceeds',
           NEW n \in Sectors, NEW s \in 0 .. MaxTime, NEW d \in SUBSET Sectors, NEW m,
           n = len', s = timeStamp', d = dirty', \A i \in 1 .. n : m[i] = mem'[i],
           GoodLog(n, s, d, m)', Writing(n, s, d, m)', GiveUp, op \in {"sync", "recover"},
           op = "recover" => Pending(n, s)',
           op = "sync" => \/ Current' /\ Mirrors'
                          \/ /\ open'
                             /\ Header \in DOMAIN CacheP' \/ DiskP'[Header] = BaseBlock(n, s, FALSE)
    PROVE  IInv'
<1>1. 1 \in d /\ d \subseteq 1 .. n /\ m \in allowed'
  BY Zenon DEF GoodLog
<1>2. CASE op = "recover"
  <2>1. pc' = "down"
    BY <1>2 DEF GiveUp
  <2>2. Recoverable'
    BY Zenon, <1>1, <1>2 DEF Recoverable
  <2> QED  BY Zenon, <2>1, <2>2, OnlyDown DEF Down
<1>3. CASE op = "sync" /\ Current' /\ Mirrors'
  <2>1. pc' = "idle"
    BY <1>3 DEF GiveUp
  <2> QED  BY Zenon, <1>1, <1>3, <2>1, LogFails, OnlyRest
<1>4. CASE /\ op = "sync" /\ open'
           /\ Header \in DOMAIN CacheP' \/ DiskP'[Header] = BaseBlock(n, s, FALSE)
  <2>1. pc' = "idle"
    BY <1>4 DEF GiveUp
  <2>2. Interrupted'
    <3>1. n \in 1 .. len' /\ d \in SUBSET (1 .. len')
      BY <1>1 DEF Sectors
    <3> QED  BY Zenon, <1>1, <1>4, <3>1 DEF Interrupted
  <2>3. ASSUME NEW i \in 1 .. len', i \notin dirty' PROVE Val(Primary(i))' = mem'[i]
    <3>1. i # Header
      BY DEF Header
    <3>2. i \notin DOMAIN CacheP' /\ Holds(DiskP'[i], m[i])
      BY Zenon, <2>3, <3>1 DEF Writing, Remain
    <3>3. Primary(i)' = DiskP'[i]
      BY Zenon, <3>2 DEF Primary
    <3> QED  BY Zenon, <3>2, <3>3, ValFacts DEF Holds
  <2>4. AtRest'
    BY Zenon, <1>1, <1>4, <2>1, <2>2, <2>3 DEF AtRest
  <2> QED  BY Zenon, <2>1, <2>4, OnlyRest
<1> QED
  BY Zenon, <1>2, <1>3, <1>4

LEMMA PrimaryFlushed ==
    ASSUME IInv, pc \in PrimaryPCs, UNCHANGED <<memVars, op, history>>,
           NEW next \in PCs, FileFlush("primary", next),
           NEW n, NEW s, NEW d, NEW m, GoodLog(n, s, d, m), Writing(n, s, d, m),
           d \subseteq 1 .. n, 1 .. n \subseteq Sectors
    PROVE  \E S \in SUBSET DOMAIN CacheP :
               /\ TypeOK' /\ Contained' /\ LoadSucceeds'
               /\ GoodLog(n, s, d, m)' /\ Writing(n, s, d, m)'
               /\ Pending(n, s) => Pending(n, s)'
               /\ \A a \in Addresses : DiskP'[a] = IF a \in S THEN CacheP[a] ELSE DiskP[a]
               /\ \/ pc' = next /\ CacheP' = Nothing /\ S = DOMAIN CacheP
                  \/ GiveUp /\ CacheP' = CacheP
<1>1. TypeOK /\ Contained /\ LoadSucceeds /\ FilesOK
  BY Zenon, TypeFacts DEF IInv
<1>2. /\ FilesOK' /\ DiskL' = DiskL /\ CacheL' = CacheL
      /\ \/ pc' = next /\ CacheP' = Nothing /\ DiskP' = Overlay(CacheP, DiskP)
         \/ /\ GiveUp /\ CacheP' = CacheP
            /\ \E S \in SUBSET DOMAIN CacheP : DiskP' = Overlay(Part(CacheP, S), DiskP)
  BY Zenon, <1>1, PrimaryFlush
<1>3. DOMAIN DiskP = Addresses
  BY Zenon, <1>1 DEF FilesOK, DiskP, Files
<1>4. PICK S \in SUBSET DOMAIN CacheP :
          /\ \A a \in Addresses : DiskP'[a] = IF a \in S THEN CacheP[a] ELSE DiskP[a]
          /\ \/ pc' = next /\ CacheP' = Nothing /\ S = DOMAIN CacheP
             \/ GiveUp /\ CacheP' = CacheP
  <2>1. CASE pc' = next /\ CacheP' = Nothing /\ DiskP' = Overlay(CacheP, DiskP)
    <3>1. \A a \in Addresses : DiskP'[a] = IF a \in DOMAIN CacheP THEN CacheP[a] ELSE DiskP[a]
      BY <1>3, <2>1 DEF Overlay
    <3> QED  BY Zenon, <2>1, <3>1
  <2>2. ASSUME GiveUp, CacheP' = CacheP, NEW S \in SUBSET DOMAIN CacheP,
               DiskP' = Overlay(Part(CacheP, S), DiskP)
        PROVE  \A a \in Addresses : DiskP'[a] = IF a \in S THEN CacheP[a] ELSE DiskP[a]
    BY <1>3, <2>2 DEF Overlay, Part
  <2> QED  BY Zenon, <1>2, <2>1, <2>2
<1>5. GoodLog(n, s, d, m)'
  BY Zenon, <1>2, GoodLogStays DEF GoodLog, history
<1>6. Writing(n, s, d, m)' /\ Contained'
  BY Zenon, <1>1, <1>4, FlushWriting DEF history
<1>7. pc' \in PCs
  BY Zenon, <1>4 DEF GiveUp, PCs
<1>8. TypeOK' /\ LoadSucceeds'
  BY Zenon, <1>1, <1>2, <1>7 DEF TypeOK, FilesOK, LoadSucceeds, memVars, history
<1>9. ASSUME Pending(n, s) PROVE Pending(n, s)'
  <2>1. DiskP'[Header] = DiskP[Header] \/ (Header \in S /\ DiskP'[Header] = CacheP[Header])
    BY Zenon, <1>4, Consts
  <2> QED  BY Zenon, <1>9, <2>1 DEF Pending, Writing
<1> QED
  BY Zenon, <1>4, <1>5, <1>6, <1>8, <1>9

LEMMA PrimaryFlush0Step == ASSUME IInv, PrimaryFlush0 PROVE IInv'
<1>1. /\ pc = "primaryFlush0" /\ FileFlush("primary", "primaryHeader")
      /\ UNCHANGED <<memVars, op, history>> /\ pc \in PrimaryPCs /\ "primaryHeader" \in PCs
      /\ TypeOK /\ op \in {"sync", "recover"}
  BY Zenon DEF PrimaryFlush0, PrimaryPCs, PCs, IInv, TypeOK
<1>2. PICK n \in Sectors, s \in 0 .. MaxTime, d \in SUBSET Sectors, m \in allowed :
               /\ n = len /\ s = timeStamp /\ d = dirty /\ m = Image(mem, len)
               /\ n = len' /\ s = timeStamp' /\ d = dirty' /\ m = Image(mem', len')
               /\ AtPrimary(n, s, d, m)
               /\ d \subseteq 1 .. n /\ 1 \in d /\ 1 .. n \subseteq Sectors
               /\ \A i \in 1 .. n : m[i] = mem[i] /\ m[i] \in Values
  BY Zenon, <1>1, PrimaryBegin DEF memVars
<1>3. /\ GoodLog(n, s, d, m) /\ ~open /\ Writing(n, s, d, m)
      /\ op = "recover" => Pending(n, s)
      /\ op = "sync" => Current /\ Mirrors
  BY Zenon, <1>1, <1>2 DEF AtPrimary
<1>4. PICK S \in SUBSET DOMAIN CacheP :
               /\ TypeOK' /\ Contained' /\ LoadSucceeds'
               /\ GoodLog(n, s, d, m)' /\ Writing(n, s, d, m)'
               /\ Pending(n, s) => Pending(n, s)'
               /\ \A a \in Addresses : DiskP'[a] = IF a \in S THEN CacheP[a] ELSE DiskP[a]
               /\ \/ pc' = "primaryHeader" /\ CacheP' = Nothing /\ S = DOMAIN CacheP
                  \/ GiveUp /\ CacheP' = CacheP
  BY Zenon, <1>1, <1>2, <1>3, PrimaryFlushed
<1>5. ASSUME op = "sync" PROVE Current' /\ Mirrors'
  <2>1. CacheP = Nothing /\ synced \in allowed
    BY Zenon, <1>3, <1>5 DEF Current, Complete, Finished
  <2>2. CacheP' = Nothing /\ \A a \in Addresses : DiskP'[a] = DiskP[a]
    BY Zenon, <1>4, <2>1, NothingFacts
  <2> QED  BY Zenon, <1>1, <1>3, <1>5, <2>1, <2>2, CurrentStays, MirrorsStays DEF memVars, history
<1>6. CASE GiveUp /\ CacheP' = CacheP
  BY Zenon, <1>1, <1>2, <1>3, <1>4, <1>5, <1>6, PrimaryGivesUp DEF memVars
<1>7. CASE pc' = "primaryHeader" /\ CacheP' = Nothing /\ S = DOMAIN CacheP
  <2>1. op = "sync" => DiskP'[Header] \in Headers /\ DiskP'[Header].len <= n
    BY Zenon, <1>2, <1>5 DEF Current, Complete, Finished, Mirrors
  <2>2. AtPrimary(n, s, d, m)'
    BY Zenon, <1>1, <1>3, <1>4, <1>5, <1>7, <2>1 DEF AtPrimary, memVars
  <2>3. InPrimary'
    BY Zenon, <1>2, <2>2 DEF InPrimary
  <2> QED  BY Zenon, <1>4, <1>7, <2>3, OnlyPrimary DEF PrimaryPCs
<1> QED
  BY Zenon, <1>4, <1>6, <1>7

LEMMA PrimaryFlush1Step == ASSUME IInv, PrimaryFlush1 PROVE IInv'
<1>1. /\ pc = "primaryFlush1" /\ FileFlush("primary", "primaryBody")
      /\ UNCHANGED <<memVars, op, history>> /\ pc \in PrimaryPCs /\ "primaryBody" \in PCs
      /\ TypeOK /\ op \in {"sync", "recover"}
  BY Zenon DEF PrimaryFlush1, PrimaryPCs, PCs, IInv, TypeOK
<1>2. PICK n \in Sectors, s \in 0 .. MaxTime, d \in SUBSET Sectors, m \in allowed :
               /\ n = len /\ s = timeStamp /\ d = dirty /\ m = Image(mem, len)
               /\ n = len' /\ s = timeStamp' /\ d = dirty' /\ m = Image(mem', len')
               /\ AtPrimary(n, s, d, m)
               /\ d \subseteq 1 .. n /\ 1 \in d /\ 1 .. n \subseteq Sectors
               /\ \A i \in 1 .. n : m[i] = mem[i] /\ m[i] \in Values
  BY Zenon, <1>1, PrimaryBegin DEF memVars
<1>3. /\ GoodLog(n, s, d, m) /\ open /\ Writing(n, s, d, m)
      /\ op = "recover" => Pending(n, s)
      /\ CacheP = [a \in {Header} |-> BaseBlock(n, s, FALSE)]
  BY Zenon, <1>1, <1>2 DEF AtPrimary
<1>4. PICK S \in SUBSET DOMAIN CacheP :
               /\ TypeOK' /\ Contained' /\ LoadSucceeds'
               /\ GoodLog(n, s, d, m)' /\ Writing(n, s, d, m)'
               /\ Pending(n, s) => Pending(n, s)'
               /\ \A a \in Addresses : DiskP'[a] = IF a \in S THEN CacheP[a] ELSE DiskP[a]
               /\ \/ pc' = "primaryBody" /\ CacheP' = Nothing /\ S = DOMAIN CacheP
                  \/ GiveUp /\ CacheP' = CacheP
  BY Zenon, <1>1, <1>2, <1>3, PrimaryFlushed
<1>5. DOMAIN CacheP = {Header} /\ CacheP[Header] = BaseBlock(n, s, FALSE)
  BY Zenon, <1>3
<1>6. CASE GiveUp /\ CacheP' = CacheP
  <2>1. Header \in DOMAIN CacheP' /\ open'
    BY Zenon, <1>1, <1>3, <1>5, <1>6 DEF memVars
  <2> QED  BY Zenon, <1>1, <1>2, <1>3, <1>4, <1>6, <2>1, PrimaryGivesUp DEF memVars
<1>7. CASE pc' = "primaryBody" /\ CacheP' = Nothing /\ S = DOMAIN CacheP
  <2>1. DiskP'[Header] = BaseBlock(n, s, FALSE)
    BY Zenon, <1>4, <1>5, <1>7, Consts
  <2>2. AtPrimary(n, s, d, m)'
    BY Zenon, <1>1, <1>3, <1>4, <1>7, <2>1 DEF AtPrimary, memVars
  <2>3. InPrimary'
    BY Zenon, <1>2, <2>2 DEF InPrimary
  <2> QED  BY Zenon, <1>4, <1>7, <2>3, OnlyPrimary DEF PrimaryPCs
<1> QED
  BY Zenon, <1>4, <1>6, <1>7

LEMMA PrimaryFlush2Step == ASSUME IInv, PrimaryFlush2 PROVE IInv'
<1>1. /\ pc = "primaryFlush2" /\ FileFlush("primary", "primaryHeader2")
      /\ UNCHANGED <<memVars, op, history>> /\ pc \in PrimaryPCs /\ "primaryHeader2" \in PCs
      /\ TypeOK /\ op \in {"sync", "recover"}
  BY Zenon DEF PrimaryFlush2, PrimaryPCs, PCs, IInv, TypeOK
<1>2. PICK n \in Sectors, s \in 0 .. MaxTime, d \in SUBSET Sectors, m \in allowed :
               /\ n = len /\ s = timeStamp /\ d = dirty /\ m = Image(mem, len)
               /\ n = len' /\ s = timeStamp' /\ d = dirty' /\ m = Image(mem', len')
               /\ AtPrimary(n, s, d, m)
               /\ d \subseteq 1 .. n /\ 1 \in d /\ 1 .. n \subseteq Sectors
               /\ \A i \in 1 .. n : m[i] = mem[i] /\ m[i] \in Values
  BY Zenon, <1>1, PrimaryBegin DEF memVars
<1>3. /\ GoodLog(n, s, d, m) /\ open /\ Writing(n, s, d, m)
      /\ DiskP[Header] = BaseBlock(n, s, FALSE) /\ Pending(n, s)
      /\ CacheP = [i \in d |-> Body(m, s, i)]
  BY Zenon, <1>1, <1>2 DEF AtPrimary, Pending
<1>4. PICK S \in SUBSET DOMAIN CacheP :
               /\ TypeOK' /\ Contained' /\ LoadSucceeds'
               /\ GoodLog(n, s, d, m)' /\ Writing(n, s, d, m)'
               /\ Pending(n, s) => Pending(n, s)'
               /\ \A a \in Addresses : DiskP'[a] = IF a \in S THEN CacheP[a] ELSE DiskP[a]
               /\ \/ pc' = "primaryHeader2" /\ CacheP' = Nothing /\ S = DOMAIN CacheP
                  \/ GiveUp /\ CacheP' = CacheP
  BY ZenonT(60), <1>1, <1>2, <1>3, PrimaryFlushed
<1>5. DOMAIN CacheP = d /\ \A i \in d : CacheP[i] = Body(m, s, i)
  BY Zenon, <1>3
<1>6. DiskP'[Header] = BaseBlock(n, s, FALSE)
  BY Zenon, <1>2, <1>3, <1>4, <1>5, Consts
<1>7. CASE GiveUp /\ CacheP' = CacheP
  BY Zenon, <1>1, <1>2, <1>3, <1>4, <1>6, <1>7, PrimaryGivesUp DEF memVars
<1>8. CASE pc' = "primaryHeader2" /\ CacheP' = Nothing /\ S = DOMAIN CacheP
  <2>1. \A i \in d : DiskP'[i] = Body(m, s, i)
    BY Zenon, <1>2, <1>4, <1>5, <1>8, Consts
  <2>2. AtPrimary(n, s, d, m)'
    BY ZenonT(60), <1>1, <1>3, <1>4, <1>6, <1>8, <2>1 DEF AtPrimary, memVars
  <2>3. InPrimary'
    BY Zenon, <1>2, <2>2 DEF InPrimary
  <2> QED  BY Zenon, <1>4, <1>8, <2>3, OnlyPrimary DEF PrimaryPCs
<1> QED
  BY Zenon, <1>4, <1>7, <1>8

(* What a write leaves in an empty cache.                                  *)
LEMMA WriteAlone ==
    ASSUME NEW w, NEW S, S \subseteq DOMAIN w
    PROVE  /\ DOMAIN Overlay(Part(w, S), Nothing) = S
           /\ \A a \in S : Overlay(Part(w, S), Nothing)[a] = w[a]
           /\ S = {} => Overlay(Part(w, S), Nothing) = Nothing
  BY DEF Overlay, Part, Nothing

LEMMA PrimaryHeaderStep == ASSUME IInv, PrimaryHeader PROVE IInv'
<1>1. /\ pc = "primaryHeader" /\ pc \in PrimaryPCs /\ TypeOK /\ Contained /\ LoadSucceeds
      /\ UNCHANGED <<mem, len, dirty, timeStamp, binStamp, op, history>>
      /\ op \in {"sync", "recover"}
  BY Zenon DEF PrimaryHeader, PrimaryPCs, IInv, TypeOK
<1>2. PICK n \in Sectors, s \in 0 .. MaxTime, d \in SUBSET Sectors, m \in allowed :
               /\ n = len /\ s = timeStamp /\ d = dirty /\ m = Image(mem, len)
               /\ n = len' /\ s = timeStamp' /\ d = dirty' /\ m = Image(mem', len')
               /\ AtPrimary(n, s, d, m)
               /\ d \subseteq 1 .. n /\ 1 \in d /\ 1 .. n \subseteq Sectors
               /\ \A i \in 1 .. n : m[i] = mem[i] /\ m[i] \in Values
  BY Zenon, <1>1, PrimaryBegin
<1>3. /\ GoodLog(n, s, d, m) /\ ~open /\ Writing(n, s, d, m) /\ CacheP = Nothing
      /\ op = "recover" => Pending(n, s)
      /\ op = "sync" => DiskP[Header] \in Headers /\ DiskP[Header].len <= n
      /\ op = "sync" => Current /\ Mirrors
  BY Zenon, <1>1, <1>2 DEF AtPrimary
<1> DEFINE w == [a \in {Header} |-> BaseBlock(n, s, FALSE)]
<1>4. open' = TRUE /\ baseLen' = n /\ FileWrite("primary", w, "primaryFlush1")
  BY Zenon, <1>2, <1>3 DEF PrimaryHeader
<1>5. /\ DOMAIN w = {Header} /\ DOMAIN w \subseteq Addresses
      /\ \A a \in DOMAIN w : w[a] = BaseBlock(n, s, FALSE)
  BY Zenon, Consts
<1>6. Overlay(w, Nothing) = w
  BY NothingFacts DEF Overlay
<1> HIDE DEF w
<1>7. /\ FilesOK' /\ DiskP' = DiskP /\ DiskL' = DiskL /\ CacheL' = CacheL
      /\ \/ pc' = "primaryFlush1" /\ CacheP' = w
         \/ GiveUp /\ \E S \in SUBSET DOMAIN w : CacheP' = Overlay(Part(w, S), Nothing)
  BY Zenon, <1>1, <1>3, <1>4, <1>5, <1>6, TypeFacts, PrimaryWrite
<1>8. /\ DOMAIN CacheP' \subseteq {Header}
      /\ Header \in DOMAIN CacheP' => CacheP'[Header] = BaseBlock(n, s, FALSE)
      /\ CacheP' = Nothing \/ Header \in DOMAIN CacheP'
  <2>1. CASE CacheP' = w
    BY Zenon, <1>5, <2>1
  <2>2. ASSUME NEW S \in SUBSET DOMAIN w, CacheP' = Overlay(Part(w, S), Nothing)
        PROVE  /\ DOMAIN CacheP' \subseteq {Header}
               /\ Header \in DOMAIN CacheP' => CacheP'[Header] = BaseBlock(n, s, FALSE)
               /\ CacheP' = Nothing \/ Header \in DOMAIN CacheP'
    <3>1. DOMAIN CacheP' = S /\ (\A a \in S : CacheP'[a] = w[a]) /\ (S = {} => CacheP' = Nothing)
      BY Zenon, <2>2, WriteAlone
    <3>2. S = {} \/ S = {Header}
      BY <1>5
    <3> QED  BY <1>5, <3>1, <3>2
  <2> QED  BY Zenon, <1>7, <2>1, <2>2
<1>9. TypeOK' /\ Contained' /\ LoadSucceeds'
  <2>1. pc' \in PCs
    BY Zenon, <1>7 DEF GiveUp, PCs
  <2>2. baseLen' \in 0 .. len'
    BY <1>2, <1>4 DEF Sectors
  <2>3. TypeOK'
    BY Zenon, <1>1, <1>4, <1>7, <2>1, <2>2 DEF TypeOK, FilesOK, history
  <2> QED  BY Zenon, <1>1, <1>7, <1>8, <2>3, Consts DEF Contained, LoadSucceeds, history
<1>10. GoodLog(n, s, d, m)'
  BY Zenon, <1>1, <1>3, <1>7, GoodLogStays DEF GoodLog, history
<1>11. Writing(n, s, d, m)'
  <2>1. /\ \/ DiskP'[Header] = BaseBlock(n, s, FALSE)
           \/ DiskP'[Header] = Torn /\ (tornFirst' \/ (DiskP'[1] \in SectorRecs /\ DiskP'[1].stamp = s))
           \/ Finished'
        /\ Remain(n, d, m)'
    BY Zenon, <1>1, <1>3, <1>7, FinishedStays DEF Writing, Remain, history
  <2>2. Header \notin d
    BY Zenon, <1>2, Consts
  <2> QED  BY Zenon, <1>8, <2>1, <2>2 DEF Writing
<1>12. op = "recover" => Pending(n, s)'
  BY Zenon, <1>3, <1>7 DEF Pending
<1>13. CASE GiveUp
  <2>1. ASSUME op = "sync", Header \notin DOMAIN CacheP' PROVE Current' /\ Mirrors'
    <3>1. CacheP' = Nothing /\ synced \in allowed'
      BY Zenon, <1>1, <1>3, <1>8, <2>1 DEF Current, Complete, Finished, history
    <3> QED  BY Zenon, <1>1, <1>3, <1>7, <2>1, <3>1, CurrentStays, MirrorsStays DEF history
  <2>2. \A i \in 1 .. n : m[i] = mem'[i]
    BY Zenon, <1>1, <1>2
  <2> QED  BY Zenon, <1>1, <1>2, <1>4, <1>9, <1>10, <1>11, <1>12, <1>13, <2>1, <2>2, PrimaryGivesUp
<1>14. CASE pc' = "primaryFlush1" /\ CacheP' = w
  <2>1. op = "sync" => DiskP'[Header] \in Headers /\ DiskP'[Header].len <= n
    BY Zenon, <1>3, <1>7
  <2>2. CacheP' = [a \in {Header} |-> BaseBlock(n, s, FALSE)]
    BY Zenon, <1>14 DEF w
  <2>3. AtPrimary(n, s, d, m)'
    BY Zenon, <1>1, <1>4, <1>10, <1>11, <1>12, <1>14, <2>1, <2>2 DEF AtPrimary
  <2>4. InPrimary'
    BY Zenon, <1>2, <2>3 DEF InPrimary
  <2> QED  BY Zenon, <1>9, <1>14, <2>4, OnlyPrimary DEF PrimaryPCs
<1> QED
  BY Zenon, <1>7, <1>13, <1>14

LEMMA PrimaryBodyStep == ASSUME IInv, PrimaryBody PROVE IInv'
<1>1. /\ pc = "primaryBody" /\ pc \in PrimaryPCs /\ TypeOK /\ Contained /\ LoadSucceeds
      /\ UNCHANGED <<mem, len, dirty, open, baseLen, timeStamp, op, history>>
      /\ op \in {"sync", "recover"} /\ binStamp' = timeStamp
      /\ FileWrite("primary", [i \in dirty |-> Contents(i, timeStamp)], "primaryFlush2")
  BY Zenon DEF PrimaryBody, PrimaryPCs, IInv, TypeOK
<1>2. PICK n \in Sectors, s \in 0 .. MaxTime, d \in SUBSET Sectors, m \in allowed :
               /\ n = len /\ s = timeStamp /\ d = dirty /\ m = Image(mem, len)
               /\ n = len' /\ s = timeStamp' /\ d = dirty' /\ m = Image(mem', len')
               /\ AtPrimary(n, s, d, m)
               /\ d \subseteq 1 .. n /\ 1 \in d /\ 1 .. n \subseteq Sectors
               /\ \A i \in 1 .. n : m[i] = mem[i] /\ m[i] \in Values
  BY Zenon, <1>1, PrimaryBegin
<1>3. /\ GoodLog(n, s, d, m) /\ open /\ Writing(n, s, d, m) /\ CacheP = Nothing
      /\ DiskP[Header] = BaseBlock(n, s, FALSE)
  BY Zenon, <1>1, <1>2 DEF AtPrimary
<1> DEFINE w == [i \in d |-> Body(m, s, i)]
<1>4. FileWrite("primary", w, "primaryFlush2")
  <2>1. \A i \in d : Contents(i, s) = Body(m, s, i)
    BY <1>2 DEF Contents, Body
  <2>2. [i \in dirty |-> Contents(i, timeStamp)] = w
    BY <1>2, <2>1
  <2> QED  BY Zenon, <1>1, <2>2
<1>5. /\ DOMAIN w = d /\ DOMAIN w \subseteq Addresses
      /\ \A a \in DOMAIN w : w[a] = Body(m, s, a)
  BY Zenon, <1>2, Consts
<1>6. Overlay(w, Nothing) = w
  BY NothingFacts DEF Overlay
<1> HIDE DEF w
<1>7. /\ FilesOK' /\ DiskP' = DiskP /\ DiskL' = DiskL /\ CacheL' = CacheL
      /\ \/ pc' = "primaryFlush2" /\ CacheP' = w
         \/ GiveUp /\ \E S \in SUBSET DOMAIN w : CacheP' = Overlay(Part(w, S), Nothing)
  BY Zenon, <1>1, <1>3, <1>4, <1>5, <1>6, TypeFacts, PrimaryWrite
<1>8. DOMAIN CacheP' \subseteq d /\ \A i \in DOMAIN CacheP' : CacheP'[i] = Body(m, s, i)
  <2>1. CASE CacheP' = w
    BY Zenon, <1>5, <2>1
  <2>2. ASSUME NEW S \in SUBSET DOMAIN w, CacheP' = Overlay(Part(w, S), Nothing)
        PROVE  DOMAIN CacheP' \subseteq d /\ \A i \in DOMAIN CacheP' : CacheP'[i] = Body(m, s, i)
    <3>1. DOMAIN CacheP' = S /\ (\A a \in S : CacheP'[a] = w[a])
      BY Zenon, <2>2, WriteAlone
    <3> QED  BY Zenon, <1>5, <3>1
  <2> QED  BY Zenon, <1>7, <2>1, <2>2
<1>9. TypeOK' /\ Contained' /\ LoadSucceeds'
  <2>1. pc' \in PCs
    BY Zenon, <1>7 DEF GiveUp, PCs
  <2>2. TypeOK'
    BY Zenon, <1>1, <1>7, <2>1 DEF TypeOK, FilesOK, history
  <2>3. \A i \in d : Body(m, s, i) \in SectorRecs
    BY ZenonT(60), <1>2, BodyFacts DEF Body
  <2> QED  BY Zenon, <1>1, <1>7, <1>8, <2>2, <2>3 DEF Contained, LoadSucceeds, history
<1>10. GoodLog(n, s, d, m)'
  BY Zenon, <1>1, <1>3, <1>7, GoodLogStays DEF GoodLog, history
<1>11. Writing(n, s, d, m)' /\ DiskP'[Header] = BaseBlock(n, s, FALSE)
  <2>1. DiskP'[Header] = BaseBlock(n, s, FALSE) /\ Remain(n, d, m)'
    BY Zenon, <1>3, <1>7 DEF Writing, Remain
  <2>2. Header \notin d
    BY Zenon, <1>2, Consts
  <2> QED  BY Zenon, <1>8, <2>1, <2>2 DEF Writing
<1>12. Pending(n, s)'
  BY Zenon, <1>11 DEF Pending
<1>13. CASE GiveUp
  <2>1. \A i \in 1 .. n : m[i] = mem'[i]
    BY Zenon, <1>1, <1>2
  <2> QED  BY Zenon, <1>1, <1>2, <1>3, <1>9, <1>10, <1>11, <1>12, <1>13, <2>1, PrimaryGivesUp
<1>14. CASE pc' = "primaryFlush2" /\ CacheP' = w
  <2>1. CacheP' = [i \in d |-> Body(m, s, i)]
    BY Zenon, <1>14 DEF w
  <2>2. AtPrimary(n, s, d, m)'
    BY Zenon, <1>1, <1>3, <1>10, <1>11, <1>14, <2>1 DEF AtPrimary
  <2>3. InPrimary'
    BY Zenon, <1>2, <2>2 DEF InPrimary
  <2> QED  BY Zenon, <1>9, <1>14, <2>3, OnlyPrimary DEF PrimaryPCs
<1> QED
  BY Zenon, <1>7, <1>13, <1>14

LEMMA PrimaryHeader2Step == ASSUME Completes, IInv, PrimaryHeader2 PROVE IInv'
<1>1. /\ pc = "primaryHeader2" /\ pc \in PrimaryPCs /\ TypeOK /\ Contained /\ LoadSucceeds
      /\ UNCHANGED <<mem, len, dirty, baseLen, timeStamp, binStamp, op, history>> /\ open' = FALSE
      /\ pc \notin FailPoints
  BY Zenon DEF PrimaryHeader2, PrimaryPCs, IInv, TypeOK, Completes
<1>2. PICK n \in Sectors, s \in 0 .. MaxTime, d \in SUBSET Sectors, m \in allowed :
               /\ n = len /\ s = timeStamp /\ d = dirty /\ m = Image(mem, len)
               /\ n = len' /\ s = timeStamp' /\ d = dirty' /\ m = Image(mem', len')
               /\ AtPrimary(n, s, d, m)
               /\ d \subseteq 1 .. n /\ 1 \in d /\ 1 .. n \subseteq Sectors
               /\ \A i \in 1 .. n : m[i] = mem[i] /\ m[i] \in Values
  BY Zenon, <1>1, PrimaryBegin
<1>3. /\ GoodLog(n, s, d, m) /\ Remain(n, d, m) /\ CacheP = Nothing
      /\ DiskP[Header] = BaseBlock(n, s, FALSE)
      /\ \A i \in d : DiskP[i] = Body(m, s, i)
  BY Zenon, <1>1, <1>2 DEF AtPrimary, Writing
<1> DEFINE w == [a \in {Header} |-> BaseBlock(n, s, TRUE)]
<1>4. FileWrite("primary", w, "primaryFlush3")
  BY Zenon, <1>2 DEF PrimaryHeader2
<1>5. DOMAIN w = {Header} /\ DOMAIN w \subseteq Addresses
  BY Zenon, Consts
<1>6. Overlay(w, Nothing) = w
  BY NothingFacts DEF Overlay
<1> HIDE DEF w
<1>7. /\ FilesOK' /\ DiskP' = DiskP /\ DiskL' = DiskL /\ CacheL' = CacheL
      /\ pc' = "primaryFlush3" /\ CacheP' = w
  BY Zenon, <1>1, <1>3, <1>4, <1>5, <1>6, TypeFacts, PrimaryWrite
<1>8. TypeOK' /\ Contained' /\ LoadSucceeds'
  <2>1. TypeOK'
    BY Zenon, <1>1, <1>7 DEF TypeOK, FilesOK, history, PCs
  <2>2. \A i \in Sectors : i \notin DOMAIN CacheP'
    BY Zenon, <1>5, <1>7, Consts
  <2> QED  BY Zenon, <1>1, <1>7, <2>1, <2>2 DEF Contained, LoadSucceeds, history
<1>9. GoodLog(n, s, d, m)' /\ Remain(n, d, m)'
  BY Zenon, <1>1, <1>3, <1>7, GoodLogStays DEF GoodLog, Remain, history
<1>10. CacheP' = [a \in {Header} |-> BaseBlock(n, s, TRUE)]
  BY Zenon, <1>7 DEF w
<1>11. AtPrimary(n, s, d, m)'
  BY Zenon, <1>1, <1>3, <1>7, <1>9, <1>10 DEF AtPrimary
<1>12. InPrimary'
  BY Zenon, <1>2, <1>11 DEF InPrimary
<1> QED
  BY Zenon, <1>7, <1>8, <1>12, OnlyPrimary DEF PrimaryPCs

(* A primary file that has the sectors of m, and says so.                  *)
LEMMA FileHas ==
    ASSUME NEW n \in Sectors, NEW s \in 0 .. MaxTime, NEW d \in SUBSET Sectors, NEW m,
           m \in [1 .. n -> Values], m \in allowed',
           DiskP'[Header] = BaseBlock(n, s, TRUE),
           \A i \in 1 .. n : Holds(DiskP'[i], m[i])
    PROVE  Finished' /\ FileImage' = m
<1>1. DiskP'[Header] \in Headers /\ DiskP'[Header].done /\ DiskP'[Header].len = n
  <2>1. /\ BaseBlock(n, s, TRUE) \in Headers /\ BaseBlock(n, s, TRUE).done
        /\ BaseBlock(n, s, TRUE).len = n
    BY Zenon, BlockFacts
  <2> QED  BY <2>1
<1>2. FileImage' = m
  BY <1>1 DEF FileImage, Holds
<1> QED
  BY Zenon, <1>1, <1>2 DEF Finished, Holds

(* The sectors that were in the log and those that were not make up m.     *)
LEMMA AllThere ==
    ASSUME NEW n \in Sectors, NEW s \in 0 .. MaxTime, NEW d \in SUBSET Sectors, NEW m,
           \A i \in 1 .. n : m[i] \in Values, d \subseteq 1 .. n, Remain(n, d, m),
           \A i \in d : DiskP[i] = Body(m, s, i)
    PROVE  \A i \in 1 .. n : Holds(DiskP[i], m[i])
<1> SUFFICES ASSUME NEW i \in 1 .. n PROVE Holds(DiskP[i], m[i])
  OBVIOUS
<1>1. CASE i \in d
  <2>1. Body(m, s, i) \in SectorRecs /\ Body(m, s, i).val = m[i]
    BY Zenon, BodyFacts DEF Body
  <2> QED  BY Zenon, <1>1, <2>1 DEF Holds
<1>2. CASE i \notin d
  BY Zenon, <1>2 DEF Remain
<1> QED
  BY Zenon, <1>1, <1>2

LEMMA PrimaryFlush3Step == ASSUME Completes, IInv, PrimaryFlush3 PROVE IInv'
<1>1. /\ pc = "primaryFlush3" /\ pc \in PrimaryPCs /\ TypeOK /\ Contained /\ LoadSucceeds
      /\ UNCHANGED <<memVars, op, tornFirst, corrupt>>
      /\ pc \notin FailPoints /\ FileFlush("primary", "shrinkLog")
  BY Zenon DEF PrimaryFlush3, PrimaryPCs, IInv, TypeOK, Completes
<1>2. PICK n \in Sectors, s \in 0 .. MaxTime, d \in SUBSET Sectors, m \in allowed :
               /\ n = len /\ s = timeStamp /\ d = dirty /\ m = Image(mem, len)
               /\ n = len' /\ s = timeStamp' /\ d = dirty' /\ m = Image(mem', len')
               /\ AtPrimary(n, s, d, m)
               /\ d \subseteq 1 .. n /\ 1 \in d /\ 1 .. n \subseteq Sectors
               /\ \A i \in 1 .. n : m[i] = mem[i] /\ m[i] \in Values
  BY Zenon, <1>1, PrimaryBegin DEF memVars
<1>3. /\ m \in [1 .. n -> Values] /\ Remain(n, d, m) /\ ~open
      /\ \A i \in d : DiskP[i] = Body(m, s, i)
      /\ CacheP = [a \in {Header} |-> BaseBlock(n, s, TRUE)]
  BY Zenon, <1>1, <1>2 DEF AtPrimary, GoodLog
<1>4. /\ FilesOK' /\ pc' = "shrinkLog" /\ CacheP' = Nothing /\ DiskP' = Overlay(CacheP, DiskP)
  BY Zenon, <1>1, TypeFacts, PrimaryFlush
<1>5. synced' = m /\ allowed' = {m}
  BY Zenon, <1>2, <1>4 DEF PrimaryFlush3
<1>6. /\ DiskP'[Header] = BaseBlock(n, s, TRUE)
      /\ \A a \in Sectors : DiskP'[a] = DiskP[a]
  <2>1. DOMAIN CacheP = {Header} /\ CacheP[Header] = BaseBlock(n, s, TRUE)
    BY Zenon, <1>3
  <2>2. DOMAIN DiskP = Addresses
    BY Zenon, <1>1, TypeFacts DEF FilesOK, DiskP, Files
  <2>3. \A a \in Addresses : DiskP'[a] = IF a \in DOMAIN CacheP THEN CacheP[a] ELSE DiskP[a]
    BY <1>4, <2>2 DEF Overlay
  <2> QED  BY Zenon, <2>1, <2>3, Consts
<1>7. \A i \in 1 .. n : Holds(DiskP[i], m[i])
  BY Zenon, <1>2, <1>3, AllThere
<1>8. \A i \in 1 .. n : Holds(DiskP'[i], m[i])
  BY Zenon, <1>2, <1>6, <1>7
<1>9. Finished' /\ FileImage' = m
  <2>1. m \in allowed'
    BY Zenon, <1>5
  <2> QED  BY Zenon, <1>2, <1>3, <1>6, <1>8, <2>1, FileHas
<1>10. Current'
  BY Zenon, <1>4, <1>5, <1>9 DEF Current, Complete
<1>11. \A i \in 1 .. n : DiskP'[i].val = mem'[i]
  BY Zenon, <1>1, <1>2, <1>8 DEF Holds, memVars
<1>12. Shrinking'
  BY Zenon, <1>1, <1>2, <1>3, <1>6, <1>10, <1>11 DEF Shrinking, memVars
<1>13. TypeOK'
  BY Zenon, <1>1, <1>4 DEF TypeOK, FilesOK, memVars, PCs
<1>14. Contained' /\ LoadSucceeds'
  <2>1. \A i \in Sectors : i \notin DOMAIN CacheP'
    BY Zenon, <1>4, NothingFacts
  <2> QED  BY Zenon, <1>1, <1>6, <2>1 DEF Contained, LoadSucceeds
<1> QED
  BY Zenon, <1>4, <1>12, <1>13, <1>14, OnlyShrinking

(* HvSyncHive ends with a clean hive.                                      *)
LEMMA ShrinkLogStep == ASSUME IInv, ShrinkLog PROVE IInv'
<1>1. /\ pc = "shrinkLog" /\ TypeOK /\ Contained /\ LoadSucceeds /\ FilesOK
      /\ Current /\ ~open /\ DiskP[Header] = BaseBlock(len, timeStamp, TRUE)
      /\ \A i \in 1 .. len : DiskP[i].val = mem[i]
      /\ dirty' = {} /\ pc' = "idle"
      /\ UNCHANGED <<mem, len, open, baseLen, timeStamp, binStamp, op, history>>
  BY Zenon, TypeFacts DEF ShrinkLog, IInv, Shrinking
<1>2. FilesOK' /\ DiskP' = DiskP /\ CacheP' = CacheP
  <2>1. PICK kept : /\ disk' = [disk EXCEPT !["log"] = [a \in Addresses |-> IF a \in kept THEN @[a] ELSE Torn]]
                    /\ cache' = [cache EXCEPT !["log"] = Part(@, DOMAIN @ \cap kept)]
    BY DEF ShrinkLog
  <2>2. /\ DOMAIN disk' = Files /\ disk'["primary"] = disk["primary"]
        /\ DOMAIN disk'["log"] = Addresses
    BY <1>1, <2>1 DEF FilesOK, Files
  <2>3. /\ DOMAIN cache' = Files /\ cache'["primary"] = cache["primary"]
        /\ DOMAIN cache'["log"] \subseteq DOMAIN cache["log"]
    BY <1>1, <2>1 DEF FilesOK, Files, Part
  <2> QED  BY <1>1, <2>2, <2>3 DEF FilesOK, Files, DiskP, CacheP
<1>3. TypeOK'
  BY Zenon, <1>1, <1>2 DEF TypeOK, FilesOK, PCs, history
<1>4. Contained' /\ LoadSucceeds'
  BY Zenon, <1>1, <1>2 DEF Contained, LoadSucceeds, history
<1>5. Current'
  <2>1. CacheP' = Nothing /\ synced \in allowed'
    BY Zenon, <1>1, <1>2 DEF Current, Complete, Finished, history
  <2> QED  BY Zenon, <1>1, <1>2, <2>1, CurrentStays DEF history
<1>6. DiskP[Header] \in Headers /\ DiskP[Header].len = len
  <2>1. DiskP[Header] \in Headers
    BY Zenon, <1>1 DEF Current, Complete, Finished
  <2> QED  BY <1>1, <2>1 DEF BaseBlock
<1>7. Mirrors'
  <2>1. len <= len /\ \A i \in 1 .. len : i <= len
    BY <1>1, TypeFacts
  <2>2. \A i \in 1 .. len : DiskP[i] \in SectorRecs
    BY Zenon, <1>1, <1>6 DEF Current, Complete, Finished
  <2>3. \A i \in 1 .. len : mem[i] \in Values
    BY <1>1, <2>2 DEF SectorRecs
  <2> QED  BY Zenon, <1>1, <1>2, <1>6, <2>1, <2>3 DEF Mirrors
<1>8. AtRest'
  BY Zenon, <1>1, <1>2, <1>5, <1>7, Tracks DEF AtRest
<1> QED
  BY Zenon, <1>1, <1>3, <1>4, <1>8, OnlyRest

-----------------------------------------------------------------------------
(* Changes in memory, and the abort of a transaction.                      *)
LEMMA FilesSame ==
    ASSUME UNCHANGED <<disk, cache>>
    PROVE  DiskP' = DiskP /\ CacheP' = CacheP /\ DiskL' = DiskL /\ CacheL' = CacheL
  BY Zenon DEF DiskP, CacheP, DiskL, CacheL

(* Sector i, which may be the next one, is written and marked dirty.       *)
LEMMA Touch ==
    ASSUME IInv, pc = "idle", NEW i \in Sectors, NEW v \in Values,
           mem' = [mem EXCEPT ![i] = v], MarkDirty(i), len' \in 0 .. MaxLength, len <= len',
           i \in 1 .. len', \A j \in 1 .. len' : j = i \/ j \in 1 .. len,
           UNCHANGED <<diskVars, open, baseLen, timeStamp, binStamp, pc, op, history>>
    PROVE  IInv'
<1>1. /\ TypeOK /\ Contained /\ LoadSucceeds
      /\ dirty # {} => 1 \in dirty
      /\ \A j \in 1 .. len : j \notin dirty => Val(Primary(j)) = mem[j]
      /\ ~open => Current /\ Mirrors
      /\ open => (Current /\ DiskP[Header].len <= len) \/ Interrupted
  BY Zenon DEF IInv, AtRest
<1>2. DiskP' = DiskP /\ CacheP' = CacheP /\ DiskL' = DiskL /\ CacheL' = CacheL
  BY Zenon, FilesSame DEF diskVars
<1>3. /\ i \in dirty' /\ 1 \in dirty' /\ dirty \subseteq dirty'
      /\ dirty' \subseteq dirty \cup {i, 1}
  BY <1>1 DEF MarkDirty
<1>4. mem'[i] = v /\ (\A j \in Sectors : j # i => mem'[j] = mem[j])
      /\ mem' \in [Sectors -> Values \cup {Torn}]
  BY <1>1 DEF TypeOK
<1>5. len \in Int /\ len' \in Int /\ 1 .. len \subseteq Sectors /\ 1 .. len' \subseteq Sectors
      /\ 1 \in 1 .. len' /\ 1 .. len \subseteq 1 .. len'
  BY <1>1, TypeFacts, ConstantsAssumption DEF Sectors
<1>6. TypeOK'
  <2>1. dirty' \subseteq 1 .. len'
    BY Zenon, <1>1, <1>3, <1>5 DEF TypeOK
  <2>2. baseLen' \in 0 .. len'
    BY <1>1, <1>5 DEF TypeOK
  <2> QED  BY Zenon, <1>1, <1>4, <2>1, <2>2 DEF TypeOK, diskVars, history
<1>7. Contained' /\ LoadSucceeds'
  BY Zenon, <1>1, <1>2 DEF Contained, LoadSucceeds, history
<1>8. ASSUME NEW j \in 1 .. len', j \notin dirty' PROVE Val(Primary(j))' = mem'[j]
  <2>1. j # i /\ j \in 1 .. len /\ j \notin dirty /\ j \in Sectors
    BY Zenon, <1>3, <1>5, <1>8
  <2>2. Primary(j)' = Primary(j)
    BY Zenon, <1>2 DEF Primary
  <2> QED  BY Zenon, <1>1, <1>4, <2>1, <2>2
<1>9. ASSUME ~open PROVE Current' /\ Mirrors'
  <2>1. Current'
    <3>1. CacheP' = Nothing /\ synced \in allowed'
      BY Zenon, <1>1, <1>2, <1>9 DEF Current, Complete, Finished, history
    <3> QED  BY Zenon, <1>1, <1>2, <1>9, <3>1, CurrentStays DEF history
  <2>2. DiskP[Header].len \in Int /\ DiskP[Header].len <= len
    BY <1>1, <1>9 DEF Mirrors, Current, Complete, Finished, Headers, Sectors
  <2>3. DiskP'[Header].len <= len'
    BY <1>2, <1>5, <2>2
  <2>4. ASSUME NEW j \in 1 .. len'
        PROVE  /\ mem'[j] \in Values
               /\ j \notin dirty' => j <= DiskP'[Header].len /\ DiskP'[j].val = mem'[j]
    <3>1. CASE j = i
      BY Zenon, <1>3, <1>4, <3>1
    <3>2. CASE j # i
      <4>1. j \in 1 .. len /\ j \in Sectors
        BY Zenon, <1>5, <3>2
      <4> QED  BY Zenon, <1>1, <1>2, <1>3, <1>4, <1>9, <3>2, <4>1 DEF Mirrors
    <3> QED  BY Zenon, <3>1, <3>2
  <2> QED  BY Zenon, <2>1, <2>3, <2>4 DEF Mirrors
<1>10. ASSUME open PROVE (Current /\ DiskP[Header].len <= len)' \/ Interrupted'
  <2>1. Current => DiskP[Header].len \in Int
    BY DEF Current, Complete, Finished, Headers, Sectors
  <2> QED  BY Zenon, <1>1, <1>5, <1>10, <2>1, Undisturbed DEF diskVars, history
<1>11. AtRest'
  BY Zenon, <1>3, <1>8, <1>9, <1>10 DEF AtRest
<1> QED
  BY Zenon, <1>6, <1>7, <1>11, OnlyRest

LEMMA ModifyStep == ASSUME IInv, NEW i \in Sectors, NEW v \in Values, Modify(i, v) PROVE IInv'
<1>1. /\ pc = "idle" /\ i <= len /\ mem' = [mem EXCEPT ![i] = v] /\ MarkDirty(i)
      /\ UNCHANGED <<diskVars, len, open, baseLen, timeStamp, binStamp, pc, op, history>>
  BY Zenon DEF Modify
<1>2. len \in 0 .. MaxLength
  BY Zenon DEF IInv, TypeOK
<1>3. len' \in 0 .. MaxLength /\ len <= len' /\ i \in 1 .. len'
      /\ \A j \in 1 .. len' : j = i \/ j \in 1 .. len
  BY <1>1, <1>2 DEF Sectors
<1> QED
  BY Zenon, <1>1, <1>3, Touch

LEMMA AddBinStep == ASSUME IInv, NEW v \in Values, AddBin(v) PROVE IInv'
<1>1. /\ pc = "idle" /\ len < MaxLength /\ len' = len + 1
      /\ mem' = [mem EXCEPT ![len + 1] = v] /\ MarkDirty(len + 1)
      /\ UNCHANGED <<diskVars, open, baseLen, timeStamp, binStamp, pc, op, history>>
  BY Zenon DEF AddBin
<1>2. len \in 0 .. MaxLength
  BY Zenon DEF IInv, TypeOK
<1>3. len' \in 0 .. MaxLength /\ len <= len' /\ len + 1 \in 1 .. len' /\ len + 1 \in Sectors
      /\ \A j \in 1 .. len' : j = len + 1 \/ j \in 1 .. len
  BY <1>1, <1>2, ConstantsAssumption DEF Sectors
<1>4. PICK i : i = len + 1
  BY Zenon
<1> QED
  BY Zenon, <1>1, <1>3, <1>4, Touch

LEMMA SyncHiveStep == ASSUME IInv, SyncHive PROVE IInv'
<1>1. /\ TypeOK /\ Contained /\ LoadSucceeds /\ AtRest /\ pc = "idle" /\ dirty # {}
      /\ op' = "sync" /\ pc' = "logHeader" /\ UNCHANGED <<diskVars, memVars, history>>
  BY Zenon DEF IInv, SyncHive
<1>2. /\ 1 \in dirty
      /\ \A i \in 1 .. len : i \notin dirty => Val(Primary(i)) = mem[i]
      /\ ~open => Current /\ Mirrors
      /\ open => (Current /\ DiskP[Header].len <= len) \/ Interrupted
  BY Zenon, <1>1 DEF AtRest
<1>3. DiskP' = DiskP /\ CacheP' = CacheP /\ DiskL' = DiskL /\ CacheL' = CacheL
  BY Zenon, <1>1, FilesSame DEF diskVars
<1>4. TypeOK' /\ Contained' /\ LoadSucceeds'
  BY Zenon, <1>1, <1>3 DEF TypeOK, Contained, LoadSucceeds, PCs, diskVars, memVars, history
<1>5. ASSUME ~open PROVE Current' /\ Mirrors'
  <2>1. CacheP' = Nothing /\ synced \in allowed'
    BY Zenon, <1>1, <1>2, <1>3, <1>5 DEF Current, Complete, Finished, history
  <2> QED  BY Zenon, <1>1, <1>2, <1>3, <1>5, <2>1, CurrentStays, MirrorsStays DEF memVars, history
<1>6. ASSUME open PROVE (Current /\ DiskP[Header].len <= len)' \/ Interrupted'
  <2>1. Current => DiskP[Header].len \in Int
    BY DEF Current, Complete, Finished, Headers, Sectors
  <2>2. len \in Int /\ len' \in Int /\ len <= len'
    BY <1>1, TypeFacts DEF memVars
  <2> QED  BY Zenon, <1>1, <1>2, <1>6, <2>1, <2>2, Undisturbed DEF diskVars, history
<1>7. \A i \in 1 .. len' : i \notin dirty' => Val(Primary(i))' = mem'[i]
  BY Zenon, <1>1, <1>2, <1>3 DEF Primary, memVars, Val
<1>8. AtRest'
  BY Zenon, <1>1, <1>2, <1>5, <1>6, <1>7 DEF AtRest, memVars
<1> QED
  BY Zenon, <1>1, <1>4, <1>8, OnlyRest

LEMMA OnFileFacts ==
    ASSUME FilesOK
    PROVE  /\ \A a \in Addresses : OnFile("primary")[a] = Primary(a)
           /\ CacheL = Nothing => \A a \in Addresses : OnFile("log")[a] = DiskL[a]
<1>1. DOMAIN DiskP = Addresses /\ DOMAIN DiskL = Addresses
  BY Zenon DEF FilesOK, DiskP, DiskL, Files
<1>2. \A a \in Addresses : OnFile("primary")[a] = Primary(a)
  BY <1>1 DEF OnFile, Overlay, Primary, DiskP, CacheP
<1>3. ASSUME CacheL = Nothing PROVE \A a \in Addresses : OnFile("log")[a] = DiskL[a]
  <2>1. DOMAIN CacheL = {}
    BY Zenon, <1>3, NothingFacts
  <2> QED  BY <1>1, <2>1 DEF OnFile, Overlay, DiskL, CacheL
<1> QED
  BY Zenon, <1>2, <1>3

LEMMA PrimaryTyped ==
    ASSUME Contained
    PROVE  \A i \in Sectors : /\ Primary(i) \in SectorRecs \cup {Torn}
                              /\ Val(Primary(i)) \in Values \cup {Torn}
                              /\ Primary(i) # Torn => Primary(i).stamp \in 0 .. MaxTime
<1> SUFFICES ASSUME NEW i \in Sectors
             PROVE  /\ Primary(i) \in SectorRecs \cup {Torn}
                    /\ Val(Primary(i)) \in Values \cup {Torn}
                    /\ Primary(i) # Torn => Primary(i).stamp \in 0 .. MaxTime
  OBVIOUS
<1>1. Primary(i) \in SectorRecs \cup {Torn}
  BY Zenon DEF Contained, Primary
<1>2. \A x \in SectorRecs : x.val \in Values /\ x.stamp \in 0 .. MaxTime
  BY DEF SectorRecs
<1> QED
  BY Zenon, <1>1, <1>2 DEF Val

(* What HvRefreshHive does, in terms of the primary file.                  *)
LEMMA RefreshFacts ==
    ASSUME IInv, RefreshHive, NEW h, h = Primary(Header), h \in Headers, h.len <= len
    PROVE  /\ TypeOK' /\ Contained' /\ LoadSucceeds' /\ pc' = "idle"
           /\ UNCHANGED <<disk, cache, op, synced, tornFirst>>
           /\ DiskP' = DiskP /\ CacheP' = CacheP /\ DiskL' = DiskL /\ CacheL' = CacheL
           /\ len' = h.len /\ timeStamp' = h.stamp /\ open' = ~h.done /\ dirty' = {}
           /\ allowed' = IF h.done THEN {synced} ELSE allowed
           /\ \A i \in 1 .. h.len : Val(Primary(i)) = mem'[i]
           /\ \A i \in 1 .. h.len : i \in 1 .. len /\ i \in Sectors
<1>1. /\ TypeOK /\ FilesOK /\ Contained /\ LoadSucceeds /\ AtRest /\ pc = "idle"
      /\ \A i \in 1 .. len : i \notin dirty => Val(Primary(i)) = mem[i]
  BY Zenon, TypeFacts DEF IInv, RefreshHive, AtRest
<1>2. OnFile("primary")[Header] = h /\ \A i \in Sectors : OnFile("primary")[i] = Primary(i)
  BY Zenon, <1>1, OnFileFacts, Consts
<1>3. /\ mem' = [i \in Sectors |-> IF i > h.len THEN Torn
                                 ELSE IF i \in dirty THEN Val(OnFile("primary")[i]) ELSE mem[i]]
      /\ binStamp' = IF OnFile("primary")[1] = Torn THEN 0 ELSE OnFile("primary")[1].stamp
      /\ dirty' = {} /\ len' = h.len /\ baseLen' = h.len /\ timeStamp' = h.stamp
      /\ open' = ~h.done /\ allowed' = (IF h.done THEN {synced} ELSE allowed)
      /\ UNCHANGED <<diskVars, pc, op, synced, tornFirst, corrupt>>
  BY <1>2 DEF RefreshHive, Reread
<1>4. h.len \in Sectors /\ h.stamp \in 0 .. MaxTime /\ h.done \in BOOLEAN
  BY DEF Headers
<1>5. DiskP' = DiskP /\ CacheP' = CacheP /\ DiskL' = DiskL /\ CacheL' = CacheL
  BY Zenon, <1>3, FilesSame DEF diskVars
<1>6. /\ mem' \in [Sectors -> Values \cup {Torn}]
  <2>1. \A i \in Sectors : Val(OnFile("primary")[i]) \in Values \cup {Torn}
    BY Zenon, <1>1, <1>2, PrimaryTyped
  <2>2. \A i \in Sectors : mem[i] \in Values \cup {Torn}
    BY <1>1 DEF TypeOK
  <2> QED  BY <1>3, <2>1, <2>2
<1>7. binStamp' \in 0 .. MaxTime
  <2>1. 0 \in 0 .. MaxTime
    BY ConstantsAssumption
  <2> QED  BY Zenon, <1>1, <1>2, <1>3, <2>1, PrimaryTyped, Consts
<1>8. /\ len' \in 0 .. MaxLength /\ baseLen' \in 0 .. len' /\ dirty' \subseteq 1 .. len'
  BY <1>3, <1>4 DEF Sectors
<1>9. TypeOK'
  BY Zenon, <1>1, <1>3, <1>4, <1>6, <1>7, <1>8 DEF TypeOK, diskVars
<1>10. Contained' /\ LoadSucceeds'
  BY Zenon, <1>1, <1>3, <1>5 DEF Contained, LoadSucceeds
<1>11. ASSUME NEW i \in 1 .. h.len
       PROVE  Val(Primary(i)) = mem'[i] /\ i \in 1 .. len /\ i \in Sectors
  <2>1. i \in 1 .. len /\ i \in Sectors /\ ~(i > h.len)
    BY <1>1, <1>4, TypeFacts DEF Sectors
  <2>2. mem'[i] = IF i \in dirty THEN Val(OnFile("primary")[i]) ELSE mem[i]
    BY Zenon, <1>3, <2>1
  <2> QED  BY Zenon, <1>1, <1>2, <2>1, <2>2
<1> QED
  BY Zenon, <1>1, <1>3, <1>5, <1>9, <1>10, <1>11 DEF diskVars

LEMMA RefreshStep ==
    ASSUME IInv, RefreshHive
    PROVE  IInv' /\ (~open' => Image(mem', len') = synced)
<1>1. /\ TypeOK /\ pc = "idle"
      /\ ~open => Current /\ Mirrors
      /\ open => (Current /\ DiskP[Header].len <= len) \/ Interrupted
  BY Zenon DEF IInv, AtRest, RefreshHive
<1>2. CASE Current /\ DiskP[Header].len <= len
  <2>1. PICK h : h = DiskP[Header]
    BY Zenon
  <2>2. /\ h \in Headers /\ h.done /\ CacheP = Nothing /\ synced \in allowed
        /\ \A i \in 1 .. h.len : DiskP[i] \in SectorRecs
        /\ FileImage = synced
    BY Zenon, <1>2, <2>1 DEF Current, Complete, Finished
  <2>3. \A a : Primary(a) = DiskP[a]
    BY Zenon, <2>2, NothingFacts DEF Primary
  <2>4. /\ TypeOK' /\ Contained' /\ LoadSucceeds' /\ pc' = "idle"
        /\ UNCHANGED <<op, synced, tornFirst>>
        /\ DiskP' = DiskP /\ CacheP' = CacheP
        /\ len' = h.len /\ timeStamp' = h.stamp /\ open' = ~h.done /\ dirty' = {}
        /\ allowed' = IF h.done THEN {synced} ELSE allowed
        /\ \A i \in 1 .. h.len : Val(Primary(i)) = mem'[i]
    BY Zenon, <1>2, <2>1, <2>2, <2>3, RefreshFacts
  <2>5. Current'
    <3>1. CacheP' = Nothing /\ synced \in allowed'
      BY Zenon, <2>2, <2>4
    <3> QED  BY Zenon, <1>2, <2>4, <3>1, CurrentStays
  <2>6. \A i \in 1 .. h.len : DiskP[i].val = mem'[i] /\ mem'[i] \in Values
    <3>1. \A i \in 1 .. h.len : DiskP[i].val = mem'[i]
      BY Zenon, <2>2, <2>3, <2>4, ValFacts
    <3> QED  BY <2>2, <3>1 DEF SectorRecs
  <2>7. Mirrors'
    <3>1. h.len <= h.len /\ \A i \in 1 .. h.len : i <= h.len
      BY <2>2 DEF Headers, Sectors
    <3> QED  BY Zenon, <2>1, <2>4, <2>6, <3>1 DEF Mirrors
  <2>8. DiskP'[Header] = BaseBlock(len', timeStamp', TRUE)
    <3>1. h = BaseBlock(h.len, h.stamp, TRUE)
      BY <2>2 DEF Headers, BaseBlock
    <3> QED  BY Zenon, <2>1, <2>4, <3>1
  <2>9. AtRest'
    BY Zenon, <2>2, <2>4, <2>5, <2>7, <2>8, Tracks DEF AtRest
  <2>10. Image(mem', len') = synced
    <3>1. FileImage = [i \in 1 .. h.len |-> DiskP[i].val]
      BY Zenon, <2>1 DEF FileImage
    <3>2. Image(mem', len') = [i \in 1 .. h.len |-> mem'[i]]
      BY Zenon, <2>4 DEF Image
    <3> QED  BY <2>2, <2>6, <3>1, <3>2
  <2> QED  BY Zenon, <2>4, <2>9, <2>10, OnlyRest
<1>3. CASE Interrupted
  <2>1. PICK n \in 1 .. len, s \in 0 .. MaxTime, d \in SUBSET (1 .. len), m \in allowed :
            /\ GoodLog(n, s, d, m) /\ Writing(n, s, d, m)
            /\ Header \in DOMAIN CacheP \/ DiskP[Header] = BaseBlock(n, s, FALSE)
    BY Zenon, <1>3 DEF Interrupted
  <2>2. n \in Sectors /\ n <= len /\ s \in 0 .. MaxTime /\ d \subseteq 1 .. n
    BY <2>1 DEF GoodLog
  <2>3. PICK h : h = BaseBlock(n, s, FALSE)
    BY Zenon
  <2>4. h = Primary(Header)
    BY Zenon, <2>1, <2>3 DEF Primary, Writing
  <2>5. h \in Headers /\ ~h.done /\ h.len = n
    BY Zenon, <2>2, <2>3, BlockFacts
  <2>6. /\ TypeOK' /\ Contained' /\ LoadSucceeds' /\ pc' = "idle"
        /\ UNCHANGED <<disk, cache, op, synced, tornFirst>>
        /\ DiskP' = DiskP /\ CacheP' = CacheP /\ DiskL' = DiskL /\ CacheL' = CacheL
        /\ len' = n /\ open' = ~h.done /\ dirty' = {}
        /\ allowed' = IF h.done THEN {synced} ELSE allowed
        /\ \A i \in 1 .. n : Val(Primary(i)) = mem'[i]
    BY Zenon, <2>2, <2>4, <2>5, RefreshFacts
  <2>7. open' /\ allowed' = allowed
    BY Zenon, <2>5, <2>6
  <2>8. Interrupted'
    <3>1. GoodLog(n, s, d, m)'
      BY Zenon, <2>1, <2>6, <2>7, GoodLogStays
    <3>2. Writing(n, s, d, m)'
      <4>1. Finished => Finished'
        BY Zenon, <2>6, <2>7, FinishedStays
      <4> QED  BY Zenon, <2>1, <2>6, <4>1 DEF Writing, Remain
    <3>3. n \in 1 .. len' /\ d \in SUBSET (1 .. len') /\ m \in allowed'
      BY <2>1, <2>2, <2>6, <2>7 DEF Sectors
    <3> QED  BY Zenon, <2>1, <2>6, <3>1, <3>2, <3>3 DEF Interrupted
  <2>9. \A i \in 1 .. len' : Val(Primary(i))' = mem'[i]
    <3>1. \A i : Primary(i)' = Primary(i)
      BY Zenon, <2>6 DEF Primary
    <3> QED  BY Zenon, <2>6, <3>1
  <2>10. AtRest'
    BY Zenon, <2>6, <2>7, <2>8, <2>9 DEF AtRest
  <2> QED  BY Zenon, <2>6, <2>7, <2>10, OnlyRest
<1> QED
  BY Zenon, <1>1, <1>2, <1>3 DEF Mirrors

-----------------------------------------------------------------------------
(* The machine stops.                                                      *)
LEMMA CrashFacts ==
    ASSUME IInv, Crash
    PROVE  /\ TypeOK' /\ Contained' /\ LoadSucceeds' /\ pc' = "down" /\ allowed' = allowed
           /\ CacheP' = Nothing /\ CacheL' = Nothing
           /\ CacheL = Nothing => \A a \in Addresses : DiskL'[a] = DiskL[a]
           /\ \E S \in SUBSET DOMAIN CacheP : \E T \in SUBSET S :
                 /\ \A a \in Addresses : DiskP'[a] = IF a \in T THEN Torn
                                                     ELSE IF a \in S THEN CacheP[a] ELSE DiskP[a]
                 /\ tornFirst' = (tornFirst \/ (Header \in T /\ ~CacheP[Header].done))
<1>1. TypeOK /\ FilesOK /\ Contained /\ LoadSucceeds
  BY Zenon, TypeFacts DEF IInv
<1>2. PICK S1 \in SUBSET DOMAIN cache["primary"], S2 \in SUBSET DOMAIN cache["log"] :
      \E T1 \in SUBSET S1, T2 \in SUBSET S2 :
           /\ disk' = [f \in Files |-> IF f = "primary" THEN Settle(f, S1, T1) ELSE Settle(f, S2, T2)]
           /\ tornFirst' = (tornFirst \/ (Header \in T1 /\ ~cache["primary"][Header].done))
  BY Zenon DEF Crash
<1>3. PICK T1 \in SUBSET S1, T2 \in SUBSET S2 :
           /\ disk' = [f \in Files |-> IF f = "primary" THEN Settle(f, S1, T1) ELSE Settle(f, S2, T2)]
           /\ tornFirst' = (tornFirst \/ (Header \in T1 /\ ~cache["primary"][Header].done))
  BY Zenon, <1>2
<1>4. /\ cache' = [f \in Files |-> Nothing] /\ mem' = Blank /\ len' = 0 /\ dirty' = {}
      /\ open' = FALSE /\ baseLen' = 0 /\ timeStamp' = 0 /\ binStamp' = 0 /\ pc' = "down"
      /\ UNCHANGED <<op, synced, allowed, corrupt>>
  BY Zenon DEF Crash
<1>5. /\ DOMAIN disk' = Files /\ DiskP' = Settle("primary", S1, T1) /\ DiskL' = Settle("log", S2, T2)
  BY <1>3 DEF Files, DiskP, DiskL
<1>6. DOMAIN cache' = Files /\ CacheP' = Nothing /\ CacheL' = Nothing
  BY <1>4 DEF Files, CacheP, CacheL
<1>7. /\ DOMAIN DiskP' = Addresses /\ DOMAIN DiskL' = Addresses
      /\ \A a \in Addresses : DiskP'[a] = IF a \in T1 THEN Torn
                                          ELSE IF a \in S1 THEN CacheP[a] ELSE DiskP[a]
      /\ \A a \in Addresses : DiskL'[a] = IF a \in T2 THEN Torn
                                          ELSE IF a \in S2 THEN CacheL[a] ELSE DiskL[a]
  BY <1>5 DEF Settle, DiskP, CacheP, DiskL, CacheL
<1>8. FilesOK'
  <2>1. \A f \in Files : f = "primary" \/ f = "log"
    BY DEF Files
  <2>2. \A f \in Files : DOMAIN disk'[f] = Addresses
    BY Zenon, <1>7, <2>1 DEF DiskP, DiskL
  <2>3. \A f \in Files : DOMAIN cache'[f] = {}
    BY Zenon, <1>4, NothingFacts
  <2> QED  BY <1>5, <1>6, <2>2, <2>3 DEF FilesOK
<1>9. tornFirst' \in BOOLEAN /\ (tornFirst => tornFirst')
  BY Zenon, <1>3
<1>10. TypeOK'
  <2>1. /\ len' \in 0 .. MaxLength /\ baseLen' \in 0 .. len' /\ timeStamp' \in 0 .. MaxTime
        /\ binStamp' \in 0 .. MaxTime /\ dirty' \subseteq 1 .. len'
    BY <1>4, ConstantsAssumption
  <2>2. mem' \in [Sectors -> Values \cup {Torn}]
    BY <1>4 DEF Blank
  <2> QED  BY ZenonT(60), <1>1, <1>4, <1>8, <1>9, <2>1, <2>2 DEF TypeOK, FilesOK, PCs
<1>11. LoadSucceeds'
  BY Zenon, <1>1, <1>4, <1>9 DEF LoadSucceeds
<1>12. Contained'
  <2>1. \A i \in Sectors : i \notin DOMAIN CacheP'
    BY Zenon, <1>6, NothingFacts
  <2>2. ASSUME NEW i \in Sectors PROVE DiskP'[i] \in SectorRecs \cup {Torn}
    <3>1. DiskP'[i] = Torn \/ (i \in DOMAIN CacheP /\ DiskP'[i] = CacheP[i]) \/ DiskP'[i] = DiskP[i]
      BY Zenon, <1>7, Consts DEF CacheP
    <3> QED  BY Zenon, <1>1, <3>1 DEF Contained
  <2> QED  BY Zenon, <2>1, <2>2 DEF Contained
<1>13. ASSUME CacheL = Nothing PROVE \A a \in Addresses : DiskL'[a] = DiskL[a]
  <2>1. DOMAIN cache["log"] = {}
    BY Zenon, <1>13, NothingFacts DEF CacheL
  <2> QED  BY Zenon, <1>7, <2>1
<1>14. \E S \in SUBSET DOMAIN CacheP : \E T \in SUBSET S :
                 /\ \A a \in Addresses : DiskP'[a] = IF a \in T THEN Torn
                                                     ELSE IF a \in S THEN CacheP[a] ELSE DiskP[a]
                 /\ tornFirst' = (tornFirst \/ (Header \in T /\ ~CacheP[Header].done))
  <2>1. /\ S1 \in SUBSET DOMAIN CacheP /\ T1 \in SUBSET S1
        /\ tornFirst' = (tornFirst \/ (Header \in T1 /\ ~CacheP[Header].done))
    BY Zenon, <1>3 DEF CacheP
  <2> QED  BY Zenon, <1>7, <2>1
<1> QED
  BY Zenon, <1>4, <1>6, <1>10, <1>11, <1>12, <1>13, <1>14

(* The log is not touched by a crash after it was flushed.                 *)
LEMMA GoodLogSettles ==
    ASSUME NEW n, NEW s, NEW d \in SUBSET Sectors, NEW m, GoodLog(n, s, d, m), CacheL' = Nothing,
           \A a \in Addresses : DiskL'[a] = DiskL[a], allowed' = allowed
    PROVE  GoodLog(n, s, d, m)'
<1>1. \A i \in d : Place(d, i) \in Addresses
  <2>1. \A i \in d : Place(d, i) \in Sectors
    BY Zenon, PlaceFacts
  <2> QED  BY Zenon, <2>1, Consts
<1>2. /\ DiskL'[Header] = DiskL[Header] /\ DiskL'[Vector] = DiskL[Vector]
      /\ \A i \in d : DiskL'[Place(d, i)] = DiskL[Place(d, i)]
  BY Zenon, <1>1, Consts
<1> QED
  BY Zenon, <1>2 DEF GoodLog

(* A crash while the primary file was being written, or before.            *)
LEMMA CrashWriting ==
    ASSUME Contained, NEW n \in Sectors, NEW s \in 0 .. MaxTime, NEW d \in SUBSET Sectors, NEW m,
           d \subseteq 1 .. n, 1 .. n \subseteq Sectors, m \in allowed',
           GoodLog(n, s, d, m)', Writing(n, s, d, m), CacheP' = Nothing, allowed' = allowed,
           NEW S \in SUBSET DOMAIN CacheP, NEW T \in SUBSET S,
           \A a \in Addresses : DiskP'[a] = IF a \in T THEN Torn
                                            ELSE IF a \in S THEN CacheP[a] ELSE DiskP[a],
           tornFirst' = (tornFirst \/ (Header \in T /\ ~CacheP[Header].done))
    PROVE  Complete' \/ Recoverable'
<1>1. /\ Remain(n, d, m) /\ DOMAIN CacheP \subseteq {Header} \cup d
      /\ Header \in DOMAIN CacheP => CacheP[Header] = BaseBlock(n, s, FALSE)
  BY Zenon DEF Writing
<1>2. Header \notin 1 .. n /\ 1 .. n \subseteq Addresses /\ Header \in Addresses /\ 1 \in Addresses
  BY Zenon, Consts
<1>3. DOMAIN CacheP' = {}
  BY Zenon, NothingFacts
<1>4. Remain(n, d, m)'
  <2> SUFFICES ASSUME NEW i \in (1 .. n) \ d PROVE Holds(DiskP'[i], m[i])
    BY Zenon DEF Remain
  <2>1. i \notin S /\ i \notin T /\ i \in Addresses
    BY Zenon, <1>1, <1>2
  <2>2. DiskP'[i] = DiskP[i]
    BY Zenon, <2>1
  <2> QED  BY Zenon, <1>1, <2>2 DEF Remain
<1>5. ASSUME \/ DiskP'[Header] = BaseBlock(n, s, FALSE)
             \/ /\ DiskP'[Header] = Torn
                /\ tornFirst' \/ (DiskP'[1] \in SectorRecs /\ DiskP'[1].stamp = s)
      PROVE  Recoverable'
  <2>1. Writing(n, s, d, m)'
    BY Zenon, <1>3, <1>4, <1>5 DEF Writing
  <2>2. Pending(n, s)'
    BY Zenon, <1>5 DEF Pending
  <2> QED  BY Zenon, <2>1, <2>2 DEF Recoverable
<1>6. CASE Header \in T
  <2>1. ~BaseBlock(n, s, FALSE).done
    BY Zenon, BlockFacts
  <2>2. DiskP'[Header] = Torn /\ CacheP[Header] = BaseBlock(n, s, FALSE)
    BY Zenon, <1>1, <1>2, <1>6
  <2>3. ~CacheP[Header].done
    BY <2>1, <2>2
  <2> QED  BY Zenon, <1>5, <1>6, <2>2, <2>3
<1>7. CASE Header \in S /\ Header \notin T
  BY Zenon, <1>1, <1>2, <1>5, <1>7
<1>8. CASE Header \notin S
  <2>1. DiskP'[Header] = DiskP[Header] /\ (tornFirst => tornFirst')
    BY Zenon, <1>2, <1>8
  <2>2. CASE DiskP[Header] = BaseBlock(n, s, FALSE)
    BY Zenon, <1>5, <2>1, <2>2
  <2>3. CASE DiskP[Header] # BaseBlock(n, s, FALSE)
    <3>1. DOMAIN CacheP \subseteq {Header}
      BY Zenon, <2>3 DEF Writing
    <3>2. \A a \in Addresses : DiskP'[a] = DiskP[a]
      BY Zenon, <1>8, <3>1
    <3>3. CASE DiskP[Header] = Torn /\ (tornFirst \/ (DiskP[1] \in SectorRecs /\ DiskP[1].stamp = s))
      BY Zenon, <1>2, <1>5, <2>1, <3>2, <3>3
    <3>4. CASE Finished
      BY Zenon, <3>2, <3>4, FinishedStays DEF Complete
    <3> QED  BY Zenon, <2>3, <3>3, <3>4 DEF Writing
  <2> QED  BY Zenon, <2>2, <2>3
<1> QED
  BY Zenon, <1>6, <1>7, <1>8

(* Whenever the machine stops, the primary file is complete, or the log    *)
(* is, or the last header is on its way.                                   *)
LEMMA CrashSources ==
    ASSUME IInv
    PROVE  \/ Complete
           \/ \E n \in Sectors, s \in 0 .. MaxTime, d \in SUBSET Sectors, m \in allowed :
                  GoodLog(n, s, d, m) /\ Writing(n, s, d, m)
           \/ pc = "primaryFlush3" /\ \E n, s, d, m : AtPrimary(n, s, d, m)
<1>1. /\ pc \in PCs /\ AtRest /\ InLog /\ InPrimary /\ Shrinking /\ Down
      /\ open \in BOOLEAN
  BY Zenon DEF IInv, TypeOK
<1>2. ASSUME NEW n, NEW s, NEW d, NEW m, GoodLog(n, s, d, m)
      PROVE  n \in Sectors /\ s \in 0 .. MaxTime /\ d \in SUBSET Sectors /\ m \in allowed
  <2>1. n \in Sectors /\ s \in 0 .. MaxTime /\ d \subseteq 1 .. n /\ m \in allowed
    BY Zenon, <1>2 DEF GoodLog
  <2>2. 1 .. n \subseteq Sectors
    BY <2>1, ConstantsAssumption DEF Sectors
  <2> QED  BY Zenon, <2>1, <2>2
<1>3. CASE pc \in {"idle", "logHeader"}
  <2>1. Current \/ Interrupted
    BY Zenon, <1>1, <1>3 DEF AtRest
  <2>2. CASE Interrupted
    <3>1. \E n, s, d, m : GoodLog(n, s, d, m) /\ Writing(n, s, d, m)
      BY Zenon, <2>2 DEF Interrupted
    <3> QED  BY Zenon, <1>2, <3>1
  <2> QED  BY Zenon, <2>1, <2>2 DEF Current
<1>4. CASE pc \in LogPCs
  BY Zenon, <1>1, <1>4 DEF InLog, Current
<1>5. CASE pc \in PrimaryPCs
  <2>1. \E n, s, d, m : AtPrimary(n, s, d, m)
    BY Zenon, <1>1, <1>5 DEF InPrimary
  <2>2. CASE pc # "primaryFlush3"
    <3>1. \E n, s, d, m : GoodLog(n, s, d, m) /\ Writing(n, s, d, m)
      BY ZenonT(60), <2>1, <2>2 DEF AtPrimary
    <3> QED  BY Zenon, <1>2, <3>1
  <2> QED  BY Zenon, <2>1, <2>2
<1>6. CASE pc = "shrinkLog"
  BY Zenon, <1>1, <1>6 DEF Shrinking, Current
<1>7. CASE pc = "down"
  BY Zenon, <1>1, <1>7 DEF Down, Recoverable
<1> QED
  BY Zenon, <1>1, <1>3, <1>4, <1>5, <1>6, <1>7 DEF PCs, LogPCs, PrimaryPCs

(* A crash before the last header of the primary file was flushed.         *)
LEMMA CrashClosing ==
    ASSUME NEW n, NEW s, NEW d, NEW m, pc = "primaryFlush3", AtPrimary(n, s, d, m),
           CacheP' = Nothing, CacheL' = Nothing, allowed' = allowed,
           \A a \in Addresses : DiskL'[a] = DiskL[a],
           NEW S \in SUBSET DOMAIN CacheP, NEW T \in SUBSET S,
           \A a \in Addresses : DiskP'[a] = IF a \in T THEN Torn
                                            ELSE IF a \in S THEN CacheP[a] ELSE DiskP[a]
    PROVE  Complete' \/ Recoverable'
<1>1. /\ GoodLog(n, s, d, m) /\ Remain(n, d, m) /\ DiskP[Header] = BaseBlock(n, s, FALSE)
      /\ \A i \in d : DiskP[i] = Body(m, s, i)
      /\ CacheP = [a \in {Header} |-> BaseBlock(n, s, TRUE)]
  BY Zenon DEF AtPrimary
<1>2. /\ n \in Sectors /\ s \in 0 .. MaxTime /\ d \subseteq 1 .. n /\ 1 \in d
      /\ m \in [1 .. n -> Values] /\ m \in allowed
  BY Zenon, <1>1 DEF GoodLog
<1>3. 1 .. n \subseteq Sectors /\ \A i \in 1 .. n : m[i] \in Values
  BY <1>2, ConstantsAssumption DEF Sectors
<1>4. d \in SUBSET Sectors /\ d \in SUBSET (1 .. n)
  BY Zenon, <1>2, <1>3
<1>5. DOMAIN CacheP = {Header} /\ CacheP[Header] = BaseBlock(n, s, TRUE)
  BY <1>1
<1>6. /\ Header \notin 1 .. n /\ 1 .. n \subseteq Addresses /\ Header \in Addresses
      /\ 1 \in Addresses /\ S \subseteq {Header} /\ T \subseteq {Header} /\ 1 # Header
  BY Zenon, <1>3, <1>5, Consts
<1>7. GoodLog(n, s, d, m)'
  BY Zenon, <1>1, <1>4, GoodLogSettles
<1>8. \A i \in 1 .. n : DiskP'[i] = DiskP[i]
  BY Zenon, <1>6
<1>9. \A i \in 1 .. n : Holds(DiskP[i], m[i])
  <2>1. /\ n \in Sectors /\ s \in 0 .. MaxTime /\ d \in SUBSET Sectors /\ d \subseteq 1 .. n
        /\ \A i \in 1 .. n : m[i] \in Values
        /\ Remain(n, d, m) /\ \A i \in d : DiskP[i] = Body(m, s, i)
    BY Zenon, <1>1, <1>2, <1>3, <1>4
  <2> QED  BY <2>1, AllThere
<1>10. \A i \in 1 .. n : Holds(DiskP'[i], m[i])
  BY Zenon, <1>8, <1>9
<1>11. ASSUME \/ DiskP'[Header] = BaseBlock(n, s, FALSE)
              \/ DiskP'[Header] = Torn /\ DiskP'[1] \in SectorRecs /\ DiskP'[1].stamp = s
       PROVE  Recoverable'
  <2>1. Remain(n, d, m)'
    BY Zenon, <1>10 DEF Remain
  <2>2. DOMAIN CacheP' = {}
    BY Zenon, NothingFacts
  <2>3. Writing(n, s, d, m)'
    BY Zenon, <1>11, <2>1, <2>2 DEF Writing
  <2>4. Pending(n, s)'
    BY Zenon, <1>11 DEF Pending
  <2> QED  BY Zenon, <1>2, <1>4, <1>7, <2>3, <2>4 DEF Recoverable
<1>12. CASE Header \in T
  <2>1. Body(m, s, 1) \in SectorRecs /\ Body(m, s, 1).stamp = s
    BY Zenon, <1>2, <1>3, BodyFacts DEF Body
  <2>2. DiskP'[1] = Body(m, s, 1) /\ DiskP'[Header] = Torn
    BY Zenon, <1>1, <1>2, <1>6, <1>8, <1>12
  <2>3. DiskP'[1] \in SectorRecs /\ DiskP'[1].stamp = s
    BY <2>1, <2>2
  <2> QED  BY Zenon, <1>11, <2>2, <2>3
<1>13. CASE Header \in S /\ Header \notin T
  <2>1. DiskP'[Header] = BaseBlock(n, s, TRUE)
    BY Zenon, <1>5, <1>6, <1>13
  <2>2. m \in allowed'
    BY Zenon, <1>2
  <2>3. Finished'
    BY ZenonT(60), <1>2, <1>4, <1>10, <2>1, <2>2, FileHas
  <2> QED  BY Zenon, <2>3 DEF Complete
<1>14. CASE Header \notin S
  BY Zenon, <1>1, <1>6, <1>11, <1>14
<1> QED
  BY Zenon, <1>12, <1>13, <1>14

LEMMA CrashStep == ASSUME IInv, Crash PROVE IInv'
<1>1. /\ TypeOK' /\ Contained' /\ LoadSucceeds' /\ pc' = "down" /\ allowed' = allowed
      /\ CacheP' = Nothing /\ CacheL' = Nothing
      /\ CacheL = Nothing => \A a \in Addresses : DiskL'[a] = DiskL[a]
  BY Zenon, CrashFacts
<1>2. PICK S \in SUBSET DOMAIN CacheP : \E T \in SUBSET S :
         /\ \A a \in Addresses : DiskP'[a] = IF a \in T THEN Torn
                                             ELSE IF a \in S THEN CacheP[a] ELSE DiskP[a]
         /\ tornFirst' = (tornFirst \/ (Header \in T /\ ~CacheP[Header].done))
  BY Zenon, CrashFacts
<1>3. PICK T \in SUBSET S :
         /\ \A a \in Addresses : DiskP'[a] = IF a \in T THEN Torn
                                             ELSE IF a \in S THEN CacheP[a] ELSE DiskP[a]
         /\ tornFirst' = (tornFirst \/ (Header \in T /\ ~CacheP[Header].done))
  BY Zenon, <1>2
<1>4. Contained
  BY Zenon DEF IInv
<1>5. CASE Complete
  <2>1. DOMAIN CacheP = {} /\ Finished
    BY Zenon, <1>5, NothingFacts DEF Complete
  <2>2. \A a \in Addresses : DiskP'[a] = DiskP[a]
    BY Zenon, <1>3, <2>1
  <2> QED  BY Zenon, <1>1, <2>1, <2>2, FinishedStays, OnlyDown DEF Complete, Down
<1>6. ASSUME NEW n \in Sectors, NEW s \in 0 .. MaxTime, NEW d \in SUBSET Sectors, NEW m \in allowed,
             GoodLog(n, s, d, m), Writing(n, s, d, m)
      PROVE  Complete' \/ Recoverable'
  <2>1. CacheL = Nothing /\ d \subseteq 1 .. n
    BY Zenon, <1>6 DEF GoodLog
  <2>2. 1 .. n \subseteq Sectors
    BY ConstantsAssumption DEF Sectors
  <2>3. GoodLog(n, s, d, m)'
    BY Zenon, <1>1, <1>6, <2>1, GoodLogSettles
  <2>4. m \in allowed'
    BY Zenon, <1>1
  <2> QED  BY Zenon, <1>1, <1>3, <1>4, <1>6, <2>1, <2>2, <2>3, <2>4, CrashWriting
<1>7. ASSUME pc = "primaryFlush3", NEW n, NEW s, NEW d, NEW m, AtPrimary(n, s, d, m)
      PROVE  Complete' \/ Recoverable'
  <2>1. CacheL = Nothing
    BY Zenon, <1>7 DEF AtPrimary, GoodLog
  <2> QED  BY Zenon, <1>1, <1>3, <1>7, <2>1, CrashClosing
<1>8. Complete \/ Complete' \/ Recoverable'
  BY Zenon, <1>6, <1>7, CrashSources
<1> QED
  BY Zenon, <1>1, <1>5, <1>8, OnlyDown DEF Down

-----------------------------------------------------------------------------
(* The hive is loaded.                                                     *)
LoadFails == corrupt' = TRUE /\ UNCHANGED <<memVars, pc, op, synced, allowed>>

LEMMA LoadCases ==
    ASSUME LoadHive, NEW p, NEW l, p = OnFile("primary"), l = OnFile("log")
    PROVE  /\ p[Header] = Torn /\ p[1] = Torn => LoadFails
           /\ p[Header] = Torn /\ p[1] # Torn =>
                  \/ ~(LogHeaderValid(l, p[1].stamp) /\ l[Vector] # Torn) /\ LoadFails
                  \/ Loaded(RecoverData(p, l, l[Header].len), l[Header],
                            {1} \cup (l[Vector] \cap 1 .. l[Header].len), "primaryFlush0")
           /\ p[Header] # Torn /\ ~p[Header].done =>
                  \/ l[Vector] = Torn /\ LoadFails
                  \/ Loaded(RecoverData(p, l, p[Header].len), p[Header],
                            {1} \cup (l[Vector] \cap 1 .. p[Header].len), "primaryFlush0")
           /\ p[Header] # Torn /\ p[Header].done =>
                  \/ ~(\A i \in 1 .. p[Header].len : p[i] # Torn) /\ LoadFails
                  \/ Loaded(p, p[Header], {}, "idle")
<1> DEFINE r == GetHiveHeader(p)
           h == IF r = "RecoverHeader" THEN l[Header] ELSE p[Header]
           Recover(b) == Loaded(b, h, {1} \cup (l[Vector] \cap 1 .. h.len), "primaryFlush0")
           usable == CASE r = "NotHive" -> FALSE
                       [] r = "RecoverHeader" -> LogHeaderValid(l, p[1].stamp) /\ l[Vector] # Torn
                       [] r = "RecoverData" -> l[Vector] # Torn
                       [] r = "HiveSuccess" -> \A i \in 1 .. h.len : p[i] # Torn
<1>1. \/ /\ usable
         /\ IF r = "HiveSuccess" THEN Loaded(p, h, {}, "idle") ELSE Recover(RecoverData(p, l, h.len))
      \/ /\ ~usable
         /\ LoadFails
  BY Zenon DEF LoadHive, LoadFails
<1>2. CASE p[Header] = Torn /\ p[1] = Torn
  <2>1. r = "NotHive"
    BY Zenon, <1>2 DEF GetHiveHeader
  <2>2. ~usable
    BY <2>1
  <2> HIDE DEF usable
  <2> QED  BY Zenon, <1>1, <1>2, <2>2
<1>3. CASE p[Header] = Torn /\ p[1] # Torn
  <2>1. r = "RecoverHeader"
    BY Zenon, <1>3 DEF GetHiveHeader
  <2>2. usable <=> LogHeaderValid(l, p[1].stamp) /\ l[Vector] # Torn
    BY <2>1
  <2>3. h = l[Header] /\ r # "HiveSuccess"
    BY <2>1
  <2> HIDE DEF usable, r, h
  <2> QED  BY Zenon, <1>1, <1>3, <2>2, <2>3
<1>4. CASE p[Header] # Torn /\ ~p[Header].done
  <2>1. r = "RecoverData"
    BY Zenon, <1>4 DEF GetHiveHeader
  <2>2. usable <=> l[Vector] # Torn
    BY <2>1
  <2>3. h = p[Header] /\ r # "HiveSuccess"
    BY <2>1
  <2> HIDE DEF usable, r, h
  <2> QED  BY Zenon, <1>1, <1>4, <2>2, <2>3
<1>5. CASE p[Header] # Torn /\ p[Header].done
  <2>1. r = "HiveSuccess"
    BY Zenon, <1>5 DEF GetHiveHeader
  <2>2. h = p[Header]
    BY <2>1
  <2>3. usable <=> \A i \in 1 .. h.len : p[i] # Torn
    BY <2>1
  <2> HIDE DEF usable, r, h
  <2> QED  BY Zenon, <1>1, <1>5, <2>1, <2>2, <2>3
<1> HIDE DEF usable, r, h
<1> QED
  BY Zenon, <1>2, <1>3, <1>4, <1>5

(* A hive of good sectors is in memory.                                    *)
LEMMA LoadedFacts ==
    ASSUME IInv, NEW b, NEW h \in Headers, NEW d, NEW next \in PCs,
           Loaded(b, h, d, next), UNCHANGED <<disk, cache, tornFirst>>,
           d \subseteq 1 .. h.len, \A i \in 1 .. h.len : b[i] \in SectorRecs
    PROVE  /\ TypeOK' /\ Contained' /\ LoadSucceeds'
           /\ len' = h.len /\ timeStamp' = h.stamp /\ ~open' /\ dirty' = d /\ pc' = next
           /\ op' = "recover" /\ allowed' = {synced'} /\ Image(mem', len') = synced'
           /\ DOMAIN synced' = 1 .. h.len
           /\ \A i \in 1 .. h.len : /\ mem'[i] = b[i].val /\ mem'[i] \in Values
                                    /\ synced'[i] = b[i].val
<1>1. TypeOK /\ FilesOK /\ Contained
  BY Zenon, TypeFacts DEF IInv
<1>2. /\ len' = h.len /\ timeStamp' = h.stamp /\ open' = FALSE /\ dirty' = d /\ pc' = next
      /\ op' = "recover" /\ allowed' = {synced'} /\ baseLen' = h.len /\ corrupt' = FALSE
      /\ mem' = [i \in Sectors |-> IF i <= h.len THEN Val(b[i]) ELSE Torn]
      /\ binStamp' = (IF b[1] = Torn THEN 0 ELSE b[1].stamp)
      /\ synced' = [i \in 1 .. h.len |-> Val(b[i])]
  BY Zenon DEF Loaded
<1>3. h.len \in Sectors /\ h.stamp \in 0 .. MaxTime
  BY DEF Headers
<1>4. /\ 1 .. h.len \subseteq Sectors /\ h.len \in 0 .. MaxLength /\ h.len \in 0 .. h.len
      /\ 1 \in 1 .. h.len /\ \A i \in Sectors : i <= h.len => i \in 1 .. h.len
      /\ \A i \in 1 .. h.len : i <= h.len
  BY <1>3, ConstantsAssumption DEF Sectors
<1>5. \A i \in 1 .. h.len : Val(b[i]) = b[i].val /\ b[i] # Torn
  BY Zenon, ValFacts
<1>6. \A i \in 1 .. h.len : b[i].val \in Values /\ b[i].stamp \in 0 .. MaxTime
  BY DEF SectorRecs
<1>7. \A i \in 1 .. h.len : mem'[i] = Val(b[i])
  BY Zenon, <1>2, <1>4
<1>8. \A i \in 1 .. h.len : mem'[i] = b[i].val /\ mem'[i] \in Values /\ synced'[i] = b[i].val
  <2>1. \A i \in 1 .. h.len : synced'[i] = Val(b[i])
    BY Zenon, <1>2
  <2> QED  BY Zenon, <1>5, <1>6, <1>7, <2>1
<1>9. DOMAIN synced' = 1 .. h.len /\ Image(mem', len') = synced'
  BY Zenon, <1>2, <1>7 DEF Image
<1>10. mem' \in [Sectors -> Values \cup {Torn}]
  <2>1. \A i \in Sectors : (IF i <= h.len THEN Val(b[i]) ELSE Torn) \in Values \cup {Torn}
    BY Zenon, <1>4, <1>5, <1>6
  <2> QED  BY Zenon, <1>2, <2>1
<1>11. binStamp' \in 0 .. MaxTime
  BY Zenon, <1>2, <1>4, <1>5, <1>6
<1>12. TypeOK'
  <2>1. /\ len' \in 0 .. MaxLength /\ baseLen' \in 0 .. len' /\ dirty' \subseteq 1 .. len'
        /\ timeStamp' \in 0 .. MaxTime
    BY <1>2, <1>3, <1>4
  <2>2. open' \in BOOLEAN /\ corrupt' \in BOOLEAN /\ op' \in {"sync", "recover"}
    BY Zenon, <1>2
  <2>3. FilesOK' /\ tornFirst' \in BOOLEAN
    BY Zenon, <1>1 DEF FilesOK, TypeOK
  <2> QED  BY ZenonT(60), <1>2, <1>10, <1>11, <2>1, <2>2, <2>3 DEF TypeOK, FilesOK
<1>13. Contained'
  BY Zenon, <1>1 DEF Contained, DiskP, CacheP
<1>14. LoadSucceeds'
  BY Zenon, <1>2 DEF LoadSucceeds
<1> QED
  BY Zenon, <1>2, <1>8, <1>9, <1>12, <1>13, <1>14

LEMMA PendingUnfinished ==
    ASSUME NEW n \in Sectors, NEW s \in 0 .. MaxTime, Pending(n, s)
    PROVE  ~Finished
<1>1. Torn \notin Headers /\ ~BaseBlock(n, s, FALSE).done
  BY Zenon, Consts, BlockFacts
<1> QED
  BY <1>1 DEF Finished, Pending

(* A log that is to be applied stays so as long as the files stay.         *)
LEMMA PendingStays ==
    ASSUME NEW n \in Sectors, NEW s \in 0 .. MaxTime, NEW d, NEW m, GoodLog(n, s, d, m),
           Writing(n, s, d, m), Pending(n, s), UNCHANGED <<disk, cache, tornFirst>>, m \in allowed'
    PROVE  GoodLog(n, s, d, m)' /\ Writing(n, s, d, m)' /\ Pending(n, s)'
<1>1. DiskP' = DiskP /\ CacheP' = CacheP /\ DiskL' = DiskL /\ CacheL' = CacheL
  BY Zenon, FilesSame
<1>2. ~Finished
  BY Zenon, PendingUnfinished
<1>3. Writing(n, s, d, m)'
  BY Zenon, <1>1, <1>2 DEF Writing, Remain
<1> QED
  BY Zenon, <1>1, <1>3, GoodLogStays DEF Pending

(* The primary file was complete.                                          *)
LEMMA LoadComplete ==
    ASSUME IInv, LoadHive, Complete
    PROVE  IInv' /\ Image(mem', len') \in allowed
<1>1. FilesOK /\ UNCHANGED <<disk, cache, tornFirst>>
  BY Zenon, TypeFacts DEF IInv, LoadHive, diskVars
<1>2. PICK p : p = OnFile("primary")
  OBVIOUS
<1>3. PICK l : l = OnFile("log")
  OBVIOUS
<1>4. PICK h : h = DiskP[Header]
  OBVIOUS
<1>5. /\ CacheP = Nothing /\ DOMAIN CacheP = {} /\ h \in Headers /\ h.done
      /\ \A i \in 1 .. h.len : DiskP[i] \in SectorRecs
      /\ FileImage \in allowed
  BY Zenon, <1>4, NothingFacts DEF Complete, Finished
<1>6. /\ 1 .. h.len \subseteq Addresses /\ 1 .. h.len \subseteq Sectors
      /\ h.len <= h.len /\ \A i \in 1 .. h.len : i <= h.len
  BY <1>5, ConstantsAssumption DEF Headers, Sectors, Addresses
<1>7. \A a \in Addresses : p[a] = DiskP[a]
  BY Zenon, <1>1, <1>2, <1>5, OnFileFacts DEF Primary
<1>8. p[Header] = h /\ h # Torn /\ \A i \in 1 .. h.len : p[i] = DiskP[i] /\ p[i] # Torn
  BY Zenon, <1>4, <1>5, <1>6, <1>7, Consts
<1>9. Loaded(p, h, {}, "idle")
  BY Zenon, <1>2, <1>3, <1>5, <1>8, LoadCases
<1>10. /\ TypeOK' /\ Contained' /\ LoadSucceeds'
       /\ len' = h.len /\ timeStamp' = h.stamp /\ ~open' /\ dirty' = {} /\ pc' = "idle"
       /\ allowed' = {synced'} /\ Image(mem', len') = synced'
       /\ DOMAIN synced' = 1 .. h.len
       /\ \A i \in 1 .. h.len : /\ mem'[i] = p[i].val /\ mem'[i] \in Values
                                /\ synced'[i] = p[i].val
  <2>1. "idle" \in PCs /\ {} \subseteq 1 .. h.len /\ \A i \in 1 .. h.len : p[i] \in SectorRecs
    BY Zenon, <1>5, <1>8 DEF PCs
  <2> QED  BY Zenon, <1>1, <1>5, <1>9, <2>1, LoadedFacts
<1>11. DiskP' = DiskP /\ CacheP' = CacheP
  BY Zenon, <1>1, FilesSame
<1>12. FileImage' = FileImage /\ FileImage = synced'
  <2>1. FileImage = [i \in 1 .. h.len |-> DiskP[i].val]
    BY Zenon, <1>4 DEF FileImage
  <2>2. synced' = [i \in 1 .. h.len |-> synced'[i]]
    BY Zenon, <1>9 DEF Loaded
  <2>3. \A i \in 1 .. h.len : synced'[i] = DiskP[i].val
    BY Zenon, <1>8, <1>10
  <2> QED  BY Zenon, <1>11, <2>1, <2>2, <2>3 DEF FileImage
<1>13. Current'
  <2>1. Finished'
    BY ZenonT(60), <1>4, <1>5, <1>10, <1>11, <1>12 DEF Finished
  <2> QED  BY Zenon, <1>5, <1>11, <1>12, <2>1 DEF Current, Complete
<1>14. h = BaseBlock(h.len, h.stamp, TRUE)
  BY <1>5 DEF Headers, BaseBlock
<1>15. Mirrors'
  <2>1. DiskP'[Header].len = h.len /\ h.len <= h.len
    BY Zenon, <1>4, <1>6, <1>11
  <2>2. \A i \in 1 .. h.len : /\ mem'[i] \in Values /\ DiskP'[i].val = mem'[i]
                              /\ i <= h.len
    BY Zenon, <1>6, <1>8, <1>10, <1>11
  <2> QED  BY Zenon, <1>10, <2>1, <2>2 DEF Mirrors
<1>16. AtRest'
  <2>1. \A i \in 1 .. len' : i \notin dirty' => Val(Primary(i))' = mem'[i]
    BY Zenon, <1>13, <1>15, Tracks
  <2>2. DiskP'[Header] = BaseBlock(len', timeStamp', TRUE)
    BY Zenon, <1>4, <1>10, <1>11, <1>14
  <2>3. "idle" # "logHeader"
    BY Zenon
  <2> QED  BY ZenonT(60), <1>10, <1>13, <1>15, <2>1, <2>2, <2>3 DEF AtRest
<1>17. IInv'
  BY Zenon, <1>10, <1>16, OnlyRest
<1> QED
  BY Zenon, <1>5, <1>10, <1>12, <1>17

(* The log is applied.                                                     *)
LEMMA LoadRecovered ==
    ASSUME IInv, UNCHANGED <<disk, cache, tornFirst>>,
           NEW n \in Sectors, NEW s \in 0 .. MaxTime, NEW d \in SUBSET Sectors, NEW m \in allowed,
           GoodLog(n, s, d, m), Writing(n, s, d, m), Pending(n, s),
           NEW p, NEW l, NEW h \in Headers, h.len = n, h.stamp = s,
           p = OnFile("primary"), l = OnFile("log"),
           Loaded(RecoverData(p, l, n), h, {1} \cup (l[Vector] \cap 1 .. n), "primaryFlush0")
    PROVE  IInv' /\ Image(mem', len') \in allowed
<1>1. FilesOK
  BY Zenon, TypeFacts DEF IInv
<1>2. /\ CacheL = Nothing /\ d \subseteq 1 .. n /\ 1 \in d
      /\ m \in [1 .. n -> Values] /\ DiskL[Vector] = d
      /\ \A i \in d : Holds(DiskL[Place(d, i)], m[i])
  BY Zenon DEF GoodLog
<1>3. 1 .. n \subseteq Sectors /\ Header \notin 1 .. n /\ 1 .. n \subseteq Addresses
  BY ConstantsAssumption DEF Sectors, Header, Addresses
<1>4. l[Vector] = d /\ \A i \in d : l[Place(d, i)] = DiskL[Place(d, i)]
  <2>1. \A i \in d : Place(d, i) \in Addresses
    BY Zenon, PlaceFacts, Consts
  <2> QED  BY Zenon, <1>1, <1>2, <2>1, OnFileFacts, Consts
<1>5. d \cap 1 .. n = d /\ {1} \cup (d \cap 1 .. n) = d
  BY Zenon, <1>2
<1>6. PICK b : b = RecoverData(p, l, n)
  OBVIOUS
<1>7. b = [i \in 1 .. n |-> IF i \in d THEN l[Place(d, i)] ELSE p[i]]
  BY Zenon, <1>4, <1>5, <1>6 DEF RecoverData
<1>8. \A i \in 1 .. n : Holds(b[i], m[i])
  <2> SUFFICES ASSUME NEW i \in 1 .. n PROVE Holds(b[i], m[i])
    OBVIOUS
  <2>1. CASE i \in d
    BY Zenon, <1>2, <1>4, <1>7, <2>1
  <2>2. CASE i \notin d
    <3>1. i \notin DOMAIN CacheP /\ i \in Addresses
      BY Zenon, <1>3, <2>2 DEF Writing
    <3>2. p[i] = DiskP[i]
      BY Zenon, <1>1, <3>1, OnFileFacts DEF Primary
    <3> QED  BY Zenon, <1>7, <2>2, <3>2 DEF Writing, Remain
  <2> QED  BY Zenon, <2>1, <2>2
<1>9. \A i \in 1 .. n : b[i] \in SectorRecs /\ b[i].val = m[i]
  BY Zenon, <1>8 DEF Holds
<1>10. Loaded(b, h, d, "primaryFlush0")
  BY Zenon, <1>4, <1>5, <1>6
<1>11. /\ TypeOK' /\ Contained' /\ LoadSucceeds'
       /\ len' = n /\ timeStamp' = s /\ ~open' /\ dirty' = d /\ pc' = "primaryFlush0"
       /\ op' = "recover" /\ allowed' = {synced'} /\ Image(mem', len') = synced'
       /\ \A i \in 1 .. n : synced'[i] = b[i].val
  <2>1. "primaryFlush0" \in PCs
    BY Zenon DEF PCs
  <2> QED  BY ZenonT(60), <1>2, <1>9, <1>10, <2>1, LoadedFacts
<1>12. synced' = m
  <2>1. synced' = [i \in 1 .. n |-> synced'[i]] /\ m = [i \in 1 .. n |-> m[i]]
    BY Zenon, <1>2, <1>10 DEF Loaded
  <2>2. \A i \in 1 .. n : synced'[i] = m[i]
    BY Zenon, <1>9, <1>11
  <2> QED  BY Zenon, <2>1, <2>2
<1>13. GoodLog(n, s, d, m)' /\ Writing(n, s, d, m)' /\ Pending(n, s)'
  <2>1. m \in allowed'
    BY ZenonT(60), <1>11, <1>12
  <2> QED  BY Zenon, <2>1, PendingStays
<1>14. AtPrimary(n, s, d, m)'
  BY <1>11, <1>13 DEF AtPrimary
<1>15. InPrimary'
  BY Zenon, <1>11, <1>12, <1>14 DEF InPrimary
<1>16. pc' \in PrimaryPCs
  BY Zenon, <1>11 DEF PrimaryPCs
<1>17. IInv'
  BY Zenon, <1>11, <1>15, <1>16, OnlyPrimary
<1> QED
  BY Zenon, <1>11, <1>12, <1>17

(* The log is needed: it is applied, or the header that would tell so was  *)
(* torn.                                                                   *)
LEMMA LoadPending ==
    ASSUME IInv, LoadHive, Recoverable
    PROVE  IInv' /\ (pc' # "down" => Image(mem', len') \in allowed)
<1>1. FilesOK /\ UNCHANGED <<disk, cache, tornFirst>> /\ pc = "down"
  BY Zenon, TypeFacts DEF IInv, LoadHive, diskVars
<1>2. PICK n \in Sectors, s \in 0 .. MaxTime, d \in SUBSET Sectors, m \in allowed :
          GoodLog(n, s, d, m) /\ Writing(n, s, d, m) /\ Pending(n, s)
  BY Zenon DEF Recoverable
<1>3. PICK p : p = OnFile("primary")
  OBVIOUS
<1>4. PICK l : l = OnFile("log")
  OBVIOUS
<1>5. /\ \A a \in Addresses : p[a] = Primary(a)
      /\ CacheL = Nothing /\ l[Header] = BaseBlock(n, s, TRUE) /\ l[Vector] = d /\ d # Torn
  BY Zenon, <1>1, <1>2, <1>3, <1>4, OnFileFacts, Consts DEF GoodLog
<1>6. ~Finished
  BY Zenon, <1>2, PendingUnfinished
<1>7. ASSUME NEW h \in Headers, h.len = n, h.stamp = s,
             Loaded(RecoverData(p, l, n), h, {1} \cup (l[Vector] \cap 1 .. n), "primaryFlush0")
      PROVE  IInv' /\ Image(mem', len') \in allowed
  BY Zenon, <1>1, <1>2, <1>3, <1>4, <1>7, LoadRecovered
<1>8. ASSUME LoadFails, tornFirst PROVE IInv' /\ pc' = "down"
  <2>1. /\ UNCHANGED <<mem, len, dirty, open, baseLen, timeStamp, binStamp, pc, op, synced, allowed>>
        /\ corrupt' = TRUE
    BY Zenon, <1>8 DEF LoadFails, memVars
  <2>2. TypeOK /\ Contained
    BY Zenon DEF IInv
  <2>3. TypeOK'
    BY Zenon, <1>1, <2>1, <2>2 DEF TypeOK
  <2>4. Contained' /\ LoadSucceeds'
    BY Zenon, <1>1, <1>8, <2>2 DEF Contained, DiskP, CacheP, LoadSucceeds
  <2>5. m \in allowed'
    BY Zenon, <2>1
  <2>6. GoodLog(n, s, d, m)' /\ Writing(n, s, d, m)' /\ Pending(n, s)'
    BY Zenon, <1>1, <1>2, <2>5, PendingStays
  <2>7. Recoverable'
    BY Zenon, <2>5, <2>6 DEF Recoverable
  <2> QED  BY Zenon, <1>1, <2>1, <2>3, <2>4, <2>7, OnlyDown DEF Down
<1>9. /\ p[Header] = BaseBlock(n, s, FALSE) \/ p[Header] = Torn
      /\ p[Header] = Torn => DiskP[Header] = Torn /\ Header \notin DOMAIN CacheP
  <2>1. p[Header] = Primary(Header) /\ BaseBlock(n, s, FALSE) # Torn
    BY ZenonT(60), <1>5, Consts, BlockFacts
  <2>2. Header \in DOMAIN CacheP => Primary(Header) = BaseBlock(n, s, FALSE)
    BY Zenon, <1>2 DEF Primary, Writing
  <2>3. Header \notin DOMAIN CacheP => Primary(Header) = DiskP[Header]
    BY Zenon DEF Primary
  <2>4. DiskP[Header] = Torn \/ DiskP[Header] = BaseBlock(n, s, FALSE)
    BY Zenon, <1>2 DEF Pending
  <2> QED  BY Zenon, <2>1, <2>2, <2>3, <2>4
<1>10. CASE p[Header] = BaseBlock(n, s, FALSE)
  <2>1. PICK h : h = BaseBlock(n, s, FALSE)
    OBVIOUS
  <2>2. h \in Headers /\ h # Torn /\ h.len = n /\ h.stamp = s /\ ~h.done
    BY Zenon, <2>1, BlockFacts
  <2>3. p[Header] = h
    BY Zenon, <1>10, <2>1
  <2>4. Loaded(RecoverData(p, l, n), h, {1} \cup (l[Vector] \cap 1 .. n), "primaryFlush0")
    BY Zenon, <1>3, <1>4, <1>5, <2>2, <2>3, LoadCases
  <2> QED  BY Zenon, <1>7, <2>2, <2>4
<1>11. CASE p[Header] = Torn
  <2>1. /\ DiskP[Header] = Torn /\ BaseBlock(n, s, FALSE) # Torn /\ DOMAIN CacheP = {}
        /\ tornFirst \/ (DiskP[1] \in SectorRecs /\ DiskP[1].stamp = s)
    <3>1. DiskP[Header] = Torn /\ BaseBlock(n, s, FALSE) # Torn
      BY Zenon, <1>9, <1>11, BlockFacts
    <3> QED  BY Zenon, <1>2, <1>6, <1>9, <1>11, <3>1 DEF Writing
  <2>2. p[1] = DiskP[1]
    BY Zenon, <1>5, <2>1, Consts DEF Primary
  <2>3. PICK h : h = BaseBlock(n, s, TRUE)
    OBVIOUS
  <2>4. h \in Headers /\ h # Torn /\ h.len = n /\ h.stamp = s /\ h.done /\ l[Header] = h
    BY Zenon, <1>5, <2>3, BlockFacts
  <2>5. CASE p[1] = Torn
    <3>1. LoadFails
      BY Zenon, <1>3, <1>4, <1>11, <2>5, LoadCases
    <3>2. tornFirst
      BY Zenon, <2>1, <2>2, <2>5, Consts
    <3> QED  BY Zenon, <1>8, <3>1, <3>2
  <2>6. CASE p[1] # Torn
    <3>1. LogHeaderValid(l, p[1].stamp) <=> p[1].stamp = s
      BY <2>4 DEF LogHeaderValid
    <3>2. \/ p[1].stamp # s /\ LoadFails
          \/ Loaded(RecoverData(p, l, n), h, {1} \cup (l[Vector] \cap 1 .. n), "primaryFlush0")
      <4>1. \/ ~(LogHeaderValid(l, p[1].stamp) /\ l[Vector] # Torn) /\ LoadFails
            \/ Loaded(RecoverData(p, l, l[Header].len), l[Header],
                      {1} \cup (l[Vector] \cap 1 .. l[Header].len), "primaryFlush0")
        BY Zenon, <1>3, <1>4, <1>11, <2>6, LoadCases
      <4> QED  BY Zenon, <1>5, <2>4, <3>1, <4>1
    <3>3. CASE p[1].stamp # s /\ LoadFails
      <4>1. tornFirst
        BY Zenon, <2>1, <2>2, <3>3
      <4> QED  BY Zenon, <1>8, <3>3, <4>1
    <3>4. CASE Loaded(RecoverData(p, l, n), h, {1} \cup (l[Vector] \cap 1 .. n), "primaryFlush0")
      BY Zenon, <1>7, <2>4, <3>4
    <3> QED  BY Zenon, <3>2, <3>3, <3>4
  <2> QED  BY Zenon, <2>5, <2>6
<1> QED
  BY Zenon, <1>9, <1>10, <1>11

LEMMA LoadStep ==
    ASSUME IInv, LoadHive
    PROVE  IInv' /\ (pc' # "down" => Image(mem', len') \in allowed)
<1>1. Complete \/ Recoverable
  BY Zenon DEF IInv, Down, LoadHive
<1> QED
  BY Zenon, <1>1, LoadComplete, LoadPending

-----------------------------------------------------------------------------
LEMMA Initially == Init => IInv
<1> SUFFICES ASSUME Init PROVE IInv
  OBVIOUS
<1>1. PICK v \in Values, n \in Sectors :
         /\ mem = [i \in Sectors |-> IF i <= n THEN v ELSE Torn]
         /\ len = n
         /\ baseLen = n
         /\ disk = [f \in Files |-> [a \in Addresses |->
                       IF f = "log" \/ a \notin {Header} \cup 1 .. n THEN Torn
                       ELSE IF a = Header THEN BaseBlock(n, 0, TRUE) ELSE Sector(v, 0)]]
  BY Zenon DEF Init
<1>2. /\ cache = [f \in Files |-> Nothing] /\ dirty = {} /\ open = FALSE /\ timeStamp = 0
      /\ binStamp = 0 /\ pc = "idle" /\ op = "sync" /\ synced = Image(mem, len)
      /\ allowed = {synced} /\ tornFirst = FALSE /\ corrupt = FALSE
  BY Zenon DEF Init
<1>3. /\ 0 \in 0 .. MaxTime /\ n \in 0 .. MaxLength /\ n \in 0 .. n /\ n <= n
      /\ 1 .. n \subseteq Sectors /\ \A i \in Sectors : i <= n <=> i \in 1 .. n
      /\ \A i \in 1 .. n : i <= n
  BY ConstantsAssumption DEF Sectors
<1>4. /\ DOMAIN disk = Files /\ \A f \in Files : DOMAIN disk[f] = Addresses
      /\ DOMAIN cache = Files /\ \A f \in Files : cache[f] = Nothing
      /\ CacheP = Nothing /\ DOMAIN CacheP = {}
  BY <1>1, <1>2, NothingFacts DEF CacheP, Files
<1>5. \A a \in Addresses : DiskP[a] = IF a \notin {Header} \cup 1 .. n THEN Torn
                                      ELSE IF a = Header THEN BaseBlock(n, 0, TRUE) ELSE Sector(v, 0)
  BY <1>1 DEF DiskP, Files
<1>6. Sector(v, 0) \in SectorRecs /\ Sector(v, 0).val = v
  BY <1>3 DEF Sector, SectorRecs
<1>7. DiskP[Header] = BaseBlock(n, 0, TRUE) /\ \A i \in 1 .. n : DiskP[i] = Sector(v, 0) /\ mem[i] = v
  BY Zenon, <1>1, <1>3, <1>5, Consts
<1>8. BaseBlock(n, 0, TRUE) \in Headers /\ BaseBlock(n, 0, TRUE).len = n /\ BaseBlock(n, 0, TRUE).done
  BY Zenon, <1>3, BlockFacts
<1>9. TypeOK
  <2>1. mem \in [Sectors -> Values \cup {Torn}]
    BY Zenon, <1>1
  <2>2. \A f \in Files : DOMAIN cache[f] \subseteq Addresses
    BY Zenon, <1>4, NothingFacts
  <2> QED  BY Zenon, <1>1, <1>2, <1>3, <1>4, <2>1, <2>2 DEF TypeOK, PCs
<1>10. Contained
  BY Zenon, <1>4, <1>5, <1>6, Consts DEF Contained
<1>11. Current
  <2>1. FileImage = [i \in 1 .. n |-> DiskP[i].val]
    BY <1>7, <1>8 DEF FileImage
  <2>2. \A i \in 1 .. n : DiskP[i].val = mem[i]
    BY <1>6, <1>7
  <2>3. FileImage = synced
    BY Zenon, <1>1, <1>2, <2>1, <2>2 DEF Image
  <2>4. DiskP[Header] \in Headers /\ DiskP[Header].len = n /\ DiskP[Header].done
    BY <1>7, <1>8
  <2> QED  BY ZenonT(60), <1>2, <1>4, <1>6, <1>7, <2>3, <2>4 DEF Current, Complete, Finished
<1>12. Mirrors
  <2>1. DiskP[Header].len = n
    BY <1>7, <1>8
  <2>2. \A i \in 1 .. n : DiskP[i].val = mem[i] /\ mem[i] \in Values
    BY <1>6, <1>7
  <2> QED  BY Zenon, <1>1, <1>3, <2>1, <2>2 DEF Mirrors
<1>13. AtRest
  <2>1. \A i \in 1 .. len : Val(Primary(i)) = mem[i]
    BY Zenon, <1>1, <1>4, <1>6, <1>7, ValFacts DEF Primary
  <2>2. DiskP[Header] = BaseBlock(len, timeStamp, TRUE)
    BY Zenon, <1>1, <1>2, <1>7
  <2>3. "idle" # "logHeader"
    BY Zenon
  <2> QED  BY Zenon, <1>2, <1>11, <1>12, <2>1, <2>2, <2>3 DEF AtRest
<1>14. InLog /\ InPrimary /\ Shrinking /\ Down /\ LoadSucceeds
  BY <1>2 DEF InLog, InPrimary, Shrinking, Down, LoadSucceeds, LogPCs, PrimaryPCs
<1> QED
  BY Zenon, <1>9, <1>10, <1>13, <1>14 DEF IInv

(* Nothing moves.                                                          *)
LEMMA StutterStep == ASSUME IInv, UNCHANGED vars PROVE IInv'
<1>1. /\ UNCHANGED <<disk, cache, mem, len, dirty, open, baseLen, timeStamp, binStamp, pc, op>>
      /\ UNCHANGED <<synced, allowed, tornFirst, corrupt>>
  BY Zenon DEF vars, diskVars, memVars, history
<1>2. DiskP' = DiskP /\ CacheP' = CacheP /\ DiskL' = DiskL /\ CacheL' = CacheL
  BY Zenon, <1>1, FilesSame
<1>3. /\ TypeOK /\ Contained /\ LoadSucceeds /\ AtRest /\ InLog /\ InPrimary /\ Shrinking /\ Down
      /\ FilesOK
  BY Zenon, TypeFacts DEF IInv
<1>4. TypeOK' /\ Contained' /\ LoadSucceeds'
  BY Zenon, <1>1, <1>2, <1>3 DEF TypeOK, Contained, LoadSucceeds
<1>5. (Finished => Finished') /\ (Complete => Complete')
  BY Zenon, <1>1, <1>2, FinishedStays DEF Complete
<1>6. Current => Current'
  <2>1. Current => CacheP' = Nothing /\ synced \in allowed'
    BY Zenon, <1>1, <1>2 DEF Current, Complete, Finished
  <2> QED  BY Zenon, <1>1, <1>2, <2>1, CurrentStays
<1>7. Mirrors => Mirrors'
  BY Zenon, <1>1, <1>2, <1>3, MirrorsStays
<1>8. ASSUME NEW n, NEW s, NEW d, NEW m
      PROVE  /\ GoodLog(n, s, d, m) => GoodLog(n, s, d, m)'
             /\ Writing(n, s, d, m) => Writing(n, s, d, m)'
             /\ Pending(n, s) => Pending(n, s)'
             /\ AtPrimary(n, s, d, m) => AtPrimary(n, s, d, m)'
  <2>1. GoodLog(n, s, d, m) => GoodLog(n, s, d, m)'
    BY Zenon, <1>1, <1>2 DEF GoodLog
  <2>2. Writing(n, s, d, m) => Writing(n, s, d, m)'
    BY Zenon, <1>1, <1>2, <1>5 DEF Writing, Remain
  <2>3. Pending(n, s) => Pending(n, s)'
    BY ZenonT(60), <1>2 DEF Pending
  <2>4. AtPrimary(n, s, d, m) => AtPrimary(n, s, d, m)'
    BY <1>1, <1>2, <1>6, <1>7, <2>1, <2>2, <2>3 DEF AtPrimary, Remain
  <2> QED  BY Zenon, <2>1, <2>2, <2>3, <2>4
<1>9. CASE pc \in {"idle", "logHeader"}
  <2>1. (Current /\ DiskP[Header].len <= len) \/ Interrupted =>
            (Current /\ DiskP[Header].len <= len)' \/ Interrupted'
    <3>1. Current => DiskP[Header].len \in Int
      BY DEF Current, Complete, Finished, Headers, Sectors
    <3>2. len \in Int /\ len' \in Int /\ len <= len'
      BY <1>1, <1>3, TypeFacts
    <3> QED  BY ZenonT(60), <1>1, <3>1, <3>2, Undisturbed
  <2>2. \A i : Val(Primary(i))' = Val(Primary(i))
    BY Zenon, <1>2 DEF Primary, Val
  <2>3. AtRest'
    BY ZenonT(60), <1>1, <1>2, <1>3, <1>6, <1>7, <2>1, <2>2 DEF AtRest
  <2> QED  BY Zenon, <1>1, <1>4, <1>9, <2>3, OnlyRest
<1>10. CASE pc \in LogPCs
  <2>1. Image(mem, len)' = Image(mem, len) /\ \A i, t : Contents(i, t)' = Contents(i, t)
    BY ZenonT(60), <1>1 DEF Image, Contents
  <2>2. InLog'
    BY <1>1, <1>2, <1>3, <1>6, <1>7, <1>10, <2>1 DEF InLog
  <2> QED  BY Zenon, <1>1, <1>4, <1>10, <2>2, OnlyLog
<1>11. CASE pc \in PrimaryPCs
  <2>1. PICK n, s, d, m : /\ n = len /\ s = timeStamp /\ d = dirty /\ m = Image(mem, len)
                          /\ AtPrimary(n, s, d, m)
    BY Zenon, <1>3, <1>11 DEF InPrimary
  <2>2. /\ n = len' /\ s = timeStamp' /\ d = dirty' /\ m = Image(mem', len')
        /\ AtPrimary(n, s, d, m)'
    BY Zenon, <1>1, <1>8, <2>1 DEF Image
  <2>3. InPrimary'
    BY Zenon, <2>2 DEF InPrimary
  <2> QED  BY Zenon, <1>1, <1>4, <1>11, <2>3, OnlyPrimary
<1>12. CASE pc = "shrinkLog"
  <2>1. Shrinking'
    BY Zenon, <1>1, <1>2, <1>3, <1>6 DEF Shrinking
  <2> QED  BY Zenon, <1>1, <1>4, <1>12, <2>1, OnlyShrinking
<1>13. CASE pc = "down"
  <2>1. Recoverable => Recoverable'
    BY Zenon, <1>1, <1>8 DEF Recoverable
  <2> QED  BY ZenonT(60), <1>1, <1>3, <1>4, <1>5, <1>13, <2>1, OnlyDown DEF Down
<1>14. pc \in PCs
  BY Zenon, <1>3 DEF TypeOK
<1> QED
  BY Zenon, <1>9, <1>10, <1>11, <1>12, <1>13, <1>14 DEF PCs, LogPCs, PrimaryPCs

LEMMA Inductive == ASSUME Completes PROVE IInv /\ [Next]_vars => IInv'
<1> SUFFICES ASSUME IInv, [Next]_vars PROVE IInv'
  OBVIOUS
<1> QED
  BY Zenon, ModifyStep, AddBinStep, SyncHiveStep, LogHeaderStep, LogFlush1Step, LogVectorStep,
     LogBodyStep, LogFlush2Step, LogHeader2Step, LogFlush3Step, PrimaryFlush0Step,
     PrimaryHeaderStep, PrimaryFlush1Step, PrimaryBodyStep, PrimaryFlush2Step,
     PrimaryHeader2Step, PrimaryFlush3Step, ShrinkLogStep, RefreshStep, CrashStep, LoadStep,
     StutterStep DEF Next

-----------------------------------------------------------------------------
(* The types of a hive of any length.                                      *)
THEOREM HiveTypes == ASSUME Completes PROVE Spec => []TypeOK
<1>1. Init => IInv
  BY Initially
<1>2. IInv /\ [Next]_vars => IInv'
  BY Zenon, Inductive
<1>3. IInv => TypeOK
  BY ZenonT(60) DEF IInv
<1> QED
  BY <1>1, <1>2, <1>3, PTL DEF Spec

(* After any number of failures and crashes HvLoadHive reads the hive      *)
(* unless a crash has torn the header that announces a primary write.      *)
THEOREM LoadsSucceed == ASSUME Completes PROVE Spec => []LoadSucceeds
<1>1. Init => IInv
  BY Initially
<1>2. IInv /\ [Next]_vars => IInv'
  BY Zenon, Inductive
<1>3. IInv => LoadSucceeds
  BY Zenon DEF IInv
<1> QED
  BY <1>1, <1>2, <1>3, PTL DEF Spec

(* HvpWriteLog overwrites no log that the primary file needs.              *)
THEOREM LogNeeded == ASSUME Completes PROVE Spec => []LogKept
<1>1. Init => IInv
  BY Initially
<1>2. IInv /\ [Next]_vars => IInv'
  BY Zenon, Inductive
<1>3. IInv => LogKept
  <2> SUFFICES ASSUME IInv, pc \in LogPCs PROVE DiskP[Header] # Torn /\ DiskP[Header].done
    BY Zenon DEF LogKept, DiskP
  <2>1. DiskP[Header] \in Headers /\ DiskP[Header].done
    BY Zenon DEF IInv, InLog, Current, Complete, Finished
  <2> QED  BY Zenon, <2>1, Consts
<1> QED
  BY <1>1, <1>2, <1>3, PTL DEF Spec

(* HvMarkDirty misses no sector, and a clean hive is on the disk.          *)
THEOREM DirtyIsTracked == ASSUME Completes PROVE Spec => []DirtyTracked
<1>1. Init => IInv
  BY Initially
<1>2. IInv /\ [Next]_vars => IInv'
  BY Zenon, Inductive
<1>3. IInv => DirtyTracked
  <2> SUFFICES ASSUME IInv PROVE DirtyTracked
    OBVIOUS
  <2>1. TypeOK /\ AtRest /\ FilesOK /\ 1 .. len \subseteq Sectors
    BY Zenon, TypeFacts DEF IInv
  <2>2. pc = "idle" /\ dirty # {} => 1 \in dirty
    BY Zenon, <2>1 DEF AtRest
  <2>3. ASSUME pc = "idle" PROVE \A i \in 1 .. len : i \notin dirty => Val(OnFile("primary")[i]) = mem[i]
    <3>1. \A i \in 1 .. len : OnFile("primary")[i] = Primary(i)
      BY Zenon, <2>1, OnFileFacts, Consts
    <3> QED  BY Zenon, <2>1, <2>3, <3>1 DEF AtRest
  <2>4. ASSUME pc = "idle", dirty = {}, ~open
        PROVE  /\ DiskP[Header] = BaseBlock(len, timeStamp, TRUE)
               /\ \A i \in 1 .. len : Val(DiskP[i]) = mem[i]
               /\ CacheP = Nothing
    <3>1. Current /\ DiskP[Header] = BaseBlock(len, timeStamp, TRUE)
      BY Zenon, <2>1, <2>4 DEF AtRest
    <3>2. CacheP = Nothing
      BY Zenon, <3>1 DEF Current, Complete
    <3>3. \A i : Primary(i) = DiskP[i]
      BY Zenon, <3>2, NothingFacts DEF Primary
    <3>4. \A i \in 1 .. len : Val(Primary(i)) = mem[i]
      BY Zenon, <2>1, <2>4 DEF AtRest
    <3> QED  BY Zenon, <3>1, <3>2, <3>3, <3>4
  <2>5. CleanIsDurable
    BY Zenon, <2>4 DEF CleanIsDurable, DiskP, CacheP
  <2> QED  BY Zenon, <2>2, <2>3, <2>5 DEF DirtyTracked
<1> QED
  BY <1>1, <1>2, <1>3, PTL DEF Spec

(* What HvLoadHive brings into memory after any number of failures and     *)
(* crashes, and what HvRefreshHive goes back to, is the whole of an image  *)
(* that one HvSyncHive wrote.                                              *)
THEOREM NoMixture == ASSUME Completes PROVE Spec => ReadsASync
<1>1. Init => IInv
  BY Initially
<1>2. IInv /\ [Next]_vars => IInv'
  BY Zenon, Inductive
<1>3. IInv /\ [Next]_vars => [pc = "down" /\ pc' # "down" => Image(mem', len') \in allowed]_vars
  <2> SUFFICES ASSUME IInv, Next, pc = "down", pc' # "down" PROVE Image(mem', len') \in allowed
    BY Zenon
  <2>1. CASE LoadHive
    BY Zenon, <2>1, LoadStep
  <2>2. ASSUME ~LoadHive PROVE FALSE
    BY Zenon, <2>2 DEF Next, Modify, AddBin, SyncHive, LogHeader, LogFlush1, LogVector, LogBody,
         LogFlush2, LogHeader2, LogFlush3, PrimaryFlush0, PrimaryHeader, PrimaryFlush1, PrimaryBody,
         PrimaryFlush2, PrimaryHeader2, PrimaryFlush3, ShrinkLog, RefreshHive, Crash
  <2> QED  BY Zenon, <2>1, <2>2
<1>4. IInv /\ [Next]_vars =>
      [pc = "idle" /\ pc' = "idle" /\ dirty # {} /\ dirty' = {} /\ ~open' =>
           Image(mem', len') = synced]_vars
  <2> SUFFICES ASSUME IInv, Next, pc = "idle", pc' = "idle", dirty # {}, dirty' = {}, ~open'
               PROVE  Image(mem', len') = synced
    BY Zenon
  <2>1. CASE RefreshHive
    BY Zenon, <2>1, RefreshStep
  <2>2. ~(\E i \in Sectors, v \in Values : Modify(i, v)) /\ ~(\E v \in Values : AddBin(v))
    BY Zenon DEF Modify, AddBin, MarkDirty
  <2>3. ASSUME ~RefreshHive PROVE FALSE
    BY Zenon, <2>2, <2>3 DEF Next, SyncHive, LogHeader, LogFlush1, LogVector, LogBody,
         LogFlush2, LogHeader2, LogFlush3, PrimaryFlush0, PrimaryHeader, PrimaryFlush1, PrimaryBody,
         PrimaryFlush2, PrimaryHeader2, PrimaryFlush3, ShrinkLog, Crash, LoadHive
  <2> QED  BY Zenon, <2>1, <2>3
<1> QED
  BY <1>1, <1>2, <1>3, <1>4, PTL DEF Spec, ReadsASync, LoadsASync, RefreshesASync
=============================================================================
