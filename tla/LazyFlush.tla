----------------------------- MODULE LazyFlush -----------------------------
(***************************************************************************)
(* The lazy flusher of the registry (ntoskrnl/config/cmworker.c, cmapi.c): *)
(* a write arms a timer, whose DPC queues a work item, which syncs a few   *)
(* hives and arms the timer again if there is more to do.  A sweep over    *)
(* the list of hives may take several work items.                          *)
(*                                                                         *)
(* FlushCount is only compared with CmpLazyFlushCount: a hive is "flushed" *)
(* in this sweep or not.  One hive is one step, under its flusher lock.    *)
(***************************************************************************)
EXTENDS Naturals

CONSTANTS Number,           \* hives in CmpHiveListHead that may be flushed lazily
          HiveCount,        \* CmpLazyFlushHiveCount
          SuspendAnytime    \* FALSE: the system is suspended only between work items

VARIABLES
    unsaved,      \* unsaved[h]: DirtyCount # 0
    shrinks,      \* shrinks[h]: HvHiveWillShrink
    flushed,      \* flushed[h]: FlushCount = CmpLazyFlushCount
    force,        \* CmpForceForceFlush
    flushPending, \* CmpLazyFlushPending
    hold,         \* CmpHoldLazyFlush
    diskFull,     \* CmpCannotWriteConfiguration
    timer,        \* CmpLazyFlushTimer is set
    worker,       \* where CmpLazyFlushWorker is
    forced,       \* its ForceFlush
    place,        \* CmpDoFlushNextHive's p; Number + 1 is the head of the list
    left,         \* its HiveCount
    more,         \* DirtyCount # 0
    refused       \* the hives it did not flush because they would shrink

hiveVars == <<unsaved, shrinks, flushed>>
sweepVars == <<forced, place, left, more, refused>>
vars == <<hiveVars, force, flushPending, hold, diskFull, timer, worker, sweepVars>>

Hives == 1 .. Number

(* NtInitializeRegistry has enabled the flusher and armed the timer.       *)
Init == /\ unsaved \in [Hives -> BOOLEAN]
        /\ shrinks = [h \in Hives |-> FALSE]
        /\ flushed = [h \in Hives |-> FALSE]
        /\ force = FALSE
        /\ flushPending = FALSE
        /\ hold = FALSE
        /\ diskFull \in BOOLEAN
        /\ timer = TRUE
        /\ worker = "idle"
        /\ forced = FALSE /\ place = 1 /\ left = 0 /\ more = FALSE /\ refused = {}

-----------------------------------------------------------------------------
(* The worker holds the registry lock exclusively.                         *)
LockedOut == worker \in {"sweep", "finish"} /\ forced

CmpLazyFlush == timer' = (timer \/ ~hold)

(* A write to hive h (HvMarkDirty), after which its last bin is free or    *)
(* not.                                                                    *)
MarkDirty(h, s) ==
    /\ ~LockedOut
    /\ unsaved' = [unsaved EXCEPT ![h] = TRUE]
    /\ shrinks' = [shrinks EXCEPT ![h] = s]
    /\ CmpLazyFlush
    /\ UNCHANGED <<flushed, force, flushPending, hold, diskFull, worker, sweepVars>>

(* CmFlushKey syncs one hive, for which it locks the registry exclusively  *)
(* if that will shrink; a sync that fails changes nothing.                 *)
CmFlushKey(h) ==
    /\ ~LockedOut
    /\ shrinks[h] => worker \notin {"sweep", "finish"}
    /\ unsaved' = [unsaved EXCEPT ![h] = FALSE]
    /\ shrinks' = [shrinks EXCEPT ![h] = FALSE]
    /\ UNCHANGED <<flushed, force, flushPending, hold, diskFull, timer, worker, sweepVars>>

(* CmpDoFlushAll without ForceFlush syncs, or fails to, the hives that     *)
(* would not shrink.                                                       *)
CmpDoFlushAll(S) ==
    /\ ~LockedOut
    /\ \A h \in S : ~shrinks[h]
    /\ unsaved' = [h \in Hives |-> unsaved[h] /\ h \notin S]
    /\ force' = (\E h \in Hives : shrinks[h])
    /\ UNCHANGED <<shrinks, flushed, flushPending, hold, diskFull, timer, worker, sweepVars>>

(* CmSetLazyFlushState, from NtSetSystemPowerState.                        *)
Suspend ==
    /\ ~hold
    /\ SuspendAnytime \/ worker = "idle"
    /\ hold' = TRUE
    /\ UNCHANGED <<hiveVars, force, flushPending, diskFull, timer, worker, sweepVars>>

Resume ==
    /\ hold
    /\ hold' = FALSE
    /\ UNCHANGED <<hiveVars, force, flushPending, diskFull, timer, worker, sweepVars>>

-----------------------------------------------------------------------------
(* CmpLazyFlushDpcRoutine.                                                 *)
TimerFires ==
    /\ timer
    /\ timer' = FALSE
    /\ \/ /\ ~flushPending /\ ~hold
          /\ flushPending' = TRUE
          /\ worker' = "queued"
       \/ /\ flushPending \/ hold
          /\ UNCHANGED <<flushPending, worker>>
    /\ UNCHANGED <<hiveVars, force, hold, diskFull, sweepVars>>

(* CmpLazyFlushWorker begins; it returns at once while the flusher is      *)
(* held.                                                                   *)
WorkerBegins ==
    /\ worker = "queued"
    /\ \/ hold /\ worker' = "idle" /\ UNCHANGED forced
       \/ ~hold /\ worker' = "lock" /\ forced' = force
    /\ UNCHANGED <<hiveVars, force, flushPending, hold, diskFull, timer, place, left, more, refused>>

(* It has the registry lock and begins CmpDoFlushNextHive.                 *)
SweepBegins ==
    /\ worker = "lock"
    /\ worker' = "sweep"
    /\ force' = FALSE
    /\ place' = 1
    /\ left' = IF HiveCount = 0 THEN 1 ELSE HiveCount
    /\ more' = FALSE
    /\ refused' = {}
    /\ UNCHANGED <<hiveVars, flushPending, hold, diskFull, timer, forced>>

(* The loop leaves after the last hive, or after enough of them.           *)
Onwards(stop) ==
    /\ place' = place + 1
    /\ worker' = IF stop \/ place = Number THEN "finish" ELSE "sweep"

(* Mutant: a hive that was flushed in this sweep is flushed again.         *)
VisitFlushedAgain ==
    /\ worker = "sweep"
    /\ flushed[place]
    /\ flushed' = [flushed EXCEPT ![place] = FALSE]
    /\ Onwards(FALSE)
    /\ UNCHANGED <<unsaved, shrinks, force, flushPending, hold, diskFull, timer, forced, left, more, refused>>

(* A hive flushed earlier in this sweep is only counted.                   *)
VisitFlushed ==
    /\ worker = "sweep"
    /\ flushed[place]
    /\ more' = (more \/ unsaved[place])
    /\ Onwards(FALSE)
    /\ UNCHANGED <<hiveVars, force, flushPending, hold, diskFull, timer, forced, left, refused>>

VisitClean ==
    /\ worker = "sweep"
    /\ ~flushed[place] /\ ~unsaved[place]
    /\ flushed' = [flushed EXCEPT ![place] = TRUE]
    /\ Onwards(FALSE)
    /\ UNCHANGED <<unsaved, shrinks, force, flushPending, hold, diskFull, timer, forced, left, more, refused>>

(* HvSyncHive succeeds or not: its BOOLEAN is looked at as an NTSTATUS, to *)
(* which FALSE is STATUS_SUCCESS.                                          *)
VisitSync(ok) ==
    /\ worker = "sweep"
    /\ ~flushed[place] /\ unsaved[place]
    /\ forced \/ ~shrinks[place]
    /\ unsaved' = [unsaved EXCEPT ![place] = ~ok]
    /\ shrinks' = [shrinks EXCEPT ![place] = @ /\ ~ok]
    /\ flushed' = [flushed EXCEPT ![place] = TRUE]
    /\ left' = IF left > 0 THEN left - 1 ELSE left
    /\ Onwards(left = 1 /\ ~forced)
    /\ UNCHANGED <<force, flushPending, hold, diskFull, timer, forced, more, refused>>

(* A hive that would shrink needs the registry lock exclusively.           *)
VisitShrinking ==
    /\ worker = "sweep"
    /\ ~flushed[place] /\ unsaved[place]
    /\ ~forced /\ shrinks[place]
    /\ force' = TRUE
    /\ refused' = refused \cup {place}
    /\ Onwards(FALSE)
    /\ UNCHANGED <<hiveVars, flushPending, hold, diskFull, timer, forced, left, more>>

(* Mutant: CmpLazyFlushPending is not reset.                               *)
WorkerEndsPending ==
    /\ worker = "finish"
    /\ worker' = "idle"
    /\ flushed' = [h \in Hives |-> flushed[h] /\ place <= Number]
    /\ diskFull' = FALSE
    /\ IF place <= Number \/ more THEN CmpLazyFlush ELSE UNCHANGED timer
    /\ UNCHANGED <<unsaved, shrinks, force, flushPending, hold, sweepVars>>

(* The end of CmpLazyFlushWorker.  At the end of the list the sweep is     *)
(* complete and CmpLazyFlushCount goes up.  PostWarning is never TRUE, so  *)
(* the disk is taken not to be full any more.                              *)
WorkerEnds ==
    /\ worker = "finish"
    /\ worker' = "idle"
    /\ flushPending' = FALSE
    /\ flushed' = [h \in Hives |-> flushed[h] /\ place <= Number]
    /\ diskFull' = FALSE
    /\ IF place <= Number \/ more THEN CmpLazyFlush ELSE UNCHANGED timer
    /\ UNCHANGED <<unsaved, shrinks, force, hold, sweepVars>>

Next == \/ \E h \in Hives, s \in BOOLEAN : MarkDirty(h, s)
        \/ \E h \in Hives : CmFlushKey(h)
        \/ \E S \in SUBSET Hives : CmpDoFlushAll(S)
        \/ Suspend \/ Resume
        \/ TimerFires
        \/ WorkerBegins \/ SweepBegins
        \/ VisitFlushed \/ VisitClean \/ VisitShrinking \/ \E ok \in BOOLEAN : VisitSync(ok)
        \/ WorkerEnds

Spec == Init /\ [][Next]_vars

-----------------------------------------------------------------------------
(* The types of the state; CmpDoFlushNextHive's p stays in the list.       *)
TypeOK ==
    /\ unsaved \in [Hives -> BOOLEAN] /\ shrinks \in [Hives -> BOOLEAN]
    /\ flushed \in [Hives -> BOOLEAN]
    /\ {force, flushPending, hold, diskFull, timer, forced, more} \subseteq BOOLEAN
    /\ worker \in {"idle", "queued", "lock", "sweep", "finish"}
    /\ place \in 1 .. Number + 1 /\ left \in 0 .. HiveCount + 1
    /\ worker = "sweep" => place <= Number
    /\ refused \subseteq Hives

(* "controls how many seconds will elapse between when the hive is marked  *)
(* dirty and when the lazy flush worker thread is queued": when the timer  *)
(* goes off and the flusher is enabled, its worker is queued or at work.   *)
TimerQueuesWorker == [][timer /\ ~timer' /\ ~hold => worker' # "idle"]_vars

(* When a sweep over the list is complete, over however many work items    *)
(* and whatever was written meanwhile, no hive was passed over but those   *)
(* that would shrink, and none at all by a worker that has the registry to *)
(* itself.                                                                 *)
SweepComplete ==
    worker = "finish" /\ place > Number =>
        /\ {h \in Hives : ~flushed[h]} = refused
        /\ forced => refused = {}
=============================================================================
