----------------------------- MODULE MCRegistry -----------------------------
(* The registry for TLC: a behaviour is one of a hive and its files (Hive) *)
(* or one of the lazy flusher, which looks at more than one hive and only  *)
(* at whether each is dirty (LazyFlush).  The values of a sector are       *)
(* interchangeable.                                                        *)
EXTENDS Hive, TLC

CONSTANT SuspendAnytime

VARIABLES unsaved, shrinks, flushed, force, flushPending, hold, diskFull, timer, worker,
          forced, place, left, more, refused

F == INSTANCE LazyFlush WITH Number <- 3, HiveCount <- 2

flushVars == <<unsaved, shrinks, flushed, force, flushPending, hold, diskFull, timer, worker,
               forced, place, left, more, refused>>

(* Bounds: one operation may fail ("failing") between two crashes, for a   *)
(* hive that is shorter than MaxLength; between the failure and the crash  *)
(* it does not grow, and is modified again if it has one sector.  A hive   *)
(* of that length, whose log holds sectors that are not neighbours, for    *)
(* the second does not change, sees no failure and the clock stands still  *)
(* ("length").                                                             *)
VARIABLE bounds

MCvars == <<vars, flushVars, bounds>>

MCInit ==
    /\ Init /\ F!Init
    /\ bounds \in {"failing", "length", "lazy"}
    /\ bounds = "failing" => len < MaxLength
    /\ bounds # "failing" => len = MaxLength
    /\ bounds # "lazy" => ~diskFull /\ \A h \in F!Hives : ~unsaved[h]

(* This step is an operation that fails.                                   *)
Fails == /\ pc \in FailPoints
         /\ ~(pc = "logHeader" /\ open)
         /\ pc' = "idle" \/ (pc' = "down" /\ len' # 0)

HiveNext == /\ Next
            /\ IF bounds = "length" THEN timeStamp' = 0 /\ 2 \notin dirty'
                                    ELSE len' < MaxLength
            /\ Fails => bounds = "failing"
            /\ bounds = "failed" /\ pc = "idle" =>
                  len' <= len /\ (len > 1 => mem' = mem \/ dirty' = {})
            /\ bounds' = IF bounds = "length" THEN bounds
                         ELSE IF Fails \/ (bounds = "failed" /\ pc' # "down") THEN "failed"
                         ELSE "failing"

MCNext == \/ bounds # "lazy" /\ HiveNext /\ UNCHANGED flushVars
          \/ bounds = "lazy" /\ F!Next /\ UNCHANGED <<vars, bounds>>

MCSpec == MCInit /\ [][MCNext]_MCvars

(* The types.                                                              *)
Types == TypeOK /\ F!TypeOK

(* When the timer of the lazy flusher goes off and the flusher is enabled, *)
(* CmpLazyFlushWorker is queued or at work.                                *)
TimerQueuesWorker == F!TimerQueuesWorker

(* A complete sweep of the lazy flusher has passed over no hive but those  *)
(* that would shrink.                                                      *)
SweepComplete == F!SweepComplete

Symmetry == Permutations(Values)

=============================================================================
