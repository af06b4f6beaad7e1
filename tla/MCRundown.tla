----------------------------- MODULE MCRundown -----------------------------
(* The two forms of rundown protection for TLC, with every operation: a    *)
(* behaviour is one of a single word or one of a word per processor.       *)
EXTENDS Rundown

CONSTANTS Releasers   \* threads that release in the cache-aware form

VARIABLES form,
          refs, caCount, caEvent, caWaiter, index, total, caPc, leaving,
          blockPtr, caHeld                              \* RundownCacheAware

C == INSTANCE RundownCacheAware WITH
        Number <- 3, Threads <- Releasers, MaxHeld <- 3, MaxEarly <- 1, Width <- 5,
        WaitAfterCompleted <- FALSE, waitCount <- caCount, wakeEvent <- caEvent,
        waiter <- caWaiter, pc <- caPc, held <- caHeld

caVars == <<refs, caCount, caEvent, caWaiter, index, total, caPc, leaving,
            blockPtr, caHeld>>

Word(A) == form = "word" /\ A /\ UNCHANGED <<caVars, form>>
CacheAware(A) == form = "cacheAware" /\ A /\ UNCHANGED <<vars, form>>

MCInit == Init /\ C!Init /\ form \in {"word", "cacheAware"}

MCNext == Word(Next) \/ CacheAware(C!Next)

mcVars == <<vars, caVars, form>>

(* The scheduler runs every thread that is inside a call; and a client     *)
(* gives back each protection it was granted, which is what the wait is    *)
(* for.  Nothing is assumed of calls that acquire.                         *)
MCSpec == /\ MCInit /\ [][MCNext]_mcVars
          /\ \A t \in Threads : WF_mcVars(\/ Word(Continue(t))
                                          \/ t \in Releasers /\ CacheAware(C!Continue(t)))
          /\ \A k \in Tokens : SF_mcVars(Word(ReleaseOf(k)))
          /\ WF_mcVars(Word(WaitWake) \/ CacheAware(C!InWait))
          /\ WF_mcVars(CacheAware(C!GiveBack))

(* Once the wait over all processors has returned nobody has protection;  *)
(* a releaser that decrements a wait block finds the frame of a wait that  *)
(* has not returned; and the event is set only while the teardown waits    *)
(* for it.                                                                 *)
CacheAwareSafe == C!TeardownSafe /\ C!BlockLive /\ C!EventLive

(* The words, the total and the wait block's count add up, modulo the      *)
(* width, to what is outstanding on all processors, each within its width, *)
(* and ASSERT ((LONG_PTR) TotalCount >= 0).                                *)
CountsAddUp == C!TypeOK /\ C!CountsAddUp /\ C!TotalAssert

(* A wait for outstanding protections, in either form, returns once they   *)
(* are given back: the wake-up of the last releaser is never lost.  The    *)
(* one of the cache-aware form begins with the first word it marks.        *)
WaitReturns ==
    (waiter = "wait" \/ caWaiter = "mark")
       ~> (IF form = "word" THEN waiter # "wait" ELSE caWaiter = "returned")
=============================================================================
