------------------------------- MODULE RWLock -------------------------------
(***************************************************************************)
(* What a push lock promises its clients: one exclusive owner or any       *)
(* number of sharers, conversions in place, and release by the owner.      *)
(***************************************************************************)
CONSTANT Threads

VARIABLE held   \* held[t]: "none", "shared" or "exclusive"

Init == held = [t \in Threads |-> "none"]

Others(t, modes) == \A u \in Threads \ {t} : held[u] \in modes

Acquire(t) ==
    /\ held[t] = "none"
    /\ \/ Others(t, {"none"}) /\ held' = [held EXCEPT ![t] = "exclusive"]
       \/ Others(t, {"none", "shared"}) /\ held' = [held EXCEPT ![t] = "shared"]

Release(t) == /\ held[t] # "none"
              /\ held' = [held EXCEPT ![t] = "none"]

Downgrade(t) == /\ held[t] = "exclusive"
                /\ held' = [held EXCEPT ![t] = "shared"]

Upgrade(t) == /\ held[t] = "shared"
              /\ Others(t, {"none"})
              /\ held' = [held EXCEPT ![t] = "exclusive"]

Next == \E t \in Threads : Acquire(t) \/ Release(t) \/ Downgrade(t) \/ Upgrade(t)

Spec == Init /\ [][Next]_held
=============================================================================
