---------------------------- MODULE RundownSpec ----------------------------
(***************************************************************************)
(* What rundown protection promises (ntoskrnl/ex/rundown.c, header         *)
(* comment): accesses made under a granted protection are safe until it is *)
(* released; the teardown thread's wait returns once every granted         *)
(* protection has been released; nothing is granted after the teardown has *)
(* begun, until the structure is re-initialised.                           *)
(*                                                                         *)
(* A granted protection is a member of Tokens, so a call that takes a      *)
(* Count of protections takes a set of that many tokens.                   *)
(***************************************************************************)
CONSTANT Tokens     \* the protections that can be outstanding at once

VARIABLES phase,    \* "open": accessible; "closing": teardown waits; "closed"
          granted   \* the protections granted and not yet released

vars == <<phase, granted>>

Init == /\ phase = "open"
        /\ granted = {}

(* A protection is only granted while the structure is open.               *)
Acquire(S) == /\ phase = "open"
              /\ S \cap granted = {}
              /\ granted' = granted \cup S
              /\ UNCHANGED phase

Release(S) == /\ S \subseteq granted
              /\ granted' = granted \ S
              /\ UNCHANGED phase

BeginTeardown == /\ phase = "open"
                 /\ granted # {}
                 /\ phase' = "closing"
                 /\ UNCHANGED granted

(* The teardown wait returns only when nothing is protected any more.      *)
EndTeardown == /\ phase \in {"open", "closing"}
               /\ granted = {}
               /\ phase' = "closed"
               /\ UNCHANGED granted

Reopen == /\ phase = "closed"
          /\ phase' = "open"
          /\ UNCHANGED granted

Next == \/ \E S \in (SUBSET Tokens) \ {{}} : Acquire(S) \/ Release(S)
        \/ BeginTeardown
        \/ EndTeardown
        \/ Reopen

Spec == Init /\ [][Next]_vars
=============================================================================
