---------------------------- MODULE MCCallBack -----------------------------
(* Model checking of CallBack.                                             *)
EXTENDS CallBack, TLC

Symmetry == Permutations(Threads) \cup Permutations(Blocks) \cup Permutations(Routines)
=============================================================================
