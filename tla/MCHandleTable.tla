---------------------------- MODULE MCHandleTable ----------------------------
(* HandleTable with few threads, pages and entries.                        *)
EXTENDS HandleTable, TLC

Symmetry == Permutations(Threads)
=============================================================================
