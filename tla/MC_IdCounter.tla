------------------------------ MODULE MC_IdCounter ------------------------------
(* Three threads over a counter that wraps after 4, in a 4-bit integer. *)
EXTENDS IdCounter, TLC

CONSTANTS t1, t2, t3

MC_Symmetry == Permutations(Threads)
================================================================================
