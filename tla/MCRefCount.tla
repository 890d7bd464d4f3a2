----------------------------- MODULE MCRefCount -----------------------------
(* RefCount with a list of one node at the start.                           *)
EXTENDS RefCount, TLC

CONSTANTS t1, t2, a, b, c

Symmetry == Permutations(Threads)
ListA == <<a>>
=============================================================================
