------------------------------- MODULE MCPool -------------------------------
(* Pool with two entries in the pool at the start.                          *)
EXTENDS Pool, TLC

CONSTANTS t1, t2, e1, e2, e3

Symmetry == Permutations(Threads)
TwoEntries == <<e1, e2>>
=============================================================================
