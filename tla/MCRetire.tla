------------------------------ MODULE MCRetire ------------------------------
(* Retire with two caches of one object.                                  *)
EXTENDS Retire, TLC

CONSTANTS o1, o2

Symmetry == Permutations(Objects)
TwoCaches == <<<<o1>>, <<o2>>>>
\* Two phase changes; the other thread inserts once.
TwoChanges == {[ver |-> 6, inserts |-> 1]}
=============================================================================
