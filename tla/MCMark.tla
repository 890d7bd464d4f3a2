------------------------------- MODULE MCMark -------------------------------
(* The small lists on which TLC runs Mark.                                  *)
EXTENDS Mark, TLC

CONSTANTS m1, m2, a, b, c

\* Mutators are alike, and only safety is checked with it.
Symmetry == Permutations(Mutators)

\* root -> a -> b -> c
ListABC == [x \in {Root, a, b, c} |->
              CASE x = Root -> a [] x = a -> b [] x = b -> c [] OTHER -> Null]

\* root -> a -> b
ListAB == [x \in {Root, a, b} |->
             CASE x = Root -> a [] x = a -> b [] OTHER -> Null]

\* root -> a -> b, and c not linked yet
ListAB_c == [x \in {Root, a, b, c} |->
               CASE x = Root -> a [] x = a -> b [] OTHER -> Null]

\* One collection while the list changes; two, one overtaking the other.
Helped == {[phases |-> 1, mutators |-> {m1}], [phases |-> 2, mutators |-> {}]}
Single == {[phases |-> 2, mutators |-> {m1, m2}]}
Finish == {[phases |-> 1, mutators |-> {}]}
=============================================================================
