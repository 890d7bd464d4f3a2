----------------------------- MODULE PointerSet -----------------------------
(***************************************************************************)
(* The set of hazard pointers of simpleSet.c: a table of SetSize ints with *)
(* open addressing, filled at a collection and only emptied as a whole.    *)
(* What is stored is the low half of a pointer, so that different objects  *)
(* may be the same to it; 0 is the empty cell.                             *)
(***************************************************************************)
EXTENDS Integers, FiniteSets

CONSTANTS SetSize, \* max, the cells of the table
          IntRange \* 2^32: the values of an unsigned

ASSUME PointerSetAssumption ==
    SetSize \in Nat \ {0} /\ IntRange \in Nat /\ SetSize <= IntRange

Slots == 0 .. SetSize - 1
Ints == 0 .. IntRange - 1
Tables == [Slots -> Ints]
Clean == [s \in Slots |-> 0]

\* (int)(long)addr.
Truncated(addr) == addr % IntRange

\* hash_fun: the sum wraps around at the width of an int.
HashFun(d, try) == ((d + try) % IntRange) % SetSize

\* The tries of hash_insert and hash_retrieve end at d or at an empty cell.
Stops(table, d, try) == table[HashFun(d, try)] \in {0, d}
First(table, d) == CHOOSE try \in Ints : /\ Stops(table, d, try)
                                         /\ \A k \in 0 .. try - 1 : ~ Stops(table, d, k)
Place(table, d) == HashFun(d, First(table, d))

\* Mutant of HashInsert: the cell of the first try is taken, whatever is in it.
HashInsertHome(table, d) == [table EXCEPT ![HashFun(d, 0)] = d]

\* hash_insert, for d # 0.
HashInsert(table, d) == [table EXCEPT ![Place(table, d)] = d]

\* hash_retrieve.
HashRetrieve(table, d) == table[Place(table, d)] = d

\* What has been added; the searches need a cell to end at, and no cell of an
\* element may have been passed over for an empty one.
Elements(table) == {table[s] : s \in Slots} \ {0}
Room(table) == \E s \in Slots : table[s] = 0
NoGap(table) == \A e \in Elements(table) : HashRetrieve(table, e)

\* number_of_elements.
NumElements(table) == Cardinality({s \in Slots : table[s] # 0})
=============================================================================
