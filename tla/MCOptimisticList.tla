-------------------------- MODULE MCOptimisticList --------------------------
(***************************************************************************)
(* Two threads on a list of two entries, keys 1 and 2.  In a table of 12   *)
(* cells the addresses of a and b collide.                                 *)
(***************************************************************************)
EXTENDS OptimisticList, TLC

CONSTANTS t1, t2, a, b

Symmetry == Permutations(Threads)

Addresses == (a :> 3) @@ (b :> 15)

Bound(m, l, c, p) ==
    [mode |-> m, list |-> l, calls |-> c, phases |-> p]

\* Three calls are enough for a thread to read an entry that a second one
\* deletes and unlinks and that is allocated again.
EveryVersion == {Bound("collected", <<a>>, 3, 2), Bound("manual", <<a, b>>, 3, 2),
                 Bound("none", <<a, b>>, 4, 0)}
Collected == {Bound("collected", <<a>>, 3, 2)}
=============================================================================
