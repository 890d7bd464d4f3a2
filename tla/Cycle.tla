------------------------------- MODULE Cycle -------------------------------
(***************************************************************************)
(* What the collector of allocator.c and trace.c promises about a phase,   *)
(* with no thread and no program counter in it: collections follow one     *)
(* another, a collection first notifies every thread, only then lets       *)
(* objects of that collection be swept into the pool, and the pool never   *)
(* holds an object of a collection whose sweep has not been opened.        *)
(* Phase n of this module is version 2*n of the code, which counts by two. *)
(***************************************************************************)
EXTENDS Integers

CONSTANTS Threads,  \* the threads to notify
          Initial   \* the number of allocation caches in the pool at the start

VARIABLES epoch,    \* the current collection
          notified, \* notified[t]: the last collection thread t was told of
          opened,   \* the last collection whose sweep was opened
          pool      \* [ver, cnt]: the pool's collection and its caches

vars == <<epoch, notified, opened, pool>>

AllNotified == \A t \in Threads : notified[t] = epoch

Init == /\ epoch = 0
        /\ notified = [t \in Threads |-> 0]
        /\ opened = 0
        /\ pool = [ver |-> 0, cnt |-> Initial]

\* A collection begins only when the one before it is open for sweeping.
Begin == /\ opened = epoch
         /\ AllNotified
         /\ pool.ver = epoch
         /\ epoch' = epoch + 1
         /\ UNCHANGED <<notified, opened, pool>>

\* The caches left from the previous collection are dropped.
Discard == /\ pool.ver = epoch - 1
           /\ pool' = [ver |-> epoch, cnt |-> 0]
           /\ UNCHANGED <<epoch, notified, opened>>

Notify(t) == /\ pool.ver = epoch
             /\ notified[t] < epoch
             /\ notified' = [notified EXCEPT ![t] = epoch]
             /\ UNCHANGED <<epoch, opened, pool>>

\* Tracing has ended: every unmarked object may be taken back.
Open == /\ opened < epoch
        /\ pool.ver = epoch
        /\ AllNotified
        /\ opened' = epoch
        /\ UNCHANGED <<epoch, notified, pool>>

\* A sweeper gives the pool a cache, only while the sweep of the pool's own
\* collection is open.
Put == /\ pool.ver = opened
       /\ pool' = [pool EXCEPT !.cnt = @ + 1]
       /\ UNCHANGED <<epoch, notified, opened>>

Take == /\ pool.ver = opened
        /\ pool.cnt > 0
        /\ pool' = [pool EXCEPT !.cnt = @ - 1]
        /\ UNCHANGED <<epoch, notified, opened>>

Next == \/ Begin \/ Discard \/ Open \/ Put \/ Take
        \/ \E t \in Threads : Notify(t)

Spec == Init /\ [][Next]_vars

=============================================================================
