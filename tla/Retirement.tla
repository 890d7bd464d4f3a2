----------------------------- MODULE Retirement -----------------------------
(***************************************************************************)
(* What manual retirement with hazard pointers promises: an object that    *)
(* was retired is free again only when no thread uses it, and only what is *)
(* free is handed out.  A thread may come to use an object that has just   *)
(* been retired, never one that is free.                                   *)
(***************************************************************************)
CONSTANTS Threads, Objects

VARIABLES free, \* objects that may be handed out
          live, \* objects handed out and not retired; the others are retired
          using \* the objects every thread uses

Init == free = Objects /\ live = {} /\ using = [t \in Threads |-> {}]

Unused(o) == \A t \in Threads : o \notin using[t]

Allocate == \E o \in free :
    live' = live \cup {o} /\ free' = free \ {o} /\ UNCHANGED using

\* An object that was never published is given back, or forgotten.
GiveBack == \E o \in live :
    live' = live \ {o} /\ Unused(o) /\ free' \in {free, free \cup {o}} /\ UNCHANGED using

Use(t) == \E S \in (SUBSET Objects) \ {{}} :
    using' = [using EXCEPT ![t] = S] /\ S \cap free = {} /\ UNCHANGED <<free, live>>

\* The use is over; an object that was used may be retired by it.
Finish(t) ==
    /\ using[t] # {} /\ using' = [using EXCEPT ![t] = {}]
    /\ live' = live \/ \E o \in using[t] \cap live : live' = live \ {o}
    /\ UNCHANGED free

Free == \E o \in Objects \ (free \cup live) :
    free' = free \cup {o} /\ Unused(o) /\ UNCHANGED <<live, using>>

Next == Allocate \/ GiveBack \/ Free \/ \E t \in Threads : Use(t) \/ Finish(t)
Spec == Init /\ [][Next]_<<free, live, using>>
=============================================================================
