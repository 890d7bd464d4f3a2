------------------------------ MODULE CachePool ------------------------------
(***************************************************************************)
(* What the shared pool of allocation caches promises: a set of entries    *)
(* that belongs to a version.  An entry is put in or taken out whole, and  *)
(* a new version starts with nothing.                                      *)
(***************************************************************************)
EXTENDS Integers

CONSTANTS Entries, MaxVer

VARIABLES pool, ver

Init == pool \subseteq Entries /\ ver = 0

Put == \E e \in Entries \ pool : pool' = pool \cup {e} /\ ver' = ver
Take == \E e \in pool : pool' = pool \ {e} /\ ver' = ver
NewVersion == ver < MaxVer /\ ver' = ver + 1 /\ pool' = {}

Next == Put \/ Take \/ NewVersion
Spec == Init /\ [][Next]_<<pool, ver>>
=============================================================================
