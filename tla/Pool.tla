-------------------------------- MODULE Pool --------------------------------
(***************************************************************************)
(* The shared pool of allocation caches (allocator.c: pop, Reclamation's   *)
(* exchange of the head, getAllocEntry, freeAllocEntry, palloc; trace.c:   *)
(* setAsFree, pReturnCache, sweep): a linked stack whose head is a pointer *)
(* and a version in 16 bytes, changed by a double-width CAS but read with  *)
(* two ordinary loads.  An entry has one `next` field, for the pool and for*)
(* the free list of a thread, and a slow reader may still follow it.       *)
(*                                                                         *)
(* The protocol of the phases around it, and what a cache holds, is module *)
(* Phase, where reading and exchanging the head is one step.               *)
(***************************************************************************)
EXTENDS Integers, Sequences, Reachability

CONSTANTS Threads,
          Entries,  \* all struct allocEntry there are
          Null,     \* NULL
          Initial,  \* the entries in the pool at the start, a sequence
          MaxVer    \* bound on the versions of the head

ASSUME PoolAssumption ==
    /\ Null \notin Entries /\ MaxVer \in Nat
    /\ Initial \in Seq(Entries)
    /\ \A i, j \in DOMAIN Initial : Initial[i] = Initial[j] => i = j

Pointers == Entries \cup {Null}

VARIABLES
    head,     \* alc->head: [e, ver]
    next,     \* p->next of every entry
    unused,   \* entries of allocationEntriesCache not handed out yet
    free,     \* entriesLocalFreeList of every thread
    cache,    \* alloc_cache
    localVer, \* localVer
    old,      \* the copy of the head a thread works with: [e, ver]
    to,       \* pop: new.head
    job,      \* what a thread reads the head for
    half,     \* the word it has read of it
    pc,
    pushed    \* the version an entry was last pushed in (history)

regs == <<old, to, job, half>>
vars == <<head, next, unused, free, cache, localVer, regs, pc, pushed>>

Goto(t, l) == pc' = [pc EXCEPT ![t] = l]

InitialNext(e) ==
    IF \E i \in DOMAIN Initial : Initial[i] = e /\ i + 1 \in DOMAIN Initial
    THEN Initial[1 + CHOOSE i \in DOMAIN Initial : Initial[i] = e] ELSE Null

Init ==
    /\ head = [e |-> IF 1 \in DOMAIN Initial THEN Initial[1] ELSE Null, ver |-> 0]
    /\ next = [e \in Entries |-> InitialNext(e)]
    /\ unused = {e \in Entries : \A i \in DOMAIN Initial : Initial[i] # e}
    /\ free = [t \in Threads |-> Null]
    /\ cache = [t \in Threads |-> Null]
    /\ localVer = [t \in Threads |-> 0]
    /\ old = [t \in Threads |-> [e |-> Null, ver |-> 0]]
    /\ to = [t \in Threads |-> Null]
    /\ job = [t \in Threads |-> "none"]
    /\ half = [t \in Threads |-> "none"]
    /\ pc = [t \in Threads |-> "run"]
    /\ pushed = [e \in Entries |-> -1]

ReadFor(t, j) ==
    /\ job' = [job EXCEPT ![t] = j]
    /\ Goto(t, "read")

-----------------------------------------------------------------------------
(* old = *adr: two loads, in either order.                                 *)

ReadFirst(t) ==
    /\ pc[t] = "read"
    /\ \/ /\ old' = [old EXCEPT ![t] = [e |-> head.e, ver |-> 0]]
          /\ half' = [half EXCEPT ![t] = "e"]
       \/ /\ old' = [old EXCEPT ![t] = [e |-> Null, ver |-> head.ver]]
          /\ half' = [half EXCEPT ![t] = "ver"]
    /\ Goto(t, "readRest")
    /\ UNCHANGED <<head, next, unused, free, cache, localVer, to, job, pushed>>

ReadSecond(t) ==
    /\ pc[t] = "readRest"
    /\ old' = IF half[t] = "e" THEN [old EXCEPT ![t].ver = head.ver]
                               ELSE [old EXCEPT ![t].e = head.e]
    /\ half' = [half EXCEPT ![t] = "none"]
    /\ Goto(t, job[t])
    /\ UNCHANGED <<head, next, unused, free, cache, localVer, to, job, pushed>>

\* Mutant of VerCas: only the pointers are compared.
PointerCas(t, new) ==
    IF head.e = old[t].e THEN head' = new ELSE UNCHANGED head

\* verCAS(&head, old, new).
VerCas(t, new) ==
    IF head = old[t] THEN head' = new ELSE UNCHANGED head

-----------------------------------------------------------------------------
(* palloc.                                                                 *)

\* The cache, if there is one, is empty (or about to be discarded by
\* triggerCollection): freeAllocEntry.
Drop(t) ==
    IF cache[t] = Null
    THEN UNCHANGED <<next, free, cache>>
    ELSE /\ next' = [next EXCEPT ![cache[t]] = free[t]]
         /\ free' = [free EXCEPT ![t] = cache[t]]
         /\ cache' = [cache EXCEPT ![t] = Null]

\* The cache is used up: the next one is popped.
Allocate(t) ==
    /\ pc[t] = "run"
    /\ Drop(t)
    /\ ReadFor(t, "pop")
    /\ UNCHANGED <<head, unused, localVer, old, to, half, pushed>>

\* pop of another version (RECYCLE_NEEDED) or of an empty pool (NULL): a
\* collection.  Otherwise follow the entry, which may have gone.
PopFollow(t) ==
    /\ pc[t] = "pop"
    /\ IF old[t].ver # localVer[t] \/ old[t].e = Null
       THEN Goto(t, "collect") /\ UNCHANGED to
       ELSE /\ to' = [to EXCEPT ![t] = next[old[t].e]]
            /\ Goto(t, "popCas")
    /\ UNCHANGED <<head, next, unused, free, cache, localVer, old, job, half, pushed>>

\* The double-width CAS of pop; alloc_cache->next = NULL on success.
PopCas(t) ==
    /\ pc[t] = "popCas"
    /\ VerCas(t, [e |-> to[t], ver |-> old[t].ver])
    /\ IF head' # head
       THEN /\ cache' = [cache EXCEPT ![t] = old[t].e]
            /\ Goto(t, "clear")
            /\ UNCHANGED job
       ELSE ReadFor(t, "pop") /\ UNCHANGED cache
    /\ to' = [to EXCEPT ![t] = Null]
    /\ UNCHANGED <<next, unused, free, localVer, old, half, pushed>>

ClearNext(t) ==
    /\ pc[t] = "clear"
    /\ next' = [next EXCEPT ![cache[t]] = Null]
    /\ Goto(t, "run")
    /\ UNCHANGED <<head, unused, free, cache, localVer, regs, pushed>>

-----------------------------------------------------------------------------
(* triggerCollection, as far as the pool goes.                             *)

Collect(t) ==
    /\ pc[t] \in {"run", "collect"}
    /\ localVer[t] < MaxVer
    /\ Drop(t)
    /\ ReadFor(t, "swing")
    /\ UNCHANGED <<head, unused, localVer, old, to, half, pushed>>

\* Mutant of Swing: what is in the pool stays there.
SwingKeepsEntries(t) ==
    /\ pc[t] = "swing"
    /\ IF old[t].ver = localVer[t]
       THEN /\ VerCas(t, [e |-> old[t].e, ver |-> localVer[t] + 1])
            /\ ReadFor(t, "swing")
            /\ UNCHANGED localVer
       ELSE /\ localVer' = [localVer EXCEPT ![t] = @ + 1]
            /\ \/ Goto(t, "sweep")
               \/ Goto(t, "run")
            /\ UNCHANGED <<head, job>>
    /\ UNCHANGED <<next, unused, free, cache, old, to, half, pushed>>

\* Reclamation: an empty pool for the next version.  The thread then sweeps,
\* or returns at once if the phase is over already.
Swing(t) ==
    /\ pc[t] = "swing"
    /\ IF old[t].ver = localVer[t]
       THEN /\ VerCas(t, [e |-> Null, ver |-> localVer[t] + 1])
            /\ ReadFor(t, "swing")
            /\ UNCHANGED localVer
       ELSE /\ localVer' = [localVer EXCEPT ![t] = @ + 1]
            /\ \/ Goto(t, "sweep")
               \/ Goto(t, "run")
            /\ UNCHANGED <<head, job>>
    /\ UNCHANGED <<next, unused, free, cache, old, to, half, pushed>>

\* setAsFree: a cache for the objects that are found, from the thread's free
\* list or from allocationEntriesCache.
GetAllocEntry(t) ==
    /\ pc[t] = "sweep"
    /\ cache[t] = Null
    /\ IF free[t] # Null
       THEN /\ cache' = [cache EXCEPT ![t] = free[t]]
            /\ free' = [free EXCEPT ![t] = next[free[t]]]
            /\ UNCHANGED unused
       ELSE \E e \in unused :
            /\ cache' = [cache EXCEPT ![t] = e]
            /\ unused' = unused \ {e}
            /\ UNCHANGED free
    /\ UNCHANGED <<head, next, localVer, regs, pc, pushed>>

\* The cache is full, or the sweep is over: pReturnCache.
ReturnCache(t) ==
    /\ pc[t] = "sweep"
    /\ cache[t] # Null
    /\ ReadFor(t, "push")
    /\ UNCHANGED <<head, next, unused, free, cache, localVer, old, to, half, pushed>>

\* Another version: the cache is given up.  Otherwise toalloc->next = old.head.
PushLink(t) ==
    /\ pc[t] = "push"
    /\ IF old[t].ver # localVer[t]
       THEN /\ cache' = [cache EXCEPT ![t] = Null]
            /\ Goto(t, "sweep")
            /\ UNCHANGED next
       ELSE /\ next' = [next EXCEPT ![cache[t]] = old[t].e]
            /\ Goto(t, "pushCas")
            /\ UNCHANGED cache
    /\ UNCHANGED <<head, unused, free, localVer, regs, pushed>>

PushCas(t) ==
    /\ pc[t] = "pushCas"
    /\ VerCas(t, [e |-> cache[t], ver |-> localVer[t]])
    /\ IF head' # head
       THEN /\ pushed' = [pushed EXCEPT ![cache[t]] = localVer[t]]
            /\ cache' = [cache EXCEPT ![t] = Null]
            /\ Goto(t, "sweep")
            /\ UNCHANGED job
       ELSE ReadFor(t, "push") /\ UNCHANGED <<cache, pushed>>
    /\ UNCHANGED <<next, unused, free, localVer, old, to, half>>

\* Mutant of EndSweep: the thread may sweep again in the same version.
SweepAgain(t) ==
    /\ pc[t] \in {"sweep", "run"}
    /\ Drop(t)
    /\ Goto(t, IF pc[t] = "sweep" THEN "run" ELSE "sweep")
    /\ UNCHANGED <<head, unused, localVer, regs, pushed>>

\* The pages are swept and the last cache returned: back to palloc.
EndSweep(t) ==
    /\ pc[t] = "sweep"
    /\ cache[t] = Null
    /\ Goto(t, "run")
    /\ UNCHANGED <<head, next, unused, free, cache, localVer, regs, pushed>>

\* The versions of the bound are used up.
AtBound ==
    /\ \A t \in Threads : pc[t] \in {"run", "collect"} /\ localVer[t] = MaxVer
    /\ UNCHANGED vars

Step(t) ==
    \/ ReadFirst(t) \/ ReadSecond(t) \/ Allocate(t) \/ PopFollow(t)
    \/ PopCas(t) \/ ClearNext(t) \/ Collect(t) \/ Swing(t)
    \/ GetAllocEntry(t) \/ ReturnCache(t) \/ PushLink(t) \/ PushCas(t)
    \/ EndSweep(t)

Next == AtBound \/ \E t \in Threads : Step(t)
Spec == Init /\ [][Next]_vars

-----------------------------------------------------------------------------
\* The entries on the list that starts at p, in the pool, on a thread's free list.
Chain(p) == Reach(next, {p})
Pooled == Chain(head.e)
Freed(t) == Chain(free[t])

\* The entry a thread has, or is about to give up.
Held(t) == IF cache[t] = Null THEN {} ELSE {cache[t]}

\* The types; no thread is ahead of the head's version.
TypeOK ==
    /\ head \in [e : Pointers, ver : 0 .. MaxVer]
    /\ next \in [Entries -> Pointers]
    /\ unused \subseteq Entries
    /\ free \in [Threads -> Pointers] /\ cache \in [Threads -> Pointers]
    /\ localVer \in [Threads -> 0 .. head.ver]
    /\ old \in [Threads -> [e : Pointers, ver : 0 .. head.ver]]

\* No entry is in two places: the pool, the free lists, the caches and the
\* array share nothing, though `next` serves two lists and is followed by
\* threads that have lost the race for the entry.
Disjoint ==
    /\ Pooled \cap unused = {}
    /\ \A t \in Threads :
        /\ Held(t) \cap (Pooled \cup unused) = {}
        /\ Freed(t) \cap (Pooled \cup unused) = {}
        /\ \A u \in Threads : Held(t) \cap Freed(u) = {}
        /\ \A u \in Threads \ {t} : Held(t) \cap Held(u) = {} /\ Freed(t) \cap Freed(u) = {}

\* An entry is pushed at most once in a version, which is why the head's
\* version is enough of a tag (the comment at allocator.c:169).
PushedOnce ==
    [][\A t \in Threads : PushCas(t) /\ head' # head => pushed[cache[t]] < localVer[t]]_vars

-----------------------------------------------------------------------------
(* The inductive invariant.                                                *)

Types ==
    /\ head \in [e : Pointers, ver : 0 .. MaxVer]
    /\ next \in [Entries -> Pointers]
    /\ unused \subseteq Entries
    /\ free \in [Threads -> Pointers] /\ cache \in [Threads -> Pointers]
    /\ localVer \in [Threads -> 0 .. MaxVer]
    /\ old \in [Threads -> [e : Pointers, ver : 0 .. MaxVer]]
    /\ to \in [Threads -> Pointers]
    /\ job \in [Threads -> {"none", "pop", "swing", "push"}]
    /\ half \in [Threads -> {"none", "e", "ver"}]
    /\ pc \in [Threads -> {"run", "read", "readRest", "pop", "popCas", "clear", "collect",
                           "swing", "sweep", "push", "pushCas"}]
    /\ pushed \in [Entries -> -1 .. MaxVer]

\* t reads the head, or acts on what it has read, for job j.
Busy(t, j) ==
    job[t] = j /\ pc[t] \in {"read", "readRest"} \cup
        CASE j = "pop" -> {"pop", "popCas"} [] j = "swing" -> {"swing"} [] j = "push" -> {"push", "pushCas"}

\* t is in a sweep.
Sweeping(t) == pc[t] = "sweep" \/ Busy(t, "push")

\* Where t is agrees with its job, its cache and the versions it has seen.
ControlOf(t) ==
    /\ localVer[t] <= head.ver /\ old[t].ver <= head.ver
    /\ Sweeping(t) => localVer[t] > 0
    /\ pc[t] \in {"run", "clear", "collect", "sweep"} \/ Busy(t, "pop") \/ Busy(t, "swing") \/ Busy(t, "push")
    /\ pc[t] = "readRest" <=> half[t] # "none"
    /\ pc[t] = "collect" \/ Busy(t, "pop") \/ Busy(t, "swing") => cache[t] = Null
    /\ pc[t] = "clear" \/ Busy(t, "push") => cache[t] # Null
    /\ Busy(t, "swing") => localVer[t] < MaxVer
    /\ half[t] = "ver" \/ pc[t] \in {"pop", "popCas", "swing", "push", "pushCas"} => old[t].ver >= localVer[t]
    /\ pc[t] \in {"popCas", "pushCas"} => old[t].ver = localVer[t]
    /\ pc[t] = "popCas" => old[t].e # Null
    /\ pc[t] = "pushCas" => next[cache[t]] = old[t].e

Control == \A t \in Threads : ControlOf(t)

\* The lists have no cycles.
Lines ==
    /\ \A e \in Pooled : e \notin Reach(next, {next[e]})
    /\ \A t \in Threads : \A e \in Freed(t) : e \notin Reach(next, {next[e]})

\* What is in the pool was put there in its version, before which the pool was
\* empty; what a thread has, it took in its own version or before, and in a
\* sweep it has nothing of its own version.
Ages ==
    /\ \A e \in Pooled : pushed[e] = head.ver \/ (head.ver = 0 /\ pushed[e] = -1)
    /\ \A e \in unused : pushed[e] = -1
    /\ \A t \in Threads : \A e \in Held(t) \cup Freed(t) :
        pushed[e] <= localVer[t] /\ (Sweeping(t) => pushed[e] < localVer[t])

\* A thread that pops in the head's version has read an entry that was in the pool
\* in this version, so nobody pushes it again in it; as long as the entry is
\* still in the pool, its successor is the one that was read.
CopyOf(t) ==
    localVer[t] = head.ver =>
    /\ job[t] = "pop" /\ old[t].e # Null /\ (half[t] = "e" \/ pc[t] \in {"pop", "popCas"})
       => pushed[old[t].e] = head.ver \/ head.ver = 0
    /\ pc[t] = "popCas" /\ old[t].e \in Pooled => to[t] = next[old[t].e]

Copies == \A t \in Threads : CopyOf(t)

PoolInv == Types /\ Control /\ Disjoint /\ Lines /\ Ages /\ Copies

\* What the linked stack promises: a versioned set of entries.
Abstract == INSTANCE CachePool WITH pool <- Pooled, ver <- head.ver
PoolSpec == Abstract!Spec
=============================================================================
