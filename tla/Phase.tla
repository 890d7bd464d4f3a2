------------------------------- MODULE Phase -------------------------------
(***************************************************************************)
(* The phase protocol of the automatic optimistic access collector:        *)
(* palloc, triggerCollection, Reclamation and helpCollection of            *)
(* allocator.c, resetSweepCounter and sweep of trace.c, and the CHECK and  *)
(* FENCE_CHECK macros of lfl-RoF.c with the operations that use them.      *)
(*                                                                         *)
(* A mutator reads the list without protection and looks at its dirty bit  *)
(* afterwards; before a CAS it publishes hazard pointers and exchanges the *)
(* dirty bit.  A thread that needs memory advances the phase, empties the  *)
(* pool, stamps every dirty record, saves the hazard pointers, traces      *)
(* (module Mark; opaque here) and sweeps.  Every thread may do all of this *)
(* for the same phase at the same time.                                    *)
(*                                                                         *)
(* Phase n here is version 2*n of the code.  The list and the marks are    *)
(* left out: an object is known by the phase whose pool it came from.      *)
(***************************************************************************)
EXTENDS Integers

CONSTANTS N,           \* numThreads
          MaxPhase,    \* bound: no collection is begun after this phase
          Pages,       \* num_sweep_pages
          ObjsPerPage, \* bound: the unmarked objects of one page
          CacheSize,   \* ENTRIES_PER_CACHE
          PoolSize,    \* the caches initAllocator puts into the pool
          TSO          \* 1: the plain dirty=0 stores are delayed; 0: they are not

Threads == 0 .. N - 1

ASSUME PhaseAssumption ==
    /\ N \in Nat \ {0}
    /\ MaxPhase \in Nat
    /\ Pages \in Nat \ {0}
    /\ ObjsPerPage \in Nat
    /\ CacheSize \in Nat \ {0}
    /\ PoolSize \in Nat
    /\ TSO \in 0 .. 1

Versions == 0 .. MaxPhase
NoCache == -1   \* alloc_cache == NULL
NoObj == -1     \* the operation allocates nothing
NullObj == -2   \* palloc returned NULL
Nothing == [ph |-> 0, bit |-> 0]

VARIABLES
    phase,     \* global->phase.phase
    head,      \* global->head: [ver, cnt], cnt the caches linked from it
    sweep,     \* global->sweep_counter: [ph, ctr]
    dirty,     \* dirty[t] = [ph, bit]: the word dirties[t].dirtyNphase
    wbuf,      \* wbuf[t]: dirty=0 stores of t that memory has not seen yet
    hp,        \* hp[t] = 1: dirties[t].HPs hold what t's next CAS touches
    localVer,  \* localVer[t]
    cache,     \* objects in t's alloc_cache, or NoCache
    obj,       \* phase of the object t is about to link, NoObj or NullObj
    pc,        \* where t is
    ret,       \* who called t's triggerCollection: "macro" or "palloc"
    idx,       \* Reclamation's loops: the record t is at,
    att,       \*   the attempt to stamp it,
    reg,       \*   and dNpTi, the word t has read from it
    left,      \* unmarked objects of t's sweep page still to be set free
    seen,      \* (history) the stamp on t's record when its traversal began
    hpSeen     \* (history) hpSeen[t]: threads whose present HPs t has saved

mutVars == <<wbuf, hp, obj, ret>>
gcVars == <<phase, head, sweep>>
ghosts == <<seen, hpSeen>>
loops == <<idx, att, reg>>
locals == <<localVer, cache, loops, left>>
vars == <<gcVars, dirty, mutVars, locals, pc, ghosts>>

Goto(t, l) == pc' = [pc EXCEPT ![t] = l]

Init ==
    /\ phase = 0
    /\ head = [ver |-> 0, cnt |-> PoolSize]
    /\ sweep = [ph |-> 0, ctr |-> 0]
    /\ dirty = [t \in Threads |-> Nothing]
    /\ wbuf = [t \in Threads |-> 0]
    /\ hp = [t \in Threads |-> 0]
    /\ localVer = [t \in Threads |-> 0]
    /\ cache = [t \in Threads |-> NoCache]
    /\ obj = [t \in Threads |-> NoObj]
    /\ pc = [t \in Threads |-> "find"]
    /\ ret = [t \in Threads |-> "macro"]
    /\ idx = [t \in Threads |-> 0]
    /\ att = [t \in Threads |-> 1]
    /\ reg = [t \in Threads |-> Nothing]
    /\ left = [t \in Threads |-> 0]
    /\ seen = [t \in Threads |-> 0]
    /\ hpSeen = [t \in Threads |-> {}]

-----------------------------------------------------------------------------
(* The mutator.                                                            *)

\* What t reads from its own dirty byte: its delayed store, if there is one.
ReadBit(t) == IF wbuf[t] > 0 THEN 0 ELSE dirty[t].bit

EraseBit(t) == dirty' = [dirty EXCEPT ![t].bit = 0]

\* dty->dirty = 0, a plain byte store.
StoreZero(t) ==
    IF TSO = 1
    THEN /\ wbuf' = [wbuf EXCEPT ![t] = @ + 1]
         /\ UNCHANGED dirty
    ELSE /\ EraseBit(t)
         /\ UNCHANGED wbuf

\* A delayed store reaches memory.
Drain(t) ==
    /\ wbuf[t] > 0
    /\ wbuf' = [wbuf EXCEPT ![t] = @ - 1]
    /\ EraseBit(t)
    /\ UNCHANGED <<gcVars, hp, obj, ret, locals, pc, ghosts>>

\* Locked instructions wait until the store buffer is empty.
Drained(t) == wbuf[t] = 0

\* try_again: the traversal reads the head of the list.
StartTraversal(t) ==
    /\ pc[t] = "find"
    /\ seen' = [seen EXCEPT ![t] = dirty[t].ph]
    /\ obj' = [obj EXCEPT ![t] = NoObj]
    /\ Goto(t, "walk")
    /\ UNCHANGED <<gcVars, dirty, wbuf, hp, ret, locals, hpSeen>>

\* CHECK finds the bit set.
CheckDirty(t) ==
    /\ pc[t] = "walk"
    /\ ReadBit(t) = 1
    /\ ret' = [ret EXCEPT ![t] = "macro"]
    /\ Goto(t, "clear1")
    /\ UNCHANGED <<gcVars, dirty, wbuf, hp, obj, locals, ghosts>>

\* CHECK lets the traversal go on: to an unlink or a delete ("publish"), to
\* the allocation of an insert, or to an operation that ends here.
CheckClean(t) ==
    /\ pc[t] = "walk"
    /\ ReadBit(t) = 0
    /\ \E l \in {"publish", "palloc", "find"} : Goto(t, l)
    /\ UNCHANGED <<gcVars, dirty, mutVars, locals, ghosts>>

\* The rest of the list is empty: find returns without another CHECK.
EndOfList(t) ==
    /\ pc[t] = "walk"
    /\ \E l \in {"palloc", "find"} : Goto(t, l)
    /\ UNCHANGED <<gcVars, dirty, mutVars, locals, ghosts>>

\* The plain stores to HPs; they leave the store buffer after earlier ones.
PublishHPs(t) ==
    /\ pc[t] = "publish"
    /\ Drained(t)
    /\ hp' = [hp EXCEPT ![t] = 1]
    /\ Goto(t, "fence")
    /\ UNCHANGED <<gcVars, dirty, wbuf, obj, ret, locals, ghosts>>

\* Mutant of FenceCheck: the exchange is there, its result is not looked at.
FenceNoCheck(t) ==
    /\ pc[t] = "fence"
    /\ Drained(t)
    /\ EraseBit(t)
    /\ Goto(t, "cas")
    /\ UNCHANGED <<gcVars, mutVars, locals, ghosts>>

\* FENCE_CHECK: exchange the dirty byte with 0.
FenceCheck(t) ==
    /\ pc[t] = "fence"
    /\ Drained(t)
    /\ IF dirty[t].bit = 1
       THEN /\ EraseBit(t)
            /\ ret' = [ret EXCEPT ![t] = "macro"]
            /\ Goto(t, "drop")
       ELSE /\ Goto(t, "cas")
            /\ UNCHANGED <<dirty, ret>>
    /\ UNCHANGED <<gcVars, wbuf, hp, obj, locals, ghosts>>

\* HPs = NULL; what others have saved of them no longer speaks of t's HPs.
ClearHPs(t) ==
    /\ hp' = [hp EXCEPT ![t] = 0]
    /\ hpSeen' = [u \in Threads |-> hpSeen[u] \ {t}]

DropHPs(t) ==
    /\ pc[t] = "drop"
    /\ ClearHPs(t)
    /\ Goto(t, "help")
    /\ UNCHANGED <<gcVars, dirty, wbuf, obj, ret, locals, seen>>

\* The CAS on the list, won or lost, then HPs = NULL.  After an unlink the
\* traversal goes on; every other operation starts again or is over.
CasThenClear(t) ==
    /\ pc[t] = "cas"
    /\ ClearHPs(t)
    /\ \/ Goto(t, "find")
       \/ obj[t] = NoObj /\ Goto(t, "walk")
    /\ UNCHANGED <<gcVars, dirty, wbuf, obj, ret, locals, seen>>

\* CHECK's first dirty=0.
ClearBeforeHelp(t) ==
    /\ pc[t] = "clear1"
    /\ StoreZero(t)
    /\ Goto(t, "help")
    /\ UNCHANGED <<gcVars, hp, obj, ret, locals, ghosts>>

\* helpCollection.
Help(t) ==
    /\ pc[t] = "help"
    /\ Goto(t, IF localVer[t] < phase THEN "advance" ELSE "clear2")
    /\ UNCHANGED <<gcVars, dirty, mutVars, locals, ghosts>>

\* The dirty=0 after helpCollection, and goto label.
ClearAfterHelp(t) ==
    /\ pc[t] = "clear2"
    /\ StoreZero(t)
    /\ Goto(t, "find")
    /\ UNCHANGED <<gcVars, hp, obj, ret, locals, ghosts>>

-----------------------------------------------------------------------------
(* palloc.                                                                 *)

\* An object of the thread's own cache.
PallocFromCache(t) ==
    /\ pc[t] = "palloc"
    /\ cache[t] > 0
    /\ cache' = [cache EXCEPT ![t] = @ - 1]
    /\ obj' = [obj EXCEPT ![t] = localVer[t]]
    /\ Goto(t, "publish")
    /\ UNCHANGED <<gcVars, dirty, wbuf, hp, ret, localVer, loops, left, ghosts>>

\* No object there: the empty cache is given back.
PallocCacheEmpty(t) ==
    /\ pc[t] = "palloc"
    /\ cache[t] <= 0
    /\ cache' = [cache EXCEPT ![t] = NoCache]
    /\ Goto(t, "pop")
    /\ UNCHANGED <<gcVars, dirty, mutVars, localVer, loops, left, ghosts>>

\* Mutant of PopCache: the version is not compared.
PopAnyVersion(t) ==
    /\ pc[t] = "pop"
    /\ head.cnt > 0
    /\ Drained(t)
    /\ head' = [head EXCEPT !.cnt = @ - 1]
    /\ \E k \in 1 .. CacheSize : cache' = [cache EXCEPT ![t] = k]
    /\ Goto(t, "palloc")
    /\ UNCHANGED <<phase, sweep, dirty, mutVars, localVer, loops, left, ghosts>>

\* pop takes a cache of the thread's own version; how full it is depends on
\* the sweeper that pushed it.
PopCache(t) ==
    /\ pc[t] = "pop"
    /\ head.ver = localVer[t]
    /\ head.cnt > 0
    /\ Drained(t)
    /\ head' = [head EXCEPT !.cnt = @ - 1]
    /\ \E k \in 1 .. CacheSize : cache' = [cache EXCEPT ![t] = k]
    /\ Goto(t, "palloc")
    /\ UNCHANGED <<phase, sweep, dirty, mutVars, localVer, loops, left, ghosts>>

\* pop returns NULL or RECYCLE_NEEDED.
PopFails(t) ==
    /\ pc[t] = "pop"
    /\ head.ver # localVer[t] \/ head.cnt = 0
    /\ ret' = [ret EXCEPT ![t] = "palloc"]
    /\ Goto(t, "advance")
    /\ UNCHANGED <<gcVars, dirty, wbuf, hp, obj, locals, ghosts>>

\* Back from triggerCollection: NULL if the thread is dirty, else once more.
\* The limit of 100 attempts and the abort behind it are left out
\* (allocator.c:147-150).
AfterTrigger(t) ==
    /\ pc[t] = "triggered"
    /\ IF ReadBit(t) = 1
       THEN /\ obj' = [obj EXCEPT ![t] = NullObj]
            /\ Goto(t, "publish")
       ELSE /\ Goto(t, "pop")
            /\ UNCHANGED obj
    /\ UNCHANGED <<gcVars, dirty, wbuf, hp, ret, locals, ghosts>>

-----------------------------------------------------------------------------
(* triggerCollection and Reclamation.                                      *)

Return(t) == Goto(t, IF ret[t] = "macro" THEN "clear2" ELSE "triggered")

\* Mutant of Advance: the phase is incremented where the code has a CAS.
AdvanceAlways(t) ==
    /\ pc[t] = "advance"
    /\ Drained(t)
    /\ phase' = IF phase < MaxPhase THEN phase + 1 ELSE phase
    /\ cache' = [cache EXCEPT ![t] = NoCache]
    /\ Goto(t, "swing")
    /\ UNCHANGED <<head, sweep, dirty, mutVars, localVer, loops, left, ghosts>>

\* Give up the allocation cache, then CAS the phase.
Advance(t) ==
    /\ pc[t] = "advance"
    /\ Drained(t)
    /\ IF phase = localVer[t]
       THEN phase < MaxPhase /\ phase' = phase + 1
       ELSE UNCHANGED phase
    /\ cache' = [cache EXCEPT ![t] = NoCache]
    /\ Goto(t, "swing")
    /\ UNCHANGED <<head, sweep, dirty, mutVars, localVer, loops, left, ghosts>>

\* Mutant of SwingHead: the caches stay in the pool, under the new version.
SwingKeepCaches(t) ==
    /\ pc[t] = "swing"
    /\ IF head.ver = localVer[t]
       THEN head' = [head EXCEPT !.ver = localVer[t] + 1]
       ELSE UNCHANGED head
    /\ Goto(t, "enter")
    /\ UNCHANGED <<phase, sweep, dirty, mutVars, locals, ghosts>>

\* The loop that empties the pool and moves its version, as one step: it ends
\* when the version is no longer the thread's.
SwingHead(t) ==
    /\ pc[t] = "swing"
    /\ IF head.ver = localVer[t]
       THEN head' = [ver |-> localVer[t] + 1, cnt |-> 0]
       ELSE UNCHANGED head
    /\ Goto(t, "enter")
    /\ UNCHANGED <<phase, sweep, dirty, mutVars, locals, ghosts>>

FirstRecord(t) ==
    /\ idx' = [idx EXCEPT ![t] = 0]
    /\ att' = [att EXCEPT ![t] = 1]
    /\ reg' = [reg EXCEPT ![t] = Nothing]

\* localVer += 2; nothing more to do if a later phase has begun.
EnterPhase(t) ==
    /\ pc[t] = "enter"
    /\ localVer' = [localVer EXCEPT ![t] = @ + 1]
    /\ IF phase # localVer[t] + 1
       THEN /\ Return(t)
            /\ UNCHANGED loops
       ELSE /\ Goto(t, "stampRead")
            /\ FirstRecord(t)
    /\ UNCHANGED <<gcVars, dirty, mutVars, cache, left, ghosts>>

\* On to record i + 1 of the stamping loop, or to the hazard pointers.
NextRecord(t) ==
    /\ att' = [att EXCEPT ![t] = 1]
    /\ reg' = [reg EXCEPT ![t] = Nothing]
    /\ IF idx[t] + 1 < N
       THEN /\ idx' = [idx EXCEPT ![t] = @ + 1]
            /\ Goto(t, "stampRead")
       ELSE /\ idx' = [idx EXCEPT ![t] = 0]
            /\ Goto(t, "saveHP")

\* dNpTi = dirties[i].dirtyNphase, and continue if it has the stamp already.
StampRead(t) ==
    /\ pc[t] = "stampRead"
    /\ IF dirty[idx[t]].ph >= localVer[t]
       THEN NextRecord(t)
       ELSE /\ reg' = [reg EXCEPT ![t] = dirty[idx[t]]]
            /\ Goto(t, "stampCas")
            /\ UNCHANGED <<idx, att>>
    /\ UNCHANGED <<gcVars, dirty, mutVars, localVer, cache, left, ghosts>>

\* CAS(&dirties[i].dirtyNphase, dNpTi, dNpd).
CasRecord(t) ==
    dirty' = IF dirty[idx[t]] = reg[t]
             THEN [dirty EXCEPT ![idx[t]] = [ph |-> localVer[t], bit |-> 1]]
             ELSE dirty

\* Mutant of StampCas: one attempt per record.
StampOnce(t) ==
    /\ pc[t] = "stampCas"
    /\ CasRecord(t)
    /\ NextRecord(t)
    /\ UNCHANGED <<gcVars, mutVars, localVer, cache, left, ghosts>>

\* The CAS on the record; there are two attempts for each record.
StampCas(t) ==
    /\ pc[t] = "stampCas"
    /\ CasRecord(t)
    /\ IF att[t] = 1
       THEN /\ att' = [att EXCEPT ![t] = 2]
            /\ reg' = [reg EXCEPT ![t] = Nothing]
            /\ Goto(t, "stampRead")
            /\ UNCHANGED idx
       ELSE NextRecord(t)
    /\ UNCHANGED <<gcVars, mutVars, localVer, cache, left, ghosts>>

\* Save the hazard pointers of thread i; after the last one, trace.
SaveHP(t) ==
    /\ pc[t] = "saveHP"
    /\ hpSeen' = [hpSeen EXCEPT ![t] =
                     IF hp[idx[t]] = 1 THEN @ \cup {idx[t]} ELSE @ \ {idx[t]}]
    /\ IF idx[t] + 1 < N
       THEN /\ idx' = [idx EXCEPT ![t] = @ + 1]
            /\ UNCHANGED pc
       ELSE /\ Goto(t, "reset")
            /\ UNCHANGED idx
    /\ UNCHANGED <<gcVars, dirty, mutVars, localVer, cache, att, reg, left, seen>>

\* Mutant of ResetSweep: spins until the counter is at its own phase.
ResetSweepSpin(t) ==
    /\ pc[t] = "reset"
    /\ IF sweep.ph > localVer[t]
       THEN UNCHANGED <<sweep, pc>>
       ELSE /\ sweep' = IF sweep.ph < localVer[t]
                        THEN [ph |-> localVer[t], ctr |-> 0] ELSE sweep
            /\ Goto(t, "sweep")
    /\ UNCHANGED <<phase, head, dirty, mutVars, locals, ghosts>>

\* resetSweepCounter, after tracing.
ResetSweep(t) ==
    /\ pc[t] = "reset"
    /\ sweep' = IF sweep.ph < localVer[t]
                THEN [ph |-> localVer[t], ctr |-> 0] ELSE sweep
    /\ Goto(t, "sweep")
    /\ UNCHANGED <<phase, head, dirty, mutVars, locals, ghosts>>

-----------------------------------------------------------------------------
(* sweep.                                                                  *)

\* Take the next page, some of whose objects are unmarked.
ClaimPage(t) ==
    /\ pc[t] = "sweep"
    /\ left[t] = 0
    /\ sweep.ph = localVer[t]
    /\ sweep.ctr < Pages
    /\ sweep' = [sweep EXCEPT !.ctr = @ + 1]
    /\ \E k \in 0 .. ObjsPerPage : left' = [left EXCEPT ![t] = k]
    /\ UNCHANGED <<phase, head, dirty, mutVars, localVer, cache, loops, pc, ghosts>>

\* Mutant of PushCache: the version is not compared.
PushAnyVersion(t) == head' = [head EXCEPT !.cnt = @ + 1]

\* pReturnCache: link the cache, or forget it if the pool has moved on.
PushCache(t) ==
    head' = IF head.ver = localVer[t] THEN [head EXCEPT !.cnt = @ + 1] ELSE head

\* Mutant of FreeObject: the cache is never found full.
FreeObjectNeverFull(t) ==
    /\ pc[t] = "sweep"
    /\ left[t] > 0
    /\ left' = [left EXCEPT ![t] = @ - 1]
    /\ cache' = [cache EXCEPT ![t] = IF @ = NoCache THEN 1 ELSE @ + 1]
    /\ UNCHANGED <<gcVars, dirty, mutVars, localVer, loops, pc, ghosts>>

\* setAsFree: into the cache, or into a new one when the cache is full.
FreeObject(t) ==
    /\ pc[t] = "sweep"
    /\ left[t] > 0
    /\ left' = [left EXCEPT ![t] = @ - 1]
    /\ IF cache[t] = CacheSize
       THEN /\ PushCache(t)
            /\ cache' = [cache EXCEPT ![t] = 1]
       ELSE /\ cache' = [cache EXCEPT ![t] = IF @ = NoCache THEN 1 ELSE @ + 1]
            /\ UNCHANGED head
    /\ UNCHANGED <<phase, sweep, dirty, mutVars, localVer, loops, pc, ghosts>>

\* No page left, or a new phase: out of the loop.
SweepEnds(t) ==
    /\ pc[t] = "sweep"
    /\ left[t] = 0
    /\ sweep.ph # localVer[t] \/ sweep.ctr >= Pages
    /\ Goto(t, "lastPush")
    /\ UNCHANGED <<gcVars, dirty, mutVars, locals, ghosts>>

\* The last cache goes to the pool and triggerCollection returns.
LastPush(t) ==
    /\ pc[t] = "lastPush"
    /\ IF cache[t] # NoCache THEN PushCache(t) ELSE UNCHANGED head
    /\ cache' = [cache EXCEPT ![t] = NoCache]
    /\ Return(t)
    /\ UNCHANGED <<phase, sweep, dirty, mutVars, localVer, loops, left, ghosts>>

-----------------------------------------------------------------------------
Mutator(t) ==
    \/ StartTraversal(t) \/ CheckDirty(t) \/ CheckClean(t) \/ EndOfList(t)
    \/ PublishHPs(t) \/ FenceCheck(t) \/ DropHPs(t) \/ CasThenClear(t)
    \/ ClearBeforeHelp(t) \/ Help(t) \/ ClearAfterHelp(t)
    \/ PallocFromCache(t) \/ PallocCacheEmpty(t) \/ PopCache(t)
    \/ PopFails(t) \/ AfterTrigger(t)

Collector(t) ==
    \/ Advance(t) \/ SwingHead(t) \/ EnterPhase(t)
    \/ StampRead(t) \/ StampCas(t) \/ SaveHP(t) \/ ResetSweep(t)
    \/ ClaimPage(t) \/ FreeObject(t) \/ SweepEnds(t) \/ LastPush(t)

\* Every thread needs a phase beyond the bound.
AtBound ==
    /\ \A t \in Threads : pc[t] = "advance" /\ localVer[t] = MaxPhase
    /\ UNCHANGED vars

Next == \/ \E t \in Threads : Mutator(t) \/ Collector(t) \/ Drain(t)
        \/ AtBound

Spec == Init /\ [][Next]_vars

\* Only thread 0 is known to be scheduled; the others may stop anywhere.
Fairness == WF_vars(Collector(0))
FairSpec == Spec /\ Fairness

-----------------------------------------------------------------------------
(* Properties.                                                             *)

MutLabels == {"find", "walk", "clear1", "help", "clear2", "drop", "publish",
              "fence", "cas", "palloc", "pop", "triggered"}
StampLabels == {"stampRead", "stampCas"}
SweepLabels == {"sweep", "lastPush"}
Labels == MutLabels \cup StampLabels \cup SweepLabels
            \cup {"advance", "swing", "enter", "saveHP", "reset"}

Records == [ph : Versions, bit : 0 .. 1]
Fillings == (0 .. CacheSize) \cup {NoCache}
Objects == Versions \cup {NoObj, NullObj}

\* Every variable has its type; versions stay within the bound.
TypeOK ==
    /\ phase \in Versions
    /\ head \in [ver : Versions, cnt : Nat]
    /\ sweep \in [ph : Versions, ctr : 0 .. Pages]
    /\ dirty \in [Threads -> Records]
    /\ wbuf \in [Threads -> Nat]
    /\ hp \in [Threads -> 0 .. 1]
    /\ localVer \in [Threads -> Versions]
    /\ cache \in [Threads -> Fillings]
    /\ obj \in [Threads -> Objects]
    /\ pc \in [Threads -> Labels]
    /\ ret \in [Threads -> {"macro", "palloc"}]
    /\ idx \in [Threads -> Threads]
    /\ att \in [Threads -> 1 .. 2]
    /\ reg \in [Threads -> Records]
    /\ left \in [Threads -> Nat]
    /\ seen \in [Threads -> Versions]
    /\ hpSeen \in [Threads -> SUBSET Threads]

\* Two attempts per record are enough: whoever leaves the stamping loop leaves
\* every record stamped with its phase, whatever the owners and the other
\* stampers did in between (the comment at allocator.c:56).
StampComplete ==
    \A t \in Threads : pc[t] \in {"saveHP", "reset"} \cup SweepLabels =>
        \A j \in Threads : dirty[j].ph >= localVer[t]

\* The assertions of trace.c:109 (a thread that resets the sweep counter finds
\* the phase just before its own), allocator.c:105 (the sweep it starts is of
\* its phase or a later one) and allocator.c:146 (no cache is left over when
\* palloc tries again).
Assertions ==
    \A t \in Threads :
        /\ pc[t] = "reset" => sweep.ph >= localVer[t] - 1
        /\ pc[t] \in SweepLabels => sweep.ph >= localVer[t]
        /\ pc[t] = "pop" => cache[t] = NoCache

\* u has read the hazard pointers of t for the phase u is collecting.
HasSaved(u, t) ==
    \/ pc[u] = "saveHP" /\ t < idx[u]
    \/ pc[u] \in {"reset"} \cup SweepLabels

\* CHECK validates the reads before it ("validate read.", lfl-RoF.c:132): a
\* traversal it lets go on has not been notified of a collection since it
\* began.
ReadsValidated ==
    [][\A t \in Threads : CheckClean(t) => dirty[t].ph = seen[t]]_vars

\* The handshake.  A thread about to CAS has passed FENCE_CHECK.  If its
\* traversal began before it was notified of the phase u is collecting, then
\* the hazard pointers u traces from include the ones the thread published.
Covered ==
    \A t, u \in Threads :
        pc[t] = "cas" /\ HasSaved(u, t) /\ seen[t] < localVer[u]
            => t \in hpSeen[u]

\* The object an insert is about to fill in and link was taken from the pool
\* of the phase the collector u is working on, or u keeps it alive: it is not
\* swept under the insert, though it is reachable from nowhere yet.
NoStaleObject ==
    \A t, u \in Threads :
        pc[t] = "cas" /\ HasSaved(u, t) /\ obj[t] >= 0 /\ obj[t] < localVer[u]
            => t \in hpSeen[u]

\* "Discarded by the check after alloc": an insert that got NULL from palloc
\* never reaches its stores into the new entry (allocator.c:144).
NullDiscarded == \A t \in Threads : pc[t] = "cas" => obj[t] # NullObj

\* An object is in the pool, or in an insert's hands, only when the collection
\* it is labelled with has finished tracing.
HandedOutAfterTrace ==
    /\ head.cnt > 0 => sweep.ph >= head.ver
    /\ \A t \in Threads : obj[t] >= 0 => sweep.ph >= obj[t]

\* The protocol implements the collection cycle.
C == INSTANCE Cycle WITH
        Initial <- PoolSize,
        epoch <- phase,
        notified <- [t \in Threads |-> dirty[t].ph],
        opened <- sweep.ph,
        pool <- head
CycleSpec == C!Spec

\* A thread that has begun to help comes back, though every other thread may
\* have stopped in the middle of its own collection.
HelperReturns ==
    pc[0] = "swing" ~> pc[0] \in {"clear2", "triggered"}

-----------------------------------------------------------------------------
(* The inductive invariant behind the properties; proved in PhaseProofs.   *)

\* The four places that hold a version follow the phase at a distance of one
\* at most, in this order: records and the pool's version, then the sweep.
VersionOrder ==
    /\ phase - 1 <= head.ver /\ head.ver <= phase
    /\ phase - 1 <= sweep.ph /\ sweep.ph <= head.ver
    /\ \A t \in Threads :
        /\ phase - 1 <= dirty[t].ph /\ dirty[t].ph <= phase
        /\ localVer[t] <= phase
        /\ localVer[t] <= head.ver
        /\ pc[t] \in {"swing", "enter"} => localVer[t] < phase
        /\ pc[t] = "enter" => localVer[t] < head.ver

\* Why the second attempt cannot fail: the first one fails only because the
\* owner cleared the bit, and a clear bit stays clear until the next stamp.
Attempt(t) ==
    LET r == dirty[idx[t]]
    IN  /\ pc[t] = "stampCas" => reg[t].ph < localVer[t]
        /\ r.ph < localVer[t] =>
            /\ pc[t] = "stampCas" /\ att[t] = 1 => r = reg[t] \/ r.bit = 0
            /\ pc[t] = "stampRead" /\ att[t] = 2 => r.bit = 0
            /\ pc[t] = "stampCas" /\ att[t] = 2 => r = reg[t] /\ r.bit = 0

\* How far thread t has taken the phase it is in.
ProgressOf(t) ==
    /\ pc[t] \in StampLabels =>
        /\ \A j \in Threads : j < idx[t] => dirty[j].ph >= localVer[t]
        /\ Attempt(t)
    /\ pc[t] \notin StampLabels =>
        \A j \in Threads : dirty[j].ph >= localVer[t]
    /\ pc[t] \notin StampLabels \cup {"saveHP", "reset"} =>
        sweep.ph >= localVer[t]
    /\ pc[t] \in StampLabels \cup {"pop", "triggered", "swing", "enter", "saveHP", "reset"}
        => cache[t] = NoCache

Progress == \A t \in Threads : ProgressOf(t)

\* The version invariant: TypeOK alone is not inductive.
VersionInv == TypeOK /\ VersionOrder /\ Progress

\* t is inside a traversal and has not restarted since.
Traversing(t) ==
    \/ pc[t] \in {"walk", "palloc", "pop", "publish", "fence", "cas", "triggered"}
    \/ pc[t] \notin MutLabels /\ ret[t] = "palloc"

\* With stores in order, a stamp that arrives during a traversal is still on
\* the record when CHECK and FENCE_CHECK look.
HandshakeOf(t) ==
    /\ wbuf[t] = 0
    /\ seen[t] <= dirty[t].ph
    /\ Traversing(t) /\ seen[t] < dirty[t].ph => dirty[t].bit = 1
    /\ pc[t] \in {"fence", "cas"} => hp[t] = 1
    /\ pc[t] \in {"clear1", "drop", "help"} => ret[t] = "macro"

HandshakeInv == (\A t \in Threads : HandshakeOf(t)) /\ Covered

\* The places of a thread that believes it has not been notified.
Ordinary(t) ==
    \/ pc[t] \in {"find", "walk", "palloc", "pop", "cas"}
    \/ pc[t] \in {"publish", "fence"} /\ obj[t] # NullObj

\* A thread with a cache belongs to the pool's phase, or its dirty bit says
\* that it does not and no delayed store is going to wipe it out.
FreshOf(t) ==
    /\ dirty[t].ph <= head.ver
    /\ Ordinary(t) /\ dirty[t].ph <= localVer[t] => dirty[t].bit = 0 \/ wbuf[t] > 0
    /\ Ordinary(t) /\ cache[t] # NoCache =>
        wbuf[t] = 0 /\ (dirty[t].ph > localVer[t] => dirty[t].bit = 1)
    /\ pc[t] \in {"clear1", "drop", "help"} /\ cache[t] # NoCache => dirty[t].ph > localVer[t]
    /\ pc[t] = "clear2" => cache[t] = NoCache
    /\ pc[t] = "walk" => obj[t] = NoObj
    /\ pc[t] \in {"publish", "fence", "cas"} =>
        /\ obj[t] >= 0 => obj[t] = localVer[t] /\ cache[t] # NoCache
        /\ obj[t] = NullObj => cache[t] = NoCache /\ wbuf[t] = 0 /\ dirty[t].bit = 1
    /\ pc[t] \in {"fence", "cas"} => hp[t] = 1

FreshInv == (\A t \in Threads : FreshOf(t)) /\ NullDiscarded /\ NoStaleObject

=============================================================================
