------------------------------- MODULE Retire -------------------------------
(***************************************************************************)
(* The allocator with manual retirement (allocatorOA.c) under the list     *)
(* that uses it (lfl-MOA.c).  Objects travel in caches: unlinked objects   *)
(* fill a thread's free_cache, which is pushed to the stack `reclaim`; a   *)
(* phase change moves that stack to `toProcess` in three CASes, with an    *)
(* odd version between; then the caches of toProcess are taken one by one, *)
(* objects under a hazard pointer are retired again and the others go to   *)
(* the stack `head`, from which palloc takes its caches.                   *)
(*                                                                         *)
(* Recycle calls pfree, which may start a collection within a collection:  *)
(* every thread has a stack of the calls of Recycle it is in.              *)
(*                                                                         *)
(* The list is the set of objects that are linked.  A list operation reads *)
(* one of them, looks at its dirty byte, publishes a hazard pointer, looks *)
(* again with an exchange, and does a CAS.                                 *)
(***************************************************************************)
EXTENDS Integers, Sequences, Functions, Reachability

CONSTANTS NumThreads,
          Objects, NoObject,
          NumCaches, \* bound on the caches in use at a time
          PerCache,  \* ENTRIES_PER_CACHE
          Stock,     \* the contents of the caches initAllocator makes
          Inserters, \* threads that insert without bound
          Bounds     \* bounds to choose from: [ver, inserts], on the versions and on
                     \* the inserts of every other thread

ASSUME RetireAssumption ==
    /\ NumThreads \in Nat \ {0} /\ NumCaches \in Nat /\ PerCache \in Nat \ {0}
    /\ NoObject \notin Objects
    /\ Inserters \subseteq 0 .. NumThreads - 1
    /\ \A b \in Bounds : b.ver \in Nat /\ b.ver >= 2 /\ b.ver % 2 = 0 /\ b.inserts \in Nat
    /\ Stock \in Seq(Seq(Objects)) /\ Len(Stock) <= NumCaches
    /\ \A c \in DOMAIN Stock : Len(Stock[c]) <= PerCache /\ IsInjective(Stock[c])
    /\ \A c, d \in DOMAIN Stock : c # d => Range(Stock[c]) \cap Range(Stock[d]) = {}
    /\ \A o \in Objects : \E c \in DOMAIN Stock : o \in Range(Stock[c])

Threads == 0 .. NumThreads - 1
Caches == 1 .. NumCaches
NULL == 0

VARIABLES
    reclaim,    \* global->reclaim: [head, ver]
    toProcess,  \* global->toProcess: [head, ver]
    head,       \* global->head
    next, ptrs, \* of every cache; ptrs[c] has free elements
    dirties,    \* dirtyNphase of every thread: [ver, dirty]
    HPs,        \* its hazard pointers
    linked,     \* the objects of the list
    localVer, allocCache, freeCache,
    hps,        \* the set hps of every thread
    op,         \* what a thread is about: "none", "insert" or "unlink"
    ref,        \* the object it has come to in the list
    own,        \* the new object, or the unlinked one it retires
    calls,      \* its calls of Recycle: sequence of [entry, rest, kept, obj]
    reg, nxt,   \* the pointers and versions it has read
    seen,       \* the record it has read
    i,          \* its index in the loops over the threads
    pc,
    left,       \* the inserts the thread may still begin (bound)
    lastVer,    \* the last version (bound)
    forgotten   \* new objects that were dropped at a restart (history)

shared == <<reclaim, toProcess, head>>
caches == <<next, ptrs, allocCache, freeCache>>
records == <<dirties, HPs>>
regs == <<reg, nxt, seen, i>>
operation == <<op, ref, own, linked, left, forgotten>>
vars == <<shared, caches, records, operation, localVer, hps, calls, regs, pc, lastVer>>

Goto(t, l) == pc' = [pc EXCEPT ![t] = l]
NoReg == [head |-> NULL, ver |-> 0]
NoWord == [ver |-> 0, dirty |-> FALSE]

Init ==
    /\ reclaim = [head |-> NULL, ver |-> 2]
    /\ toProcess = [head |-> NULL, ver |-> 2]
    /\ head = IF Stock = <<>> THEN NULL ELSE 1
    /\ next = [c \in Caches |-> IF c < Len(Stock) THEN c + 1 ELSE NULL]
    /\ ptrs = [c \in Caches |-> IF c <= Len(Stock) THEN Stock[c] ELSE <<>>]
    /\ dirties = [t \in Threads |-> NoWord]
    /\ HPs = [t \in Threads |-> {}]
    /\ linked = {} /\ forgotten = {}
    /\ localVer = [t \in Threads |-> 0]
    /\ allocCache = [t \in Threads |-> NULL]
    /\ freeCache = [t \in Threads |-> NULL]
    /\ hps = [t \in Threads |-> {}]
    /\ op = [t \in Threads |-> "none"]
    /\ ref = [t \in Threads |-> NoObject]
    /\ own = [t \in Threads |-> NoObject]
    /\ calls = [t \in Threads |-> <<>>]
    /\ reg = [t \in Threads |-> NoReg]
    /\ nxt = [t \in Threads |-> NULL]
    /\ seen = [t \in Threads |-> NoWord]
    /\ i = [t \in Threads |-> 0]
    /\ \E b \in Bounds : lastVer = b.ver /\ left = [t \in Threads |-> b.inserts]
    /\ pc = [t \in Threads |-> "walk"]

\* The caches on the stack that starts at c.
Chain(c) == Reach(next, {c})

\* While the version is odd and toProcess has it, reclaim's pointer is a
\* remnant of the stack.
Retired ==
    Chain(toProcess.head) \cup
    IF reclaim.ver = toProcess.ver - 1 THEN {} ELSE Chain(reclaim.head)

\* No cache is ever freed: malloc gives one that nobody can refer to.
Referenced ==
    Reach(next, {head, toProcess.head, reclaim.head})
        \cup UNION {{allocCache[t], freeCache[t], reg[t].head, nxt[t]}
                    \cup {calls[t][k].entry : k \in DOMAIN calls[t]} : t \in Threads}
Fresh == LET unused == Caches \ Referenced IN {c \in unused : \A d \in unused : c <= d}

-----------------------------------------------------------------------------
(* Calls of triggerCollection and their ends.                              *)

Top(t) == calls[t][Len(calls[t])]
SetTop(t, frame) == calls' = [calls EXCEPT ![t][Len(calls[t])] = frame]
NewCall == [entry |-> NULL, rest |-> <<>>, kept |-> <<>>, obj |-> NoObject]

\* triggerCollection(global, local), called by palloc or pfree.
Trigger(t) ==
    /\ calls' = [calls EXCEPT ![t] = Append(@, NewCall)]
    /\ Goto(t, "freeze")

\* Recycle has returned: back to the loop of palloc, or to `restart` of pfree.
Return(t) ==
    /\ calls' = [calls EXCEPT ![t] = SubSeq(@, 1, Len(@) - 1)]
    /\ hps' = [hps EXCEPT ![t] = IF Len(calls[t]) = 1 THEN {} ELSE @]
    /\ Goto(t, IF Len(calls[t]) = 1 /\ op[t] = "insert" THEN "popHead" ELSE "pfree")

-----------------------------------------------------------------------------
(* Reclamation.                                                            *)

\* Mutant of Freeze: the head is loaded before the version.
FreezeHeadFirst(t) ==
    /\ \/ /\ pc[t] = "freeze" /\ localVer[t] < lastVer
          /\ reg' = [reg EXCEPT ![t].head = reclaim.head]
          /\ Goto(t, "freezeVer")
          /\ UNCHANGED shared
       \/ /\ pc[t] = "freezeVer"
          /\ IF reclaim.ver = localVer[t]
             THEN /\ reclaim' = [reclaim EXCEPT !.ver = localVer[t] + 1]
                  /\ reg' = [reg EXCEPT ![t].head = reclaim.head]
             ELSE UNCHANGED <<reclaim, reg>>
          /\ Goto(t, IF reclaim'.ver = localVer[t] + 1 THEN "move" ELSE "unfreeze")
          /\ UNCHANGED <<toProcess, head>>
    /\ UNCHANGED <<caches, records, operation, localVer, hps, calls, nxt, seen, i>>

\* The loop that makes the version odd, which ends when somebody has done so.
\* The compiled code loads the version before the head.
Freeze(t) ==
    /\ pc[t] = "freeze" /\ localVer[t] < lastVer
    /\ IF reclaim.ver = localVer[t]
       THEN /\ reclaim' = [reclaim EXCEPT !.ver = localVer[t] + 1]
            /\ reg' = [reg EXCEPT ![t].head = reclaim.head]
            /\ Goto(t, "move")
       ELSE /\ Goto(t, IF reclaim.ver = localVer[t] + 1 THEN "loadHead" ELSE "unfreeze")
            /\ UNCHANGED <<reclaim, reg>>
    /\ UNCHANGED <<toProcess, head, caches, records, operation, localVer, hps, calls, nxt, seen, i>>

LoadHead(t) ==
    /\ pc[t] = "loadHead"
    /\ reg' = [reg EXCEPT ![t].head = reclaim.head]
    /\ Goto(t, "move")
    /\ UNCHANGED <<shared, caches, records, operation, localVer, hps, calls, nxt, seen, i>>

\* Mutant of Move: the version of toProcess is not looked at.
MoveBlind(t) ==
    /\ pc[t] = "move"
    /\ toProcess' = [head |-> reg[t].head, ver |-> localVer[t] + 2]
    /\ reg' = [reg EXCEPT ![t] = NoReg]
    /\ Goto(t, "unfreeze")
    /\ UNCHANGED <<reclaim, head, caches, records, operation, localVer, hps, calls, nxt, seen, i>>

\* The loop that moves the stack to toProcess.
Move(t) ==
    /\ pc[t] = "move"
    /\ toProcess' = IF toProcess.ver = localVer[t]
                    THEN [head |-> reg[t].head, ver |-> localVer[t] + 2] ELSE toProcess
    /\ reg' = [reg EXCEPT ![t] = NoReg]
    /\ Goto(t, "unfreeze")
    /\ UNCHANGED <<reclaim, head, caches, records, operation, localVer, hps, calls, nxt, seen, i>>

\* Mutant of Unfreeze: the version moves on, but the stack stays.
UnfreezeKeepsHead(t) ==
    /\ pc[t] = "unfreeze"
    /\ reclaim' = IF reclaim.ver = localVer[t] + 1
                  THEN [reclaim EXCEPT !.ver = localVer[t] + 2] ELSE reclaim
    /\ localVer' = [localVer EXCEPT ![t] = @ + 2]
    /\ Goto(t, "look")
    /\ UNCHANGED <<toProcess, head, caches, records, operation, hps, calls, regs>>

\* The loop that empties reclaim for the next version; local->localVer += 2.
\* A thread that was late has done nothing until here.
Unfreeze(t) ==
    /\ pc[t] = "unfreeze"
    /\ reclaim' = IF reclaim.ver = localVer[t] + 1
                  THEN [head |-> NULL, ver |-> localVer[t] + 2] ELSE reclaim
    /\ localVer' = [localVer EXCEPT ![t] = @ + 2]
    /\ Goto(t, "look")
    /\ UNCHANGED <<toProcess, head, caches, records, operation, hps, calls, regs>>

\* The next thread, or the next loop.
NextThread(t, same, then) ==
    /\ i' = [i EXCEPT ![t] = (@ + 1) % NumThreads]
    /\ Goto(t, IF i[t] + 1 < NumThreads THEN same ELSE then)

\* dNpTi = dirties[i].dirtyNphase, before the first CAS and after it.
Look(t) ==
    /\ pc[t] \in {"look", "lookAgain"}
    /\ LET d == dirties[i[t]] IN
        IF d.ver >= localVer[t]
        THEN NextThread(t, "look", "save") /\ UNCHANGED seen
        ELSE /\ seen' = [seen EXCEPT ![t] = d]
             /\ Goto(t, IF pc[t] = "look" THEN "stamp" ELSE "stampAgain")
             /\ UNCHANGED i
    /\ hps' = [hps EXCEPT ![t] = {}]
    /\ UNCHANGED <<shared, caches, records, operation, localVer, calls, reg, nxt>>

\* CAS(&dirties[i].dirtyNphase, dNpTi, dNpd), two attempts.
Stamp(t) ==
    /\ pc[t] \in {"stamp", "stampAgain"}
    /\ dirties' = IF dirties[i[t]] = seen[t]
                  THEN [dirties EXCEPT ![i[t]] = [ver |-> localVer[t], dirty |-> TRUE]]
                  ELSE dirties
    /\ IF pc[t] = "stamp" THEN Goto(t, "lookAgain") /\ UNCHANGED i
                          ELSE NextThread(t, "look", "save")
    /\ seen' = [seen EXCEPT ![t] = NoWord]
    /\ UNCHANGED <<shared, caches, HPs, operation, localVer, hps, calls, reg, nxt>>

\* setAddP of the hazard pointers of thread i.
Save(t) ==
    /\ pc[t] = "save"
    /\ hps' = [hps EXCEPT ![t] = @ \cup HPs[i[t]]]
    /\ NextThread(t, "save", "pop")
    /\ UNCHANGED <<shared, caches, records, operation, localVer, calls, reg, nxt, seen>>

-----------------------------------------------------------------------------
(* Recycle and its pop.                                                    *)

\* old = *adr in pop.  Nothing in this version: Recycle returns.
Pop(t) ==
    /\ pc[t] = "pop"
    /\ IF toProcess.ver # localVer[t] \/ toProcess.head = NULL
       THEN Return(t) /\ UNCHANGED reg
       ELSE /\ reg' = [reg EXCEPT ![t] = toProcess]
            /\ Goto(t, "follow")
            /\ UNCHANGED <<calls, hps>>
    /\ UNCHANGED <<shared, caches, records, operation, localVer, nxt, seen, i>>

\* new.head = old.head->next, also in palloc.
Follow(t) ==
    /\ pc[t] \in {"follow", "followHead"}
    /\ nxt' = [nxt EXCEPT ![t] = next[reg[t].head]]
    /\ Goto(t, IF pc[t] = "follow" THEN "popCas" ELSE "headCas")
    /\ UNCHANGED <<shared, caches, records, operation, localVer, hps, calls, reg, seen, i>>

\* Mutant of PopCas: only the version is compared.
PopCasVersion(t) ==
    /\ pc[t] = "popCas"
    /\ IF toProcess.ver = reg[t].ver
       THEN /\ toProcess' = [toProcess EXCEPT !.head = nxt[t]]
            /\ Goto(t, "repair")
            /\ UNCHANGED <<reg, nxt>>
       ELSE /\ Goto(t, "pop")
            /\ reg' = [reg EXCEPT ![t] = NoReg] /\ nxt' = [nxt EXCEPT ![t] = NULL]
            /\ UNCHANGED toProcess
    /\ UNCHANGED <<reclaim, head, caches, records, operation, localVer, hps, calls, seen, i>>

\* verCAS(adr, old, new).
PopCas(t) ==
    /\ pc[t] = "popCas"
    /\ IF toProcess = reg[t]
       THEN /\ toProcess' = [toProcess EXCEPT !.head = nxt[t]]
            /\ Goto(t, "repair")
            /\ UNCHANGED <<reg, nxt>>
       ELSE /\ Goto(t, "pop")
            /\ reg' = [reg EXCEPT ![t] = NoReg] /\ nxt' = [nxt EXCEPT ![t] = NULL]
            /\ UNCHANGED toProcess
    /\ UNCHANGED <<reclaim, head, caches, records, operation, localVer, hps, calls, seen, i>>

\* old.head->next = NULL, after a look whether somebody has come between.
Repair(t) ==
    /\ pc[t] = "repair"
    /\ LET e == reg[t].head IN
        /\ next' = IF next[e] = nxt[t] THEN [next EXCEPT ![e] = NULL]
                                       ELSE [next EXCEPT ![next[e]] = NULL]
        /\ SetTop(t, [NewCall EXCEPT !.entry = e, !.rest = ptrs[e]])
    /\ reg' = [reg EXCEPT ![t] = NoReg] /\ nxt' = [nxt EXCEPT ![t] = NULL]
    /\ Goto(t, "scan")
    /\ UNCHANGED <<shared, ptrs, allocCache, freeCache, records, operation, localVer, hps, seen, i>>

\* The loop over entry->ptrs: an object under a hazard pointer goes to pfree.
Scan(t) ==
    /\ pc[t] = "scan"
    /\ Top(t).rest # <<>>
    /\ LET o == Head(Top(t).rest)
           frame == [Top(t) EXCEPT !.rest = Tail(@)]
       IN  IF o \in hps[t]
           THEN SetTop(t, [frame EXCEPT !.obj = o]) /\ Goto(t, "pfree")
           ELSE SetTop(t, [frame EXCEPT !.kept = Append(@, o)]) /\ UNCHANGED pc
    /\ UNCHANGED <<shared, caches, records, operation, localVer, hps, regs>>

\* entry->free = k.  An empty entry is dropped; otherwise tmp = global->head
\* and entry->next = tmp, again when the CAS has failed.
EndScan(t) ==
    /\ pc[t] = "scan"
    /\ Top(t).rest = <<>>
    /\ LET e == Top(t).entry IN
        /\ ptrs' = [ptrs EXCEPT ![e] = Top(t).kept]
        /\ IF Top(t).kept = <<>>
           THEN SetTop(t, NewCall) /\ Goto(t, "pop") /\ UNCHANGED next
           ELSE next' = [next EXCEPT ![e] = head] /\ Goto(t, "giveCas") /\ UNCHANGED calls
    /\ UNCHANGED <<shared, allocCache, freeCache, records, operation, localVer, hps, regs>>

\* Mutant of GiveCas: the entry is kept after it was given.
GiveTwice(t) ==
    /\ pc[t] = "giveCas"
    /\ IF head = next[Top(t).entry]
       THEN /\ head' = Top(t).entry
            /\ \/ SetTop(t, NewCall) /\ Goto(t, "pop")
               \/ Goto(t, "scan") /\ UNCHANGED calls
       ELSE Goto(t, "scan") /\ UNCHANGED <<head, calls>>
    /\ UNCHANGED <<reclaim, toProcess, caches, records, operation, localVer, hps, regs>>

\* CAS(&global->head, tmp, entry).
GiveCas(t) ==
    /\ pc[t] = "giveCas"
    /\ IF head = next[Top(t).entry]
       THEN head' = Top(t).entry /\ SetTop(t, NewCall) /\ Goto(t, "pop")
       ELSE Goto(t, "scan") /\ UNCHANGED <<head, calls>>
    /\ UNCHANGED <<reclaim, toProcess, caches, records, operation, localVer, hps, regs>>

-----------------------------------------------------------------------------
(* pfree.                                                                  *)

Argument(t) == IF calls[t] = <<>> THEN own[t] ELSE Top(t).obj

\* pfree returns: to the list operation, which goes on, or to Recycle.
FreeReturns(t) ==
    IF calls[t] = <<>>
    THEN /\ own' = [own EXCEPT ![t] = NoObject] /\ op' = [op EXCEPT ![t] = "none"]
         /\ Goto(t, "walk")
         /\ UNCHANGED calls
    ELSE /\ SetTop(t, [Top(t) EXCEPT !.obj = NoObject])
         /\ Goto(t, "scan")
         /\ UNCHANGED <<own, op>>

\* A new free_cache with the object.
NewFreeCache(t) ==
    \E c \in Fresh :
        /\ freeCache' = [freeCache EXCEPT ![t] = c]
        /\ ptrs' = [ptrs EXCEPT ![c] = <<Argument(t)>>]

\* From `restart` on: the object goes to the free_cache, unless it is full.  A
\* list operation has cleared its hazard pointers before the call.
PFree(t) ==
    /\ pc[t] \in {"retire", "pfree"}
    /\ HPs' = [HPs EXCEPT ![t] = {}]
    /\ LET c == freeCache[t] IN
        IF c = NULL
        THEN NewFreeCache(t) /\ FreeReturns(t)
        ELSE /\ UNCHANGED freeCache
             /\ IF Len(ptrs[c]) < PerCache
                THEN ptrs' = [ptrs EXCEPT ![c] = Append(@, Argument(t))] /\ FreeReturns(t)
                ELSE Goto(t, "pushLink") /\ UNCHANGED <<ptrs, calls, own, op>>
    /\ UNCHANGED <<shared, next, allocCache, dirties, ref, linked, left, forgotten, localVer, hps, regs>>

\* Another version: a collection first.  Otherwise tofree->next = reclaim.head.
PushLink(t) ==
    /\ pc[t] = "pushLink"
    /\ IF reclaim.ver # localVer[t]
       THEN Trigger(t) /\ UNCHANGED <<next, reg>>
       ELSE /\ next' = [next EXCEPT ![freeCache[t]] = reclaim.head]
            /\ reg' = [reg EXCEPT ![t] = reclaim]
            /\ Goto(t, "pushCas")
            /\ UNCHANGED calls
    /\ UNCHANGED <<shared, ptrs, allocCache, freeCache, records, operation, localVer, hps, nxt, seen, i>>

\* verCAS(&alc->reclaim, reclaim, newitem), and a new free_cache.
PushCas(t) ==
    /\ pc[t] = "pushCas"
    /\ IF reclaim = reg[t]
       THEN /\ reclaim' = [reclaim EXCEPT !.head = freeCache[t]]
            /\ NewFreeCache(t) /\ FreeReturns(t)
       ELSE Goto(t, "pushLink") /\ UNCHANGED <<reclaim, ptrs, freeCache, own, op, calls>>
    /\ reg' = [reg EXCEPT ![t] = NoReg]
    /\ UNCHANGED <<toProcess, head, next, allocCache, records, ref, linked, left, forgotten,
                   localVer, hps, nxt, seen, i>>

-----------------------------------------------------------------------------
(* palloc.                                                                 *)

\* start: the last object of the thread's cache, or another cache.
TakeOrPop(t) ==
    LET c == allocCache[t] IN
    IF c # NULL /\ ptrs[c] # <<>>
    THEN /\ own' = [own EXCEPT ![t] = ptrs[c][Len(ptrs[c])]]
         /\ ptrs' = [ptrs EXCEPT ![c] = SubSeq(@, 1, Len(@) - 1)]
         /\ Goto(t, "publish")
    ELSE Goto(t, "popHead") /\ UNCHANGED <<own, ptrs>>

\* curhead = alc->head.  There is nothing: a collection.
PopHead(t) ==
    /\ pc[t] = "popHead"
    /\ IF head = NULL
       THEN Trigger(t) /\ UNCHANGED reg
       ELSE /\ reg' = [reg EXCEPT ![t].head = head]
            /\ Goto(t, "followHead")
            /\ UNCHANGED calls
    /\ UNCHANGED <<shared, caches, records, operation, localVer, hps, nxt, seen, i>>

\* CAS(&alc->head, curhead, next), without a version.
HeadCas(t) ==
    /\ pc[t] = "headCas"
    /\ IF head = reg[t].head
       THEN /\ head' = nxt[t]
            /\ allocCache' = [allocCache EXCEPT ![t] = head]
            /\ Goto(t, "unlinkCache")
       ELSE Goto(t, "popHead") /\ UNCHANGED <<head, allocCache>>
    /\ reg' = [reg EXCEPT ![t] = NoReg] /\ nxt' = [nxt EXCEPT ![t] = NULL]
    /\ UNCHANGED <<reclaim, toProcess, next, ptrs, freeCache, records, operation,
                   localVer, hps, calls, seen, i>>

\* alloc_cache->next = NULL, and goto start.
UnlinkCache(t) ==
    /\ pc[t] = "unlinkCache"
    /\ next' = [next EXCEPT ![allocCache[t]] = NULL]
    /\ TakeOrPop(t)
    /\ UNCHANGED <<shared, allocCache, freeCache, records, op, ref, linked, left, forgotten,
                   localVer, hps, calls, regs>>

-----------------------------------------------------------------------------
(* The list operations.                                                    *)

\* find restarts when CHECK finds the dirty byte set.  The byte is cleared by a
\* store, and what is stamped in between is overwritten.
Clear(t) ==
    /\ pc[t] = "walk"
    /\ dirties[t].dirty
    /\ dirties' = [dirties EXCEPT ![t].dirty = FALSE]
    /\ UNCHANGED <<shared, caches, HPs, operation, localVer, hps, calls, regs, pc>>

\* A search, or an operation that finds nothing to do, returns.
Search(t) == pc[t] = "walk" /\ ~dirties[t].dirty /\ UNCHANGED vars

\* find has come to an object to unlink.  Its reads and CHECK are one step: the
\* byte is set by others only, so it was clear when the object was read.
WalkToUnlink(t) ==
    /\ pc[t] = "walk"
    /\ ~dirties[t].dirty
    /\ \E o \in linked : ref' = [ref EXCEPT ![t] = o]
    /\ op' = [op EXCEPT ![t] = "unlink"]
    /\ Goto(t, "publish")
    /\ UNCHANGED <<shared, caches, records, own, linked, left, forgotten, localVer, hps, calls, regs>>

\* find has come to the place of an insert, behind an object or at the list's
\* head; palloc takes from the thread's cache, if it has something.
WalkToInsert(t) ==
    /\ pc[t] = "walk"
    /\ ~dirties[t].dirty
    /\ IF t \in Inserters THEN UNCHANGED left
                         ELSE left[t] > 0 /\ left' = [left EXCEPT ![t] = @ - 1]
    /\ \E o \in linked \cup {NoObject} : ref' = [ref EXCEPT ![t] = o]
    /\ op' = [op EXCEPT ![t] = "insert"]
    /\ TakeOrPop(t)
    /\ UNCHANGED <<shared, next, allocCache, freeCache, records, linked, forgotten,
                   localVer, hps, calls, regs>>

\* dty->HPs[..] = ...
Publish(t) ==
    /\ pc[t] = "publish"
    /\ HPs' = [HPs EXCEPT ![t] = {ref[t], own[t]} \ {NoObject}]
    /\ Goto(t, "fence")
    /\ UNCHANGED <<shared, caches, dirties, operation, localVer, hps, calls, regs>>

\* Mutant of Fence: the dirty byte was looked at before (CHECK), not again.
FenceBlind(t) ==
    /\ pc[t] = "fence"
    /\ dirties' = [dirties EXCEPT ![t].dirty = FALSE]
    /\ Goto(t, "cas")
    /\ UNCHANGED <<shared, caches, HPs, operation, localVer, hps, calls, regs>>

\* The exchange of FENCE_CHECK.
Fence(t) ==
    /\ pc[t] = "fence"
    /\ dirties' = [dirties EXCEPT ![t].dirty = FALSE]
    /\ Goto(t, IF dirties[t].dirty THEN "restart" ELSE "cas")
    /\ UNCHANGED <<shared, caches, HPs, operation, localVer, hps, calls, regs>>

\* The rest of FENCE_CHECK.  An insert forgets its new object.
Restart(t) ==
    /\ pc[t] = "restart"
    /\ HPs' = [HPs EXCEPT ![t] = {}]
    /\ dirties' = [dirties EXCEPT ![t].dirty = FALSE]
    /\ forgotten' = forgotten \cup ({own[t]} \ {NoObject})
    /\ own' = [own EXCEPT ![t] = NoObject]
    /\ op' = [op EXCEPT ![t] = "none"] /\ ref' = [ref EXCEPT ![t] = NoObject]
    /\ Goto(t, "walk")
    /\ UNCHANGED <<shared, caches, linked, left, localVer, hps, calls, regs>>

\* The CAS on the link before the object: it fails when the list has changed.
Cas(t) ==
    /\ pc[t] = "cas"
    /\ \/ Goto(t, "finish") /\ UNCHANGED <<linked, own>>
       \/ /\ op[t] = "unlink" /\ ref[t] \in linked
          /\ linked' = linked \ {ref[t]}
          /\ own' = [own EXCEPT ![t] = ref[t]]
          /\ Goto(t, "retire")
       \/ /\ op[t] = "insert" /\ ref[t] \in linked \cup {NoObject}
          /\ linked' = linked \cup {own[t]}
          /\ own' = [own EXCEPT ![t] = NoObject]
          /\ Goto(t, "finish")
    /\ ref' = [ref EXCEPT ![t] = NoObject]
    /\ UNCHANGED <<shared, caches, records, op, left, forgotten, localVer, hps, calls, regs>>

\* The hazard pointers are cleared; an object that was not linked is put back
\* into the cache it came from (pReturnAlloc).
Finish(t) ==
    /\ pc[t] = "finish"
    /\ ptrs' = IF own[t] = NoObject THEN ptrs
               ELSE [ptrs EXCEPT ![allocCache[t]] = Append(@, own[t])]
    /\ HPs' = [HPs EXCEPT ![t] = {}]
    /\ own' = [own EXCEPT ![t] = NoObject] /\ op' = [op EXCEPT ![t] = "none"]
    /\ Goto(t, "walk")
    /\ UNCHANGED <<shared, next, allocCache, freeCache, dirties, ref, linked, left, forgotten,
                   localVer, hps, calls, regs>>

\* All threads want a collection and the versions of the bound are used up.
AtBound ==
    /\ \A t \in Threads : pc[t] = "freeze" /\ localVer[t] = lastVer
    /\ UNCHANGED vars

Step(t) ==
    \/ Freeze(t) \/ LoadHead(t) \/ Move(t) \/ Unfreeze(t) \/ Look(t) \/ Stamp(t) \/ Save(t)
    \/ Pop(t) \/ Follow(t) \/ PopCas(t) \/ Repair(t) \/ Scan(t) \/ EndScan(t)
    \/ GiveCas(t)
    \/ PFree(t) \/ PushLink(t) \/ PushCas(t)
    \/ PopHead(t) \/ HeadCas(t) \/ UnlinkCache(t)
    \/ Clear(t) \/ Search(t) \/ WalkToUnlink(t) \/ WalkToInsert(t) \/ Publish(t) \/ Fence(t) \/ Restart(t)
    \/ Cas(t) \/ Finish(t)

Next == (AtBound \/ \E t \in Threads : Step(t)) /\ UNCHANGED lastVer
Spec == Init /\ [][Next]_vars

-----------------------------------------------------------------------------
\* The types.  The phase change moves toProcess first, and a thread is not
\* ahead of it.
TypeOK ==
    /\ reclaim \in [head : 0 .. NumCaches, ver : 2 .. lastVer]
    /\ toProcess \in [head : 0 .. NumCaches, ver : {v \in 2 .. lastVer : v % 2 = 0}]
    /\ toProcess.ver \in {reclaim.ver - 1, reclaim.ver, reclaim.ver + 1}
    /\ head \in 0 .. NumCaches /\ next \in [Caches -> 0 .. NumCaches]
    /\ \A c \in Caches : Len(ptrs[c]) <= PerCache
    /\ dirties \in [Threads -> [ver : 0 .. toProcess.ver, dirty : BOOLEAN]]
    /\ localVer \in [Threads -> 0 .. toProcess.ver]
    /\ linked \subseteq Objects

\* No cache is freed, and yet the number that anything refers to is bounded: NumCaches suffice, and a
\* malloc of pfree (allocatorOA.c) always finds one.
CachesSuffice == \A t \in Threads : pc[t] \in {"retire", "pfree", "pushCas"} => Fresh # {}

\* Where the objects are: in the list, with an operation, forgotten, in a cache
\* of one of the stacks or of a thread, or in the hands of Recycle.
In(place, n, objects) == {<<place, n, o>> : o \in objects}
InCache(place, n, c) == In(place, n, IF c = NULL THEN {} ELSE Range(ptrs[c]))
InCall(f) == Range(f.rest) \cup Range(f.kept) \cup ({f.obj} \ {NoObject})
PlacesOf(t) ==
    In("own", t, {own[t]} \ {NoObject})
    \cup InCache("allocCache", t, allocCache[t])
    \cup InCache("freeCache", t, freeCache[t])
    \cup InCache("popped", t, IF pc[t] = "repair" THEN reg[t].head ELSE NULL)
    \cup UNION {In("call", <<t, k>>, InCall(calls[t][k])) : k \in DOMAIN calls[t]}
Places ==
    In("linked", 0, linked) \cup In("forgotten", 0, forgotten)
    \cup (UNION {InCache("free", c, c) : c \in Chain(head)})
    \cup (UNION {InCache("retired", c, c) : c \in Retired})
    \cup UNION {PlacesOf(t) : t \in Threads}

\* Every object is in exactly one place: no cache is lost or found twice when
\* a stack changes hands, although several threads carry out the change and
\* none of them reads the stack in one piece.  It needs the version loaded before
\* the head in Freeze, as the build does it; the source leaves that order open.
EachOnce ==
    /\ Objects = {p[3] : p \in Places}
    /\ \A p, q \in Places : p[3] = q[3] => p = q

\* pop's assertion (allocatorOA.c:110-112) in its strong form: nobody has
\* touched the entry between the CAS and the look at its link.
Untouched == \A t \in Threads : pc[t] = "repair" => next[reg[t].head] = nxt[t]

\* A phase change does not overwrite retired caches that wait to be processed.
MovedWhenEmpty == [][toProcess'.ver # toProcess.ver => toProcess.head = NULL]_vars

\* palloc's CAS compares a bare pointer, and yet what it installs is the
\* successor of the cache it takes: no cache comes back to the head while a
\* thread still remembers it there.
TakesSuccessor == [][\A t \in Threads : head' # head /\ HeadCas(t) => head' = next[head]]_vars

\* Retirement keeps its promise (Retirement): what a thread that has passed
\* FENCE_CHECK is about to change is not free, also when the objects are
\* processed by a thread that is late.
FreeObjects ==
    (UNION {Range(ptrs[c]) : c \in Chain(head)})
    \cup (UNION {Range(ptrs[allocCache[t]]) : t \in {u \in Threads : allocCache[u] # NULL}})
    \cup UNION {UNION {Range(calls[t][k].kept) : k \in DOMAIN calls[t]} : t \in Threads}
LiveObjects == linked \cup ({own[t] : t \in {u \in Threads : op[u] = "insert"}} \ {NoObject})
Abstract == INSTANCE Retirement WITH
    free <- FreeObjects,
    live <- LiveObjects,
    using <- [t \in Threads |-> IF pc[t] = "cas" THEN HPs[t] ELSE {}]
RetirementSpec == Abstract!Spec
=============================================================================
