# Verification of Automatic Optimistic Access

The repository implements lock-free linked lists and a hash table with several
ways of reclaiming their nodes; the main one is the *automatic optimistic
access* collector (`allocator.c`, `trace.c`, `lfl-RoF.c`), a lock-free
mark-and-sweep collector for one data structure.  This directory holds TLA+
models of it, TLC configurations that check them, and proofs checked by TLAPS.

    tlc -workers 2 -config Phase_sc.cfg MCPhase.tla     # a run: <config> <MC module>
    tlapm PhaseProofs.tla                               # the proofs; also OptimisticListProofs, RefCountProofs, MarkProofs,
                                                        # PoolProofs, RetireProofs, RootArrayProofs, ReachabilityProofs

Versions count by two in the code; phase *n* of the models is version *2n*.

## 1. The system

| Part | State | Operations | Hard behaviour |
|---|---|---|---|
| Phase protocol (`allocator.c`, `trace.c` 103-113, 315-405) | `phase`, `head` (pool, with version), `sweep_counter`, the word `dirtyNphase` and the `HPs` of every thread, `localVer`, `alloc_cache` | `palloc`, `triggerCollection`, `Reclamation`, `helpCollection`, `resetSweepCounter`, `sweep` | every thread may run every step of the same collection at once, or be a phase late |
| Optimistic list (`lfl-RoF.c`) | the list; the dirty byte and `HPs` | `ListSearch`, `ListInsert`, `ListDelete`, `find` with `CHECK`, `FENCE_CHECK` | reads nodes that may be reclaimed and looks at the dirty byte afterwards; a handshake in the manner of Dekker before each CAS |
| Marking (`trace.c` 19-59, 86-218, 293-312, 426-447) | mark words (phase and bits), the mark stack of every thread, readable by the others | `clearMarks`, `trace`, `traceMarkstack`, `traceObj`, `CheckFinish` | helping, termination detection, late tracers, mutators that change the list |
| Root array (`trace.c` 61-97, 219-291, 406-425) | chunk counter and sign bits, with their phase | `clearRootsMark`, `traceArr`, `get_arr_chunk`, `sign_bit`, `finishTraceArr` | a chunk claimed by a thread that stops; counters taken in the wrong phase |
| Pool (`allocator.c` 153-195, 269-281, `trace.c` 315-350) | a linked stack with a version, one `next` for several lists | `pop`, `pReturnCache`, `getAllocEntry`, `freeAllocEntry` | 16-byte reads that tear, ABA |
| Reference counts (`refcount.c`, `lfl-RC.c`) | `refcount`, the free lists of the threads, the list | `safeRead`, `release`, `newRC` and the list operations | counts move later than links; counting a node that is gone |
| Manual retirement (`allocatorOA.c`, `lfl-MOA.c`) | `reclaim`, `toProcess` (versions, odd while a phase changes), `head` | `pfree`, `palloc`, `Reclamation`, `Recycle` | a phase change of three CASes, helped |
| No reclamation (`allocatorNR.c`, `lfl-NoOrDelayRecl.c`) | pool, list | `palloc`, the list operations | the list's own races only: `find` stands between two nodes of which the first is deleted |
| Hash table (`lfhash.c`) | bucket array | a bucket's list operation | none of its own, apart from being the root array |
| Set of hazard pointers (`simpleSet.c`) | open-addressing table, count | `setAddP`, `setContainsP`, `setReset` | the table's limit, truncated pointers, collisions |
| Workers, barrier (`worker.c`), driver (`main_test.c`), assertions (`debugging.c`) | | | the debugging barrier |

How they interact: a worker calls list operations.  An insert calls `palloc`;
when the pool of its phase is empty the thread starts the next collection, and
`CHECK`/`FENCE_CHECK` make the others help.  A collection moves the phase,
replaces the pool by an empty one, stamps every thread's record, saves their
hazard pointers, clears the marks, traces from the roots and the hazard
pointers, and opens the sweep counter; then pages are swept, and caches of
unmarked objects are pushed to the pool.  Nothing waits for anybody.

What makes the parts correct, in a sentence each:

* the phase protocol: every thread is notified, and its hazard pointers saved,
  before an object of the new phase is handed out; no assertion fails;
* the list: a thread that acts on what it has read was not notified in between,
  or its hazard pointers keep what it touches alive;
* marking: when the sweep opens, what is in use is marked, and a thread can
  finish alone;
* the root array: every chunk is copied in every phase;
* the pool: an entry is in one place, and comes out in the version it went in;
* reference counts: what is reachable or held is not reclaimed, what is neither
  is reclaimed exactly once;
* manual retirement: a cache of retired objects is moved and processed once, and
  an object is free only when no thread is about to act on it;
* the lists: a set of keys on which every operation acts once, for its key, at some
  moment between its call and its return, whatever is reclaimed under a reader;
* the set of hazard pointers: exactly what was added is found.

## 2. The modules

| Module | Models | Checked by |
|---|---|---|
| `Cycle` | abstract: the cycle of collections, without threads' program counters | refined by `Phase` |
| `Phase` | the phase protocol and the accesses of the list operations | `Phase_sc`, `Phase_tso` |
| `PhaseProofs` | theorems about `Phase` | `tlapm` |
| `Mark` | marking, with mutators | `Mark_helped`, `Mark_single`, `Mark_finish` |
| `MarkProofs` | theorems about `Mark` | `tlapm` |
| `RootArray` | tracing the bucket array | `RootArray_exact`, `RootArray_512` |
| `RootArrayProofs` | theorems about `RootArray` | `tlapm` |
| `KeySet` | abstract: a set of keys with the operations of the threads on it | refined by `OptimisticList` and `RefCount` |
| `OptimisticList` | the list of `lfl-RoF.c`, `lfl-MOA.c` and `lfl-NoOrDelayRecl.c` over a heap that is reclaimed | `List_set`, `List_lost` |
| `OptimisticListProofs` | theorems about `PointerSet` and `OptimisticList` | `tlapm` |
| `PointerSet` | the table of hazard pointers, as operators | used by `OptimisticList` |
| `Reachability` | what a linked structure leads to, as an operator | used by `OptimisticList`, `RefCount`, `Pool`, `Mark` and `Retire` |
| `ReachabilityProofs` | theorems about `Reachability`, and that a set of numbers has a least one | `tlapm` |
| `CachePool` | abstract: a versioned set of caches | refined by `Pool` |
| `Pool` | the linked stack of caches | `Pool_two` |
| `PoolProofs` | theorems about `Pool` | `tlapm` |
| `RefCount` | reference counts and their list | `RefCount_set` |
| `RefCountProofs` | theorems about `RefCount` | `tlapm` |
| `Retirement` | abstract: objects live, retired or free, and their users | refined by `Retire` |
| `Retire` | the allocator with manual retirement under its list | `Retire_two` |
| `RetireProofs` | theorems about `Retire` | `tlapm` |

`MC...` modules give TLC its model values and initial data.  An operator whose
comment says *Mutant of A* is action `A` with a plausible bug (a guard dropped,
one attempt instead of two, a version not compared).  It is not part of any
specification; replacing `A` by it makes TLC report the property in question,
which shows that the property depends on that piece of code.  `PROJECT.json`
lists these pairs and, under `map`, the source lines behind each definition.

### Phase

One step per access to shared memory.  `StartTraversal` .. `ClearAfterHelp` are
the macros and the places where an operation of `lfl-RoF.c` uses them: a
traversal ("walk") ends in a CHECK and goes to an unlink or delete ("publish"),
an insert's `palloc`, or the end of the operation; the end of the list is
reached without a CHECK.  `PallocFromCache` .. `AfterTrigger` are `palloc`;
`Advance` .. `SaveHP` are `triggerCollection` and `Reclamation`; `ResetSweep`
.. `LastPush` are the sweep.

Abstractions.  The list and the marks are left out: an object is the phase of
the pool it came from, and tracing is one label (`reset`) between saving the
hazard pointers and opening the sweep.  The three hazard pointers of a thread
are published and read as one: a collector that reads them one by one while
they are being written has stamped the record before, so the owner's
`FENCE_CHECK` sends it back, exactly as if none had been read.  The loop that
replaces the pool's head is one step, since it ends only when the version has
moved (`Pool` has its steps).  In the hash table a delete keeps its hazard
pointers during one more `find`, which only keeps more objects alive; the model
has the list.  `palloc` gives up with `OutOfMemory` after a hundred attempts
(allocator.c:147-150); `AfterTrigger` has no such limit.  `seen` and `hpSeen` are history variables.

The plain `dirty=0` stores are delayed when `TSO = 1`: `wbuf` counts those in
the store buffer, a thread reads its own (forwarding), and locked instructions
and later stores wait for them.  With `TSO = 0` they take effect at once.

### Mark

`PopEntry` .. `Retract` are `traceMarkstack` and `traceObj` for objects with one
pointer (`NCHILDS == 1`, what the list compiles), `ReadVer` .. `RereadVer` the
loop and the second reading of `CheckFinish`.  Slots keep their contents when
they are popped, as in the code.  Of the protocol around it the module keeps what
`Phase` shows: a collection starts when the one before was opened, and a mutator
that has been notified performs at most the CAS whose hazard pointers were
saved.  `Phase` proves that (`Covered`) for a traversal that is older than the stamp;
finding 3 is a case where the stamp itself is lost, which `Mark` does not contain.
`CheckFinish` reads the threads in the code's order.  The objects are few and
share one mark word, so that every CAS on it competes.  `Bounds` lists how many
collections are begun together with the mutators that run; a behaviour picks one.

### KeySet

What all lists promise, as a linearizable set.  `doing` says what a thread has still to do: nothing,
an insert, a delete or a search of a key, or to return the answer of a search.  `Insert` and
`Delete` change the set by the key the thread was called with, and only once for a call.  An insert or delete
that changes nothing (`Return`) and a search (`Answer`) must agree with what was true of
their key at some moment since the request, which the history `saw` collects (`See`).  In the
lists `doing` is `Doing`, `saw` a history variable that `Witness` writes in every step, and the set the keys of
the entries that are in the list and not marked.  So the CASes of `Link` and `Mark` are where an
insert and a delete take effect; a `Mark` that succeeds ends the delete, also in the
hash table, where a `find` follows that only unlinks.

### OptimisticList

The operations of the three versions differ in what a thread looks at after a
read and in who gives the unlinked entry back, so they are one module and
`mode` says which one a behaviour runs: `collected` (`lfl-RoF.c`), `manual` (`lfl-MOA.c`) or
`none` (`lfl-NoOrDelayRecl.c`).  `Start`, `ReadHead`, `ReadNext` and `Judge` are `find`, `Fence` is
`FENCE_CHECK` with the writes behind it, `Unlink`, `Link` and `Mark` are the three CASes,
`Restart` the second `dirty=0` and the `goto`.  A read and the `CHECK` behind it are one
step: a byte that is clear at the `CHECK` was clear at the read, and otherwise what was
read is dropped.  The second `find` of a delete in the hash table is a search of its
own, which any thread may begin.

The collector is reduced to what `Phase`, `Mark` and `Retire` show of it, as a thread
of its own: `Begin`, `Stamp` for every thread, then `Save` for every thread, then `Sweep`, which frees
what cannot be reached from the root and the saved hazard pointers (`collected`: what
becomes unreachable during a collection is freed early, at its end, where the
code may leave it to the next) or what was retired and is not in the table of
hazard pointers (`manual`).  The unlinking thread's `pfree` is part of `Unlink`.  The first
`dirty=0` of `CHECK`, before `helpCollection`, has no step of its own: nobody looks at the
byte until the second.  `HasCache` keeps `palloc` from handing out an entry where the
code has none: a collection has taken the pool away and the thread's own cache
with it.  `saw` is a history variable, with what the operation could have answered.

`Overlap = FALSE` excludes one schedule of the collected version: a collection that begins while a thread stands
between the return of `helpCollection` and its second `dirty=0`.  The code does not exclude it, so what the
run `List_set` and the theorems about this module say holds when it does not happen.  With `Overlap = TRUE` the run
`List_lost` finds what finding 3 describes.

What can be followed from an entry is `Reach`, a set defined without recursion, so that
the module can be proved about.  The table of hazard pointers has twice as many cells as
there are hazard pointers, three for every thread (`allocatorOA.c:79` and `:313`), which is the
assumption on `SetSize`; `SetAddP` is the insertion with its count.

Store buffers are not in this module (`Phase` has them).

### PointerSet

`HashInsert` and `HashRetrieve` are pure operators over a table; the loop over tries is the
least try at which it stops.  A sum wraps at the width of an int, and a pointer is
cut to that width (`Truncated`).  `OptimisticList` fills the table in the order the code reads the
hazard pointers, with addresses that collide, and its `TypeOK` bounds the
number of elements by the half of the table that the code asserts.

### RootArray, Pool, RefCount

`RootArray` takes the counter, the words of bits and the helper literally, with
the two roundings of the number of words (`Words`, `HelpedWords`); when a
copied chunk is traced is `Mark`'s business.  `Pool` splits the 16-byte read of
the head into two loads in either order and has every write of `next`; what a
cache holds, and how often a thread sweeps, is free.  `RefCount` has `safeRead`
in three steps (load, count, second look), `release` with its recursion as a
list of calls still to come, and the list operations around them; steps on a
thread's own variables go with their neighbours, and registers that are not used
any any more are reset, `op` and `arg` at the return among them, which keeps the state space small.  In the hash table
a delete that has marked goes on as `"unlink"`, a `find` whose result is dropped.  `saw` is a history variable. the state space small.  What can be followed is `Reach`, as in
`OptimisticList`.  `palloc` hands out nodes
never used before; with a bounded number of nodes a thread may wait for one for
ever, where the program would get more memory, so deadlock is not checked there.

### Retire

`Freeze` .. `Save` are `Reclamation`, `Pop` .. `GiveCas` are `pop` and `Recycle`, `PFree` ..
`PushCas` `pfree`, `TakeOrPop` .. `UnlinkCache` `palloc`; `Clear` .. `Finish` are the places of
`lfl-MOA.c` where an operation checks, publishes, restarts, does its CAS and
retires or gives back.  Versions are the code's own, odd ones included.
`Recycle` calls `pfree`, which may call `triggerCollection`, so `calls` is a stack;
the set of hazard pointers is one per thread, and a nested call resets it.

A loop around a CAS on `reclaim` or `toProcess` in `Reclamation` is one step: it is
left only when the version has moved, by this thread or another.  Its first
copy of `reclaim` is two loads; the source leaves their order open, and the
build (gcc -O3 -m64) loads the version first.  The other order would lose a cache pushed
in between, which is the mutant `FreezeHeadFirst`.  So `EachOnce` in the run and the theorems about `Retire` are
about that build, not about every compilation of the source.  Other torn copies are
caught by the CAS that follows.  A read of `find` and its CHECK are one step, because a
clear byte now was clear at the read.  The list is a set of objects: a CAS fails
when its object has gone, or for any other reason.  Of the hazard pointers of an
unlink the model has the unlinked object, of an insert its predecessor and the
new object.  The marking CAS of `ListDelete` is not separate.  `Stock` is what `initAllocator` puts in the
caches, every object once.  The code never frees a cache; the model gives a number to a new cache that no stack,
thread or register refers to, as if `malloc` returned only memory that cannot be told from new.  `CachesSuffice` says
that there is one whenever `pfree` asks, so that `NumCaches` restricts nothing.  Left out: `malloc` after
`stop`, the branches of `pReturnAlloc` for no cache or a full one, which the only
caller cannot meet, and store buffers.

## 3. The runs

| Run | Instance | Shows |
|---|---|---|
| `Phase_sc` | 2 threads, 2 collections, 1 page of 2 objects, stores in order; 121,236 states | `TypeOK`; `StampComplete`: the two attempts on a record suffice; `Assertions` (trace.c:109, allocator.c:105, :146); `Covered`: the handshake of hazard pointers and dirty byte; `ReadsValidated`; `HandedOutAfterTrace`; `CycleSpec`: refinement of `Cycle`; `HelperReturns`: helping ends |
| `Phase_tso` | the same with store buffers | `NoStaleObject`: what an insert links belongs to the pool of the collection or is protected; `NullDiscarded`: palloc's NULL is never written through |
| `Mark_helped` | 2 tracers on a list of 2; one collection with a mutator, or two collections, of which one tracer may be late; 771 thousand states | `TypeOK` (with the stack bound), `NothingLost`, `FinishesAlone` |
| `Mark_single` | 1 tracer, 2 mutators, 3 nodes (1 new), 2 collections; 789 thousand states | `OpenOnlyWhenMarked` against inserts, deletes and unlinks |
| `Mark_finish` | 2 tracers, list of 3, violation | `OpenOnlyWhenMarked` fails, see findings |
| `List_set` | 2 threads, 2 entries, 2 keys; `collected` and `manual` with 3 calls and 2 collections, `none` with 4 calls; 1,095,151 states | `Protected`: a clean thread stands on nothing reclaimed, and a thread at its CAS has what it touches kept; `Apart`: an entry is in one place; `Answers`; `SetSpec`: refinement of `KeySet`; all without overlap |
| `List_lost` | the same list, `collected`, collections may overlap a restart; violation | `Protected` fails, see findings |
| `RootArray_exact` | 2 threads, 3 collections, 4 chunks, 2 bits a word | `SignedIsCopied`, `WholeArrayCopied`, `FinishesArray` |
| `RootArray_512` | 8 chunks, 32 bits a word, violation | `WholeArrayCopied` fails, see findings |
| `Pool_two` | 2 threads, 3 entries, 3 versions | `Disjoint`, `PushedOnce`, `PoolSpec` |
| `RefCount_set` | 2 threads, 2 nodes, 2 keys, no bound on operations; 1,276,592 states | `NotReclaimed`, `ReclaimedOnce`, `NothingLeaks`, `Sorted`, `SetSpec` |
| `Retire_two` | 2 threads, 2 objects in caches of 1, 2 phase changes; one thread inserts without bound, the other once, both unlink without bound; 398,422 states | `CachesSuffice`: 5 caches are enough (with 4 it fails); `EachOnce`: no object is lost or found twice when a stack changes hands; `Untouched`: pop's assertion; `MovedWhenEmpty`; `TakesSuccessor`: palloc's unversioned CAS meets no ABA; `RetirementSpec` |

Why the bounds are enough to be interesting.  Two threads are what a race
needs, and each may be owner, helper, late helper or mutator; what holds for any
number of them is proved (section 4).  Two collections let a thread be a
whole phase late and wake up in the next one; three are needed in `RootArray` for a
counter to be taken twice in a wrong phase, and in `Pool` for an entry to be
reused twice.  One page and a cache of one object make pushes, overflow and
exhaustion happen in every collection.  In `Mark` a list of two or three is
enough for a child on another stack than its parent's marker.  In `OptimisticList`
three calls let one thread read an entry that another deletes, unlinks and
allocates again within two collections; without reclamation a fourth call is
affordable.  Two nodes suffice
in `RefCount` for a node to be unlinked, reclaimed, reused and linked again at
the same place.  In `Retire` a collection is triggered by an empty pool and by a
late thread's `pfree`, also within `Recycle`, both threads compete for the
head, and an object is retired again because of a hazard pointer; in a collection within a
collection, the inner `Recycle` finds no cache with so few objects.  At the bound on phases the models stutter (`AtBound`), which
keeps deadlock checking on for everything else; `OptimisticList` ends when its
calls and collections are used up, so deadlock is not checked there.

Fairness.  The algorithms are lock-free: no thread may be assumed to be
scheduled except the one whose progress is claimed.  So the fair specifications
have weak fairness for one thread only (`Collector(0)`, `Tracer(Steady)`), which
says that the operating system runs that thread; everybody else may stop anywhere
for ever.  Progress is claimed for helping (`HelperReturns`), marking
(`FinishesAlone`) and the array (`FinishesArray`), within the bounded number of
collections: with collections for ever a helper can be overtaken for ever.

### Findings

1. **`Mark_finish`** (`trace.c:132`).  A tracer `t2` in `CheckFinish` reads a slot
   of `t1`'s stack, where `t1` then writes the child of the node it is visiting,
   and tests `t1`'s `markstack[0]` after `t1` has marked that node.  It finds
   nothing unmarked, and the second reading, of `markstack[0]` and `localVer`,
   cannot tell.  The sweep opens although the child is unmarked and only on
   `t1`'s stack.  That everything is marked when `trace` returns is the assertion `assert(!"not all were marked")` of
   debugging builds; there it is evaluated between two barriers, after `t1` has finished as well, so it would
   not fire on exactly this interleaving.  Without debugging there is no barrier, and the sweep runs at once.
   With `markstack[0]` tested before the slots TLC finds no violation.
2. **`RootArray_512`** (`trace.c:274`).  The helper's number of words is rounded
   down: for a table of less than 2048 buckets it is 0, so nobody helps with a
   chunk that was claimed and not yet copied.  The driver makes tables of 512.
3. **`List_lost`** (`lfl-RoF.c:25`, the same at `:30`).  `CHECK` and `FENCE_CHECK` clear the dirty byte, call
   `helpCollection` and clear the byte once more.  When the collection ends and the next one
   stamps the thread before that second store, the stamp is erased, and nobody
   sets it again: the record's phase is up to date.  The thread then runs through
   the whole collection as if it had not been told of it.  It reads an entry that
   another thread unlinks before the trace; the entry is swept, and the `CHECK`
   after the next read lets it pass.  No store buffer is needed.  With
   `Overlap = TRUE` and the other properties TLC also finds `Apart` violated (three
   calls), and, with a fourth call, `SetSpec`: the list itself is changed through a reclaimed
   entry.  This does not contradict the theorems about `Phase`: `Covered` and `ReadsValidated`
   speak of a stamp that arrives during a traversal, and here it arrives, and
   goes, before the traversal begins.  With `TSO = 1` in `Phase` a delayed `dirty=0` has
   a similar effect within a traversal, and `ReadsValidated` fails there as well.

## 4. The proofs

### Phase

`PhaseProofs` proves about `Phase`, for every number of threads, pages, objects,
caches and every bound on phases:

| Theorem | Statement | Assumes |
|---|---|---|
| `VersionInvariant` | `Spec => []VersionInv` | |
| `TypeCorrect` | `Spec => []TypeOK` | |
| `StampingCompletes` | `Spec => []StampComplete` | |
| `AssertionsHold` | `Spec => []Assertions` | |
| `HandsOutAfterTrace` | `Spec => []HandedOutAfterTrace` | |
| `ImplementsCycle` | `Spec => CycleSpec` | |
| `FreshInvariant` | `Spec => [](VersionInv /\ FreshInv)` | |
| `NoStaleObjects` | `Spec => []NoStaleObject` | |
| `NullIsDiscarded` | `Spec => []NullDiscarded` | |
| `HandshakeInvariant` | `Spec => []HandshakeInv` | `TSO = 0` |
| `HandshakeCovers` | `Spec => []Covered` | `TSO = 0` |
| `ChecksValidate` | `Spec => ReadsValidated` | `TSO = 0` |

All rest on `PhaseAssumption`, the types of the constants.

**Versions.**  `TypeOK` is not inductive: `localVer + 1` is a version only because
no thread is ahead of the phase.  `VersionOrder` says that the pool's version, the
records and the sweep counter follow the phase, in that order, at a distance of
one; `Progress` says for each place in a collection what is already done when
a thread is there.  The central part is `Attempt`, why the second CAS on a record
cannot fail: the first fails only if the owner cleared the bit or another
collector stamped the record.  A clear bit is not set without a stamp, and once
stamped the record need not be touched.  `Advance` needs that a thread whose
version is the phase has left the stamping loop and opened the sweep, which is
what lets a new collection begin.

**Handshake.**  `HandshakeInv` adds: in a traversal older than the stamp on its
record, the bit is set; hazard pointers stand from "fence" to "cas".  `Covered`
follows, since a collector saves hazard pointers after it has stamped: if it read
them too early, the stamp came earlier still and `FENCE_CHECK` sees it.  This is
where `TSO = 0` is needed.

**Fresh objects.**  `NoStaleObject` and `NullDiscarded` hold with store buffers as well.  The
inductive part is `FreshOf`, for one thread: when it has a cache, the cache belongs to the
pool's phase, or its dirty bit is set and no store in its buffer will clear the bit any more
(the stamp is behind every delayed `dirty=0`, because the locked instructions of
`palloc` have emptied the buffer).  Between `palloc` and the CAS the object is of the
thread's phase and its cache is there, or it is NULL, the bit is set, and the buffer is
empty.  So what is about to be linked is of the pool's phase, unless the bit sends the
thread back.

**Refinement.**  Under the mapping at the end of `Phase` (records become
`notified`, `sweep.ph` becomes `opened`) each step is a step of `Cycle` or a
stutter; the guards of `Cycle` (nothing begins before everybody is notified, nothing
is pushed to a pool that is not open) come from the version invariant.

### OptimisticList

`OptimisticListProofs`, for every number of threads, entries, keys, calls and collections, and
each of the three versions of the list:

| Theorem | Statement |
|---|---|
| `ListInvariant` | `Spec => []ListInv` |
| `TypesOK` | `Spec => []TypeOK` |
| `NobodyReadsReclaimed` | `Spec => []Protected` |
| `EntriesApart` | `Spec => []Apart` |
| `AnswersAreTrue` | `Spec => []Answers` |
| `ListIsSet` | `Spec => SetSpec` |

All assume `OptimisticListAssumption` (types, and the size of the table) and `~ Overlap`.  The second is
needed: with `Overlap` the run `List_lost` refutes `Protected`, which is finding 3.  Stores are in
program order here, and the collector is the one that `Phase`, `Mark` and `Retire` promise.

`ListInv` is the inductive invariant.  Its parts say, besides types and control: a
thread that stands in the list without its dirty byte set has read nothing reclaimed (`Safe`);
an entry that is being inserted is known to its thread alone (`Private`); an entry
that was unlinked and not given back yet is marked and off the list (`Unlinked`); what a collection
has saved includes what a stamped thread may still touch (`Saved`, `Helping`); the
list is in strict order of its keys and ends (`InOrder`); and what a thread has seen explains
its answer (`Seen`).

*The set.*  For `SetSpec` there are two invariants more.  `Asked`: whoever has been called has
an operation and a key, and has seen what is true of it now.  `Chosen`: a delete that
has passed its FENCE_CHECK marks an entry with its key, because it compared the key before that check
and nobody hands the entry out again until the CAS.  `Turns` sorts the steps of a thread into those that end an operation,
those of its own way and those of the collector; only a successful `Link` or `Mark` changes the set (`PresentKept`,
`LinkAdds`, `MarkTakes`), and a search has its answer when it has come to its place (`WayStep`).

*Sharing.*  From the root one reaches the list, and a thread may reach entries that
have been unlinked since: everything reached is either shared (`Shared`) or an unlinked
entry, which points further down.  Since keys increase along every pointer
that is followed, there are no cycles, and an entry of the list has one predecessor (`OnlyOne`,
`KeyOnce`).  So the CAS of an unlink removes exactly one entry, and that of an insert adds its
entry at the place its key belongs (`Position`, `Gap`), which is the step of `KeySet`.

*Steps.*  The actions fall into four kinds with a group of lemmas each: those that write no
entry (`QuietStep`), those that write an entry only their thread knows (`OutsideStep`),
the three CASes (`CasStep`) and the collector (`CollectorFrame`).  The hard one is `Sweep`: every
thread has been stamped, so a thread that started before has its byte set, and
only one at its CAS will still act; its hazard pointers were saved after its stamp, so what it
touches is reached from them and stays.

*The table.*  In the `manual` version the hazard pointers are looked up in the table of
`PointerSet`: each insertion adds at most one to the count (`InsertCounts`), there are at most
three for every thread, so the table is at most half full, and the lookups find exactly what was
inserted.  `TypeOK` contains this bound.

### Mark

`MarkProofs`, for every number of tracers, mutators and objects, every list at the start, every size of
the stack that meets the assumption and every bound on collections:

| Theorem | Statement | Assumes |
|---|---|---|
| `MarkInvariant` | `Spec => []MarkInv` | |
| `TypesOK` | `Spec => []TypeOK` | |
| `NothingIsLost` | `Spec => []NothingLost` | |
| `OnlyOthersWork` | a phase is opened in the phase that was marked, by a tracer with no work left, and what is in use and unmarked then is reached from the work of another tracer | |
| `OpenedWhenMarked` | `Spec => OpenOnlyWhenMarked` | `NumTracers = 1` |

All rest on `MarkAssumption`, the types of the constants, and `StackAssumption`: a mark stack has room for
the root and three hazard pointers of every mutator, and for what `CheckFinish` copies.  The array has
1000 cells (`allocator.h:29`); the driver runs at most 128 threads (`main_test.c:9`), so the
first needs 385, and the second 10 (the bound in `trace.c:132`) and one more for every thread.

*Tricolour.*  `NothingLost` is not inductive: it speaks of everything that can be reached, and a CAS of a
mutator changes that far away.  `Tricolour` says it one pointer at a time: while marking
runs, what the root points to, what a mutator has a hazard pointer for and what a marked object
points to is marked or in the work of a tracer of this collection (`Known`).  A CAS keeps it because
what it installs is held by the mutator, and no hazard pointer is published while marking runs, so what is held was
saved by every tracer (`TracerOf`).  Marking keeps it because the child is on the tracer's stack when
the object is marked, or `next` has changed since the child was read, and then to something that was held.
From `Tricolour` to `NothingLost` it is the closure of `Reach` (`ReachedFromWork`).

*Late tracers.*  `Cleared`: who marks has cleared, so the mark word is of its phase or a later one;
of a later one, its `__mark` fails, and what it has on its stack is nobody's work.  When the first
tracer of a collection enters it, the one before was opened, so there are no marks and no work of the new phase.

*The stack.*  `StackOf` bounds the counter at each place: it is below the end by one while an object
is visited, because its child is written above the counter; in `CheckFinish` it is at most the
bound plus the number of threads read.  That `markstack[0]` is not NULL while its low bit is clear is why a
copied entry is an object.

*Several tracers.*  `OpenOnlyWhenMarked` is false for two tracers (finding 1), and `OnlyOthersWork` says
what is left: everything that is unmarked then is reached from another tracer's work, so a
correct termination test is all that is missing.

### Pool

`PoolProofs`, for every number of threads and entries, every pool at the start and every bound on
versions:

| Theorem | Statement |
|---|---|
| `PoolInvariant` | `Spec => []PoolInv` |
| `TypeCorrect` | `Spec => []TypeOK` |
| `EntriesDisjoint` | `Spec => []Disjoint` |
| `PushedOnlyOnce` | `Spec => PushedOnce` |
| `ImplementsCachePool` | `Spec => PoolSpec` |

All rest on `PoolAssumption`: types, and that the pool of the start holds no entry twice.  `Disjoint` is
not inductive: a CAS of pop installs a successor that was read some time ago, from an
entry that somebody else may have had meanwhile.  What makes it right is said by `Ages` and `Copies`.
An entry of the pool was put there in the version of the head, or was there when
the program began; a thread in a sweep has nothing that was pushed in its own
version, because what it has it popped in an earlier one (`Ages`).  So an entry that was read
as the head in the current version is not pushed again in it, by anyone: if it is still in the
pool it never left, nobody has written its `next`, and the successor that was read is
the one it has (`Copies`).  The torn reads need no case of their own: versions only grow, so a
copy with the current version was read in it, both halves of it.  `Lines` says that the lists
have no cycles, without which an entry could follow itself and a successful CAS change nothing.
`Control` ties a thread's place to its cache and the versions it has seen.
In the proof a step is of one of seven kinds, by what it does to the lists: `StillStep`, `DropStep`,
`WriteStep`, `PopStep`, `SwingStep`, `GetStep`, `PushStep`; what the other threads know survives by
`OthersControl` and `OthersCopies`.

### RefCount

`RefCountProofs`, for every number of threads, nodes and keys and every list at the start:

| Theorem | Statement |
|---|---|
| `RefInvariant` | `Spec => []RefInv` |
| `TypeCorrect` | `Spec => []TypeOK` |
| `FollowedNotReclaimed` | `Spec => []NotReclaimed` |
| `OneReclaims` | `Spec => []ReclaimedOnce` |
| `NoneLost` | `Spec => []NothingLeaks` |
| `ListSorted` | `Spec => []Sorted` |
| `SetRefinement` | `Spec => SetSpec` |

All rest on `RefCountAssumption`: the types of the constants, finitely many threads and nodes, and that the list
of the start holds no node twice.

*What is counted.*  `NotReclaimed` is not inductive, because a count says nothing until one knows who
accounts for it.  `Counted` says it: the count of a node that was handed out is twice `Refs`, plus `Claims`.
`Refs` are the references: links of nodes that are neither free nor being filled in (`Links`), `prev` and
`cur`, `next` once `find` looks at it, the `q` of a `safeRead` between its count and the second look, `newEntry`,
and the calls of `release` still to come, which is where a reference is while links have moved and counts
have not.  `Claims` are the calls of `reclaim` to come, the free lists, and `newRC` before
`clearLowestBit`; there is at most one.  So a `release` that finds 2 has the last reference, and one that
finds 1 does not exist.  The sums are sums of cardinalities: `Times` counts the places of a function that have
a value and `Calls` those in the sequences of calls, and there is a lemma for each way a step changes them.

*What is followed.*  A `safeRead` may count a node that is free by then, since it loads the pointer first.  It
believes what it has only if the second look finds the pointer again, and what a counted link or `find` has
is a `Target`; a target is not claimed (`Live`).  `Order`: counted links lead to greater keys, also those of
nodes that are unlinked and still held, so that nothing comes back to itself and `find` advances.
`OnList`: a target is in the list or marked, so the CAS of an insert or an unlink, whose `prev` is not
marked, changes the list and not a node outside it.  `Searched` is what `find` has established when it
ends, `Private` that a new node is its thread's own.  `NoLoop`: free lists end, so that a node taken from
one is not in it any more.

*Nothing leaks.*  When every thread is idle, `Refs` are links alone.  A node that is neither free nor in
the list would have a link from another such node, with a smaller key (`Order`), which has one in its turn:
the one with the least key is the contradiction.

*Refinement.*  `Link` adds the key of the new node between its neighbours (`ReachSplice`, `LinkAdds`), `Mark` takes that of its
delete away (`MarkTakes`), and `Unlink` bypasses a node that is marked (`ReachSkip`); all other steps leave the list and its
flags alone, or write nodes that are not in it (`MembersKept`).  Two more invariants give the rest of `KeySet`.  `Asked`: a
thread has an operation from its call until its return, and has seen what is true of its key now.  `Seen`: what `find` is
about to answer was true at some moment.  A node that was not marked when its link was read was in the list then (`OnList`); when it
was the last one, or the place between it and its predecessor is where the key would be, the key was
absent (`Gap`); and when the marked last node is unlinked there is nothing behind (`LastMarked`).  Where a thread is,
is its `Place`, which calls of `release` do not change.

### Retire

`RetireProofs`, for every number of threads, objects and caches, every size of a cache, every stock and every
bound on versions and inserts:

| Theorem | Statement |
|---|---|
| `StructureInvariant` | `Spec => []Structure` |
| `TypeCorrect` | `Spec => []TypeOK` |
| `EntryUntouched` | `Spec => []Untouched` |
| `ProcessedBeforeMove` | `Spec => MovedWhenEmpty` |
| `HeadTakesSuccessor` | `Spec => TakesSuccessor` |
| `ObjectsOnce` | `Spec => []EachOnce` |
| `HazardInvariant` | `Spec => []RetireInv` |
| `KeepsThePromise` | `Spec => RetirementSpec` |

All rest on `RetireAssumption`: the types of the constants, an even bound on versions, and that the caches of the start
hold every object once and no more than fits.  `RetireInv` is `Structure`, about the machine, and `Hazards`, about
who may still touch what.

*Versions.*  A phase change writes `reclaim`, `toProcess` and `reclaim` again, and any thread may do any of the
three.  `VersionOrder` has the order of the two words, `Changing` what is done already when a thread is at its place:
a thread that is late has an older version, so its CAS fails.  `Emptied` is the reason why a move loses
nothing: a thread that has come back from `Recycle` in the version of `toProcess` has seen its stack empty, and
nothing is pushed there within a version.  Only such a thread makes `reclaim` odd.

*Stamps.*  Between the two attempts on a record the owner can interfere by clearing its bit, once, and other
collectors by stamping (`Attempt`); whoever has left the loop behind finds every record of its version
(`Stamps`), and no record is stamped for more than `toProcess` has.

*Caches.*  A cache is in one of the three stacks or with one thread (`Exclusive`), and stacks end (`Ends`).  `Remembered` says
how long what was read of a stack stays true.  For `pop` this is a version: a cache that has left
`toProcess` does not return in it.  For `palloc`, whose CAS has no version, it is that the cache was at
`head` when it was read, and from there no cache comes back to `head` in time: a cache reaches `head` from the free_cache
of a thread, through `reclaim` and `toProcess`, and those a thread has left with `palloc` are not
among them (`Coming`).  A free_cache always comes from `malloc`, so a cache once handed out by `head`
does not get on that way while somebody refers to it.

*Objects.*  `OneHome`: every object is in one of the list, the dropped ones, a thread's hands, a call of
`Recycle` and a cache that counts (`Stored`).  A cache in the hands of `Recycle` does not count, because its objects are
those of the call.  Every step moves at most one object between two homes, or a cache with its contents
(`MovedHome`, `UnmovedHome`).  `Lengths` bounds the caches: an insert has left room for its object in its cache, and
nobody else fills that one.  The nested calls of `Recycle` cost most here: a step changes the topmost, or adds or removes one.

*Hazard pointers.*  `Relies(u, o)`: thread *u* may still do its CAS at object *o*, since it is at it or its byte is
clear.  Such an object is in the list or retired, not free and not new.  Before the exchange of
FENCE_CHECK nobody has it in hand, and if it waits in `toProcess` then *u* is yet to be stamped, which will set its byte;
after it, every thread that has saved the hazard pointers of *u* and will process *o* has *o*
among those saved (`SavedBy`, `Due`).  The step between the two is the exchange: a collector whose stamp came
before is excluded by the byte that was found clear, one whose stamp comes later will see the hazard pointers.

*Refinement.*  Taking an object from a cache is `Allocate`, `Finish` and `Restart` give it back, the exchange that finds
the byte clear is `Use`, the CAS ends it, and `Scan` is `Free` when it finds no hazard pointer to the object.

### Reachability

`ReachabilityProofs` has the facts about `Reach` that the five proofs above share, for every
function `f`, finite or not.  `ReachClosed` and `ReachLeast` say that `Reach(f, S)` is the least set that
contains `S` and is closed under `f`; `ReachMonotone`, `ReachIdempotent`, `ReachNothing` and `ReachUnfold`
follow.  `ReachLine`: of two entries of a list one leads to the other.  `ReachSorted`: when keys
increase along the list, they increase from its first entry to any other.  The writes: `ReachOutside`
(to what is not reached: no change), `ReachSplice` (an entry is inserted), `ReachSkip` (an entry is
bypassed).  `LeastExists`, that a set of numbers has a least one, comes from well-founded induction over the
numbers and is used by the proofs about `RefCount`, `Retire`, `RootArray` and `PointerSet`.

### RootArray

`RootArrayProofs`, for every number of threads, chunks, bits in a word and collections:

| Theorem | Statement | Assumes |
|---|---|---|
| `TypeCorrect` | `Spec => []TypeOK` | |
| `SignedCopied` | `Spec => []SignedIsCopied` | |
| `ArrayCopied` | `Spec => WholeArrayCopied` | `Exact` |

All rest on `RootArrayAssumption`.  `Exact` says that the number of chunks is a multiple
of the bits in a word: what the helper's rounding needs, and what finding 2 refutes
without it.  `Inv` is the inductive core: the types, where a thread's index can be,
`SignedIsCopied`, and `ClearedInv`, that behind `clearArrMarks` a thread meets no word older than
its own phase.  `HelpedInv` says that what the helper has gone over is signed, as long as
the word is of its phase; when it is of a later one the thread has been overtaken,
and then it does not open.  So when a thread opens a phase every word is of that
phase and signed, and what is signed was copied in it.  `CounterInv` bounds the counter
by counting the threads between the first look and the fetch-and-add.  `ChunkInItsWord` and
`ExactIsHelped` are the arithmetic.

### PointerSet

The first part of `OptimisticListProofs`, for every size of the table and width of an int:

| Theorem | Statement |
|---|---|
| `CleanIsEmpty` | the cleared table has no element, no gap and room |
| `InsertAdds` | `HashInsert(table, d)` adds `d`, keeps every other element and leaves no gap |
| `RetrieveIsMember` | in a table without gaps and with room, `HashRetrieve` finds exactly its elements |
| `HalfFullHasRoom` | a table that is not full has an empty cell, so every search ends |
| `InsertCounts` | `HashInsert` fills at most one cell more |
| `CleanCounts` | the cleared table has no full cell |

The tries of one wrap-around cover all cells (`TriesCoverSlots`), so there is a try
that stops, and a first one (`LeastExists`).  The invariant of the table, `NoGap`, is that every element is found from its own
home cell; an insertion fills the cell at which its own search stops, and takes no
cell from the search of another element.

### What is only model-checked

* Every liveness property (`HelperReturns`, `FinishesAlone`, `FinishesArray`): TLAPS has no proofs about fairness
  and `ENABLED`.
* `CachesSuffice`: how many caches a program needs depends on the bounds of the run.  The proofs do not use it.
* What the runs that expect a violation refute is not proved because it is false: that a tracer among several opens
  only what is marked, that a table of any length is copied, and `Protected` with overlapping collections.

All other properties of the passing runs are stated by a theorem: the safety properties of all modules, and
the five refinements that the runs check.

## 5. Not modelled

* Store buffers in the lists: the plain `dirty=0` of `lfl-MOA.c:20` is in program order.
* `allocatorNR.c`: a pool that is only popped from, the part of `Pool` without sweeping.
* The barrier of `worker.c`: it is called in debugging builds only.  Its assertion reads
  `stop` and the quotient of arrivals again after the loop, and fails when `stop` was set
  in between by the driver, with nothing wrong in the collector.
* The choice of a bucket in `lfhash.c`.
* Weak memory other than the delayed `dirty=0` stores.  The stores of marking
  are ordered by TSO (comment at `trace.c:178`) and its marks are locked CASes.
* Objects with several pointers, several array roots, `ZERO_ALLOC`, `DISABLE_GC`.
* Driver, scripts, types, inline assembly, random numbers, and the part of
  `simpleSet.c` under `#if 0`.

Hazards without a property are listed in `PROJECT.json` with the reason.

## 6. Plan

1. Done: `Phase` with `Cycle`, `OptimisticList` with `KeySet` and `PointerSet`, `Mark`, `RootArray`, `Pool`
   with `CachePool`, `RefCount` with `KeySet`, `Retire` with `Retirement`, each with its proofs.
2. `OptimisticList` with store buffers for the `dirty=0` of CHECK (`lfl-MOA.c:20`), as in `Phase`;
   the instance has to become smaller elsewhere.
3. `PopEntry` and `FreeEntry` of the pool without reclamation, as a further specification of `Pool`.
4. Proofs: `NumCaches` caches suffice when it is large enough for the objects, threads and nested calls, as an invariant of `Retire`.
