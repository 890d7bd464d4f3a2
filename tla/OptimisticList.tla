--------------------------- MODULE OptimisticList ---------------------------
(***************************************************************************)
(* The list without counts, in its three versions: with the optimistic     *)
(* collector (lfl-RoF.c, "collected"), with manual retirement (lfl-MOA.c,  *)
(* "manual") and without reclamation (lfl-NoOrDelayRecl.c, "none").        *)
(*                                                                         *)
(* Threads read objects that may have been reclaimed, and look at their    *)
(* dirty byte before they use what they read; before a CAS they publish    *)
(* hazard pointers and look again with an exchange.  A dirty thread starts *)
(* its search again.                                                       *)
(*                                                                         *)
(* The collector is what modules Phase, Mark and Retire promise: it stamps *)
(* every thread, then reads every thread's hazard pointers, then reclaims  *)
(* at once.  A read of shared memory and the CHECK behind it are one step: *)
(* if the thread is not dirty at the CHECK it was not at the read, and if  *)
(* it is, what was read is dropped.                                        *)
(***************************************************************************)
EXTENDS Integers, Sequences, FiniteSets, PointerSet, Reachability

CONSTANTS Threads,
          Nodes,    \* the entries of the heap
          Address,  \* their addresses
          Keys,     \* the keys used
          Root,     \* entryHead
          Null,     \* NULL
          Bounds,   \* the versions of the list, each with the calls and the
                    \* collections that a behaviour has at most and with the
                    \* list at the start: nodes with keys 1, 2, ...
          Overlap   \* a phase may begin while a thread still has to clear the
                    \* dirty byte it was given in the phase before

ASSUME OptimisticListAssumption ==
    /\ Root \notin Nodes /\ Null \notin Nodes \cup {Root}
    /\ Address \in [Nodes -> Nat] /\ \A n \in Nodes : Truncated(Address[n]) # 0
    /\ Keys \subseteq Nat
    /\ IsFiniteSet(Threads) /\ SetSize = 6 * Cardinality(Threads)
    /\ \A b \in Bounds : /\ b.mode \in {"collected", "manual", "none"}
                         /\ {b.calls, b.phases} \subseteq Nat
                         /\ b.list \in Seq(Nodes)
                         /\ \A i, j \in DOMAIN b.list : b.list[i] = b.list[j] => i = j
                         /\ DOMAIN b.list \subseteq Keys
    /\ Overlap \in BOOLEAN

Cells == Nodes \cup {Root}
Pointers == Nodes \cup {Null}

VARIABLES
    mode,     \* the version of the list
    calls, phases, \* bounds: the calls and the collections still to begin
    to, del,  \* nextEntry: the pointer and DELETED_FLAG
    key,      \* keyData
    free,     \* the entries palloc can hand out
    retired,  \* the entries given to pfree
    toProcess,\* those of them that the collection under way looks at
    gc, left, \* what the collection is doing, and the threads it has still to visit
    HPlocal,  \* the hazard pointers it has read,
    hps,      \* and the table that manual retirement puts them in
    dirty,    \* the dirty byte of every thread
    op, arg,  \* what a thread is doing, with which key
    prev, cur, nxt, nd, \* fres.prev, fres.cur, fres.next and its flag
    new,      \* newEntry
    pc,
    saw       \* whether arg was in the set, since the operation began (history)

heap == <<to, del, key, free, retired>>
collector == <<toProcess, gc, left, HPlocal, hps>>
find == <<prev, cur, nxt, nd>>
vars == <<mode, calls, phases, heap, collector, dirty, op, arg, find, new, pc, saw>>

Goto(t, l) == pc' = [pc EXCEPT ![t] = l]

\* The list at the start.
Initially(list) ==
    LET linked == {list[i] : i \in DOMAIN list}
        at(n) == CHOOSE i \in DOMAIN list : list[i] = n
        follows(i) == IF i < Len(list) THEN list[i + 1] ELSE Null
    IN  /\ to = [n \in Cells |-> IF n = Root THEN follows(0)
                                 ELSE IF n \in linked THEN follows(at(n)) ELSE Null]
        /\ key = [n \in Nodes |-> IF n \in linked THEN at(n) ELSE 0]
        /\ free = Nodes \ linked

Init ==
    /\ \E b \in Bounds : /\ mode = b.mode /\ calls = b.calls /\ phases = b.phases
                         /\ Initially(b.list)
    /\ del = [n \in Cells |-> FALSE]
    /\ retired = {} /\ toProcess = {}
    /\ gc = "idle" /\ left = {} /\ HPlocal = {} /\ hps = Clean
    /\ dirty = [t \in Threads |-> FALSE]
    /\ op = [t \in Threads |-> "none"] /\ arg = [t \in Threads |-> 0]
    /\ prev = [t \in Threads |-> Root] /\ cur = [t \in Threads |-> Null]
    /\ nxt = [t \in Threads |-> Null] /\ nd = [t \in Threads |-> FALSE]
    /\ new = [t \in Threads |-> Null]
    /\ pc = [t \in Threads |-> "idle"]
    /\ saw = [t \in Threads |-> {}]

\* The cells from those of S on.
From(S) == Reach(to, S)

InList == From({Root}) \ {Root}
Present == {key[n] : n \in {m \in InList : ~ del[m]}}

\* History: what every operation under way could have found.
Witness ==
    LET present == Present'
    IN  saw' = [t \in Threads |-> IF pc'[t] = "idle" THEN {} ELSE saw[t] \cup {arg'[t] \in present}]

-----------------------------------------------------------------------------
(* The collector.                                                          *)

\* The hazard pointers of a thread, in the order they are read: stored before
\* its exchange, cleared after its CAS.  A pointer to the head is stored as NULL.
Published(t) ==
    IF pc[t] \notin {"fence", "cas"} THEN <<Null, Null, Null>>
    ELSE IF nd[t] THEN <<prev[t], cur[t], nxt[t]>>
    ELSE IF op[t] = "insert" THEN <<prev[t], cur[t], new[t]>>
    ELSE <<cur[t], nxt[t], Null>>

HPs(t) == {Published(t)[i] : i \in 1 .. 3} \cap Nodes

\* A phase begins.  What is still in the free_cache of a thread waits.
Begin ==
    /\ mode # "none" /\ gc = "idle" /\ phases > 0
    /\ phases' = phases - 1
    /\ mode = "manual" \/ Overlap \/ \A t \in Threads : pc[t] # "restart"
    /\ gc' = "stamp" /\ left' = Threads
    /\ \E s \in SUBSET retired : toProcess' = s /\ retired' = retired \ s
    /\ UNCHANGED <<to, del, key, free, HPlocal, hps, dirty, op, arg, find, new, pc>>

\* The dirty bit of thread t; after the last one the hazard pointers are read.
Stamp(t) ==
    /\ gc = "stamp" /\ t \in left
    /\ dirty' = [dirty EXCEPT ![t] = TRUE]
    /\ IF left = {t} THEN gc' = "save" /\ left' = Threads
                     ELSE left' = left \ {t} /\ UNCHANGED gc
    /\ UNCHANGED <<heap, toProcess, HPlocal, hps, op, arg, find, new, pc>>

\* setAddP, for a hazard pointer that is not NULL.
SetAddP(table, n) ==
    IF n \in Nodes THEN HashInsert(table, Truncated(Address[n])) ELSE table

Inserted(table, t) ==
    SetAddP(SetAddP(SetAddP(table, Published(t)[1]), Published(t)[2]), Published(t)[3])

Save(t) ==
    /\ gc = "save" /\ t \in left
    /\ left' = left \ {t}
    /\ HPlocal' = HPlocal \cup HPs(t)
    /\ hps' = IF mode = "manual" THEN Inserted(hps, t) ELSE hps
    /\ UNCHANGED <<heap, toProcess, gc, dirty, op, arg, find, new, pc>>

\* Recycle: an entry under a hazard pointer is retired again.
Protects(n) == HashRetrieve(hps, Truncated(Address[n]))

\* The end of a collection; threads that helped with it go on.
Sweep ==
    /\ gc = "save" /\ left = {}
    /\ IF mode = "manual"
       THEN /\ free' = free \cup {n \in toProcess : ~ Protects(n)}
            /\ retired' = retired \cup {n \in toProcess : Protects(n)}
       ELSE /\ free' = Nodes \ From({Root} \cup HPlocal)
            /\ UNCHANGED retired
    /\ toProcess' = {} /\ gc' = "idle"
    /\ HPlocal' = {} /\ hps' = Clean
    /\ pc' = [t \in Threads |-> IF pc[t] = "help" THEN "restart" ELSE pc[t]]
    /\ UNCHANGED <<to, del, key, left, dirty, op, arg, find, new>>

-----------------------------------------------------------------------------
(* find.                                                                   *)

\* What the thread reads in its dirty byte.
Dirty(t) == mode # "none" /\ dirty[t]

\* fres and newEntry are not used any more.
Drop(t) ==
    /\ prev' = [prev EXCEPT ![t] = Root] /\ cur' = [cur EXCEPT ![t] = Null]
    /\ nxt' = [nxt EXCEPT ![t] = Null] /\ nd' = [nd EXCEPT ![t] = FALSE]
    /\ new' = [new EXCEPT ![t] = Null]

Again(t, l) == Drop(t) /\ Goto(t, l) /\ UNCHANGED <<op, arg>>

\* The operation is over.
Return(t) ==
    /\ Drop(t) /\ Goto(t, "idle")
    /\ op' = [op EXCEPT ![t] = "none"] /\ arg' = [arg EXCEPT ![t] = 0]

\* The dirty byte was set: helpCollection, in the version that collects.
GiveUp(t) == Again(t, IF mode = "collected" /\ gc # "idle" THEN "help" ELSE "restart")

\* dirty=0; goto.  The byte is not looked at again.
Restart(t) ==
    /\ pc[t] = "restart"
    /\ dirty' = [dirty EXCEPT ![t] = FALSE]
    /\ Goto(t, "start")
    /\ UNCHANGED <<heap, collector, op, arg, find, new>>

\* Mutant of Arrive: find's loop has no end.
ArrivePastEnd(t, n) == cur' = [cur EXCEPT ![t] = n] /\ Goto(t, "next")

\* fres.cur = n; while (fres.cur != NULL).
Arrive(t, n) ==
    /\ cur' = [cur EXCEPT ![t] = n]
    /\ Goto(t, IF n = Null THEN "absent" ELSE "next")

\* The head is read.
ReadHead(t) ==
    /\ pc[t] = "start"
    /\ Arrive(t, to[Root])
    /\ UNCHANGED <<heap, collector, dirty, op, arg, prev, nxt, nd, new>>

\* nxt = cur->nextEntry; CHECK.
ReadNext(t) ==
    /\ pc[t] = "next"
    /\ IF Dirty(t) THEN GiveUp(t)
       ELSE /\ nxt' = [nxt EXCEPT ![t] = to[cur[t]]]
            /\ nd' = [nd EXCEPT ![t] = del[cur[t]]]
            /\ Goto(t, IF del[cur[t]] THEN "fence" ELSE "judge")
            /\ UNCHANGED <<prev, cur, new>>
    /\ UNCHANGED <<heap, collector, dirty, op, arg>>

\* The CAS on *prev expects an unmarked pointer to cur.
PrevIntact(t) == to[prev[t]] = cur[t] /\ ~ del[prev[t]]

\* The result of find.
Result(t, found) == IF found /\ op[t] = "delete" THEN "fence" ELSE IF found THEN "found" ELSE "absent"

\* Mutant of Judge: the keys are compared before the CHECK.
JudgeFirst(t) ==
    /\ pc[t] = "judge"
    /\ IF key[cur[t]] >= arg[t]
       THEN Goto(t, Result(t, key[cur[t]] = arg[t])) /\ UNCHANGED <<op, arg, find, new>>
       ELSE IF Dirty(t) THEN GiveUp(t)
       ELSE IF ~ PrevIntact(t) THEN Again(t, "start")
       ELSE /\ prev' = [prev EXCEPT ![t] = cur[t]]
            /\ Arrive(t, nxt[t])
            /\ nxt' = [nxt EXCEPT ![t] = Null]
            /\ UNCHANGED <<op, arg, nd, new>>
    /\ UNCHANGED <<heap, collector, dirty>>

\* cur->keyData and *prev; CHECK; then the comparisons.
Judge(t) ==
    /\ pc[t] = "judge"
    /\ IF Dirty(t) THEN GiveUp(t)
       ELSE IF ~ PrevIntact(t) THEN Again(t, "start")
       ELSE IF key[cur[t]] >= arg[t]
       THEN Goto(t, Result(t, key[cur[t]] = arg[t])) /\ UNCHANGED <<find, new>>
       ELSE /\ prev' = [prev EXCEPT ![t] = cur[t]]
            /\ Arrive(t, nxt[t])
            /\ nxt' = [nxt EXCEPT ![t] = Null]
            /\ UNCHANGED <<nd, new>>
    /\ UNCHANGED <<heap, collector, dirty, op, arg>>

\* An insert writes its key and its pointer; otherwise nothing is written.
FillIn(t) ==
    IF op[t] = "insert" /\ ~ nd[t]
    THEN /\ key' = [key EXCEPT ![new[t]] = arg[t]]
         /\ to' = [to EXCEPT ![new[t]] = cur[t]]
         /\ del' = [del EXCEPT ![new[t]] = FALSE]
    ELSE UNCHANGED <<to, del, key>>

\* Mutant of Fence: an insert fills in its entry before the exchange.
FenceFillsFirst(t) ==
    /\ pc[t] = "fence"
    /\ dirty' = [dirty EXCEPT ![t] = FALSE]
    /\ FillIn(t)
    /\ IF Dirty(t) THEN GiveUp(t) ELSE Goto(t, "cas") /\ UNCHANGED <<op, arg, find, new>>
    /\ UNCHANGED <<free, retired, collector>>

\* FENCE_CHECK: the exchange, and the writes behind it: before the exchange the
\* entry may have been reclaimed.
Fence(t) ==
    /\ pc[t] = "fence"
    /\ dirty' = [dirty EXCEPT ![t] = FALSE]
    /\ IF Dirty(t) THEN GiveUp(t) /\ UNCHANGED <<to, del, key>>
       ELSE FillIn(t) /\ Goto(t, "cas") /\ UNCHANGED <<op, arg, find, new>>
    /\ UNCHANGED <<free, retired, collector>>

\* cur is marked: unlink it, and give it to pfree.
Unlink(t) ==
    /\ pc[t] = "cas" /\ nd[t]
    /\ IF PrevIntact(t)
       THEN /\ to' = [to EXCEPT ![prev[t]] = nxt[t]]
            /\ retired' = IF mode = "manual" THEN retired \cup {cur[t]} ELSE retired
            /\ Arrive(t, nxt[t])
            /\ nxt' = [nxt EXCEPT ![t] = Null] /\ nd' = [nd EXCEPT ![t] = FALSE]
            /\ UNCHANGED <<prev, new>>
       ELSE Again(t, "start") /\ UNCHANGED <<to, retired>>
    /\ UNCHANGED <<del, key, free, collector, dirty, op, arg>>

-----------------------------------------------------------------------------
(* The operations.                                                         *)

\* A call, up to its first read.
Start(t) ==
    /\ pc[t] = "idle" /\ calls > 0 /\ calls' = calls - 1
    /\ \E o \in {"insert", "delete", "search"} : op' = [op EXCEPT ![t] = o]
    /\ \E k \in Keys : arg' = [arg EXCEPT ![t] = k]
    /\ Arrive(t, to[Root])
    /\ UNCHANGED <<heap, collector, dirty, prev, nxt, nd, new>>

\* A search is over, an insert of a present key or a delete of an absent one.
NothingToDo(t) ==
    /\ \/ pc[t] = "found"
       \/ pc[t] = "absent" /\ op[t] # "insert"
    /\ Return(t)
    /\ UNCHANGED <<heap, collector, dirty>>

\* A phase takes the pool away, and who helps with it loses its alloc_cache.
HasCache(t) == gc = "idle" \/ Dirty(t) \/ (gc = "stamp" /\ t \in left)

\* palloc; only the manual version clears the entry.
Palloc(t) ==
    /\ pc[t] = "absent" /\ op[t] = "insert"
    /\ mode = "collected" => HasCache(t)
    /\ \E n \in free :
        /\ new' = [new EXCEPT ![t] = n]
        /\ free' = free \ {n}
        /\ IF mode = "manual"
           THEN /\ key' = [key EXCEPT ![n] = 0]
                /\ to' = [to EXCEPT ![n] = Null]
                /\ del' = [del EXCEPT ![n] = FALSE]
           ELSE UNCHANGED <<key, to, del>>
    /\ Goto(t, "fence")
    /\ UNCHANGED <<retired, collector, dirty, op, arg, find>>

\* CAS(fres.prev, fres.cur, newEntry); pReturnAlloc if it fails.
Link(t) ==
    /\ pc[t] = "cas" /\ ~ nd[t] /\ op[t] = "insert"
    /\ IF PrevIntact(t)
       THEN /\ to' = [to EXCEPT ![prev[t]] = new[t]]
            /\ Return(t)
            /\ UNCHANGED free
       ELSE /\ free' = IF mode = "manual" THEN free \cup {new[t]} ELSE free
            /\ Again(t, "start")
            /\ UNCHANGED to
    /\ UNCHANGED <<del, key, retired, collector, dirty>>

\* Mutant of Mark: the entry is given to pfree when it is marked.
MarkRetires(t) ==
    /\ pc[t] = "cas" /\ ~ nd[t] /\ op[t] = "delete"
    /\ IF to[cur[t]] = nxt[t] /\ ~ del[cur[t]]
       THEN /\ del' = [del EXCEPT ![cur[t]] = TRUE] /\ Return(t)
            /\ retired' = retired \cup {cur[t]}
       ELSE Again(t, "start") /\ UNCHANGED <<del, retired>>
    /\ UNCHANGED <<to, key, free, collector, dirty>>

\* CAS(&cur->nextEntry, next, markDeleted(next)).
Mark(t) ==
    /\ pc[t] = "cas" /\ ~ nd[t] /\ op[t] = "delete"
    /\ IF to[cur[t]] = nxt[t] /\ ~ del[cur[t]]
       THEN del' = [del EXCEPT ![cur[t]] = TRUE] /\ Return(t)
       ELSE Again(t, "start") /\ UNCHANGED del
    /\ UNCHANGED <<to, key, free, retired, collector, dirty>>

Thread(t) ==
    \/ Stamp(t) \/ Save(t) \/ Restart(t) \/ ReadHead(t) \/ ReadNext(t) \/ Judge(t)
    \/ Fence(t) \/ Unlink(t) \/ NothingToDo(t) \/ Palloc(t) \/ Link(t) \/ Mark(t)

Next ==
    /\ \/ Begin /\ UNCHANGED calls
       \/ \E t \in Threads : Start(t) /\ UNCHANGED phases
       \/ Sweep /\ UNCHANGED <<calls, phases>>
       \/ \E t \in Threads : Thread(t) /\ UNCHANGED <<calls, phases>>
    /\ Witness
    /\ UNCHANGED mode

Spec == Init /\ [][Next]_vars

-----------------------------------------------------------------------------
TypeOK ==
    /\ to \in [Cells -> Pointers] /\ del \in [Cells -> BOOLEAN]
    /\ key \in [Nodes -> Keys \cup {0}]
    /\ {free, retired, toProcess, HPlocal} \subseteq SUBSET Nodes
    /\ gc \in {"idle", "stamp", "save"} /\ left \subseteq Threads
    /\ hps \in Tables /\ NumElements(hps) <= SetSize \div 2
    /\ prev \in [Threads -> Cells]
    /\ \A t \in Threads : /\ {cur[t], nxt[t], new[t]} \subseteq Pointers
                         /\ pc[t] \in {"next", "judge"} => cur[t] # Null

\* What a thread has come to in the list, or has for itself.
Uses(t) == {prev[t], cur[t], nxt[t], new[t]} \cap Nodes

\* A thread that is not dirty, whatever it has read, has come to nothing that
\* has been reclaimed; past its exchange its hazard pointers keep what the CAS
\* touches, dirty or not.
Protected ==
    \A t \in Threads :
        /\ ~ dirty[t] => Uses(t) \cap free = {}
        /\ pc[t] = "cas" => HPs(t) \cap free = {}

\* An entry is in one place: in the list, given to pfree, under examination
\* or free.  None is given to pfree twice.
Apart ==
    /\ \A s \in {retired, toProcess} : s \cap InList = {} /\ s \cap free = {}
    /\ InList \cap free = {} /\ retired \cap toProcess = {}

\* find says of a key what was true at some moment of the operation.
Answers ==
    \A t \in Threads : /\ pc[t] = "found" => TRUE \in saw[t]
                       /\ pc[t] = "absent" => FALSE \in saw[t]

\* What a thread has still to do; the answer of a search is final.
Doing ==
    [t \in Threads |->
        IF pc[t] = "idle" THEN <<"none", 0>>
        ELSE IF op[t] = "search" /\ pc[t] \in {"found", "absent"} THEN <<pc[t], arg[t]>>
        ELSE <<op[t], arg[t]>>]

\* The entries that are in the list and not marked form a set of keys.  Link and
\* Mark put an insert and a delete into effect, for their key, and what returns
\* otherwise says what was true since it was called.
L == INSTANCE KeySet WITH keys <- Present, doing <- Doing
SetSpec == L!Spec

-----------------------------------------------------------------------------
(* The inductive invariant behind the properties; proved in                *)
(* OptimisticListProofs.                                                   *)

Labels == {"idle", "start", "next", "judge", "fence", "cas", "found", "absent", "help", "restart"}
Calls == {"none", "insert", "delete", "search"}

\* t is linking the entry it has allocated.
Inserts(t) == pc[t] \in {"fence", "cas"} /\ ~ nd[t] /\ op[t] = "insert"

\* What the places of a thread say of its variables.
Control(t) ==
    /\ pc[t] \in {"idle", "start", "help", "restart"} =>
        prev[t] = Root /\ cur[t] = Null /\ nxt[t] = Null
    /\ pc[t] \in {"next", "judge", "found"} => cur[t] # Null
    /\ nd[t] => pc[t] \in {"fence", "cas"} /\ cur[t] # Null
    /\ pc[t] \in {"fence", "cas"} /\ ~ nd[t] =>
        op[t] = "insert" \/ (op[t] = "delete" /\ cur[t] # Null)
    /\ Inserts(t) <=> new[t] # Null

HeapTypes ==
    /\ to \in [Cells -> Pointers] /\ del \in [Cells -> BOOLEAN]
    /\ key \in [Nodes -> Keys \cup {0}]
    /\ {free, retired, toProcess, HPlocal} \subseteq SUBSET Nodes
    /\ mode \in {"collected", "manual", "none"}
    /\ gc \in {"idle", "stamp", "save"} /\ left \subseteq Threads

LocalTypes ==
    /\ dirty \in [Threads -> BOOLEAN] /\ nd \in [Threads -> BOOLEAN]
    /\ prev \in [Threads -> Cells] /\ cur \in [Threads -> Pointers]
    /\ nxt \in [Threads -> Pointers] /\ new \in [Threads -> Pointers]
    /\ pc \in [Threads -> Labels] /\ op \in [Threads -> Calls]
    /\ arg \in [Threads -> Keys \cup {0}] /\ saw \in [Threads -> SUBSET BOOLEAN]

Types == HeapTypes /\ LocalTypes /\ \A t \in Threads : Control(t)

\* The collection under way has stamped t.
Stamped(t) == gc = "save" \/ (gc = "stamp" /\ t \notin left)

\* What a thread that is not dirty stands on; and what a thread may still use:
\* a dirty one only what its CAS touches.
Reads(t) == {prev[t], cur[t], nxt[t]}
Undirty == {t \in Threads : ~ dirty[t]}
Holds(t) == IF t \in Undirty THEN Reads(t) \ {Null}
            ELSE IF pc[t] # "cas" THEN {}
            ELSE IF nd[t] THEN Reads(t) \ {Null}
            ELSE IF op[t] = "insert" THEN {prev[t], cur[t]} \ {Null}
            ELSE {cur[t], nxt[t]} \ {Null}
Owns(t) == new[t] # Null /\ (t \in Undirty \/ pc[t] = "cas")

\* Where the threads that are not dirty can get to, and where those can that
\* the collection has stamped already.
Shared == From({Root} \cup UNION {Reads(t) : t \in Undirty})
Young == From({Root} \cup UNION {Reads(t) : t \in {u \in Undirty : Stamped(u)}})
Line == From({Root})

\* Nobody comes to an entry that can be handed out again; only entries that
\* are marked leave the list.
Safe ==
    /\ Shared \cap free = {}
    /\ \A t \in Threads : Holds(t) \cap free = {}
    /\ ~ del[Root]
    /\ \A x \in Shared \ Line : del[x]
    /\ \A t \in Threads : \A x \in Holds(t) \ Line : del[x]

\* An entry that is being inserted is its inserter's alone.
Private ==
    \A t \in Threads : Owns(t) =>
        /\ new[t] \notin free \cup retired \cup toProcess \cup Shared
        /\ \A u \in Threads : new[t] \notin Holds(u)
        /\ \A u \in Threads \ {t} : Owns(u) => new[u] # new[t]

\* What has been given to pfree was marked and unlinked before.
Unlinked ==
    /\ \A x \in retired \cup toProcess : del[x] /\ x \notin Line /\ x \notin free
    /\ retired \cap toProcess = {}
    /\ mode # "manual" => retired = {} /\ toProcess = {}
    /\ gc # "idle" => Young \cap toProcess = {}
    /\ gc = "idle" => toProcess = {}

\* The hazard pointers of a thread that may still CAS have been read.
SavedOf(t) ==
    gc = "save" /\ t \notin left /\ pc[t] = "cas" /\ dirty[t] => HPs(t) \subseteq HPlocal

\* The collector's hazard pointers, and their table.
Saved ==
    /\ \A t \in Threads : SavedOf(t)
    /\ gc # "save" => HPlocal = {} /\ hps = Clean
    /\ mode = "manual" => \A n \in HPlocal : Truncated(Address[n]) \in Elements(hps)
    /\ hps \in Tables /\ NoGap(hps) /\ NumElements(hps) <= 3 * Cardinality(Threads \ left)

\* In the version that collects, a thread that has been stamped stays dirty or
\* helps until the collection is over.
HelpsOf(t) ==
    /\ mode = "collected" /\ Stamped(t) => dirty[t] \/ pc[t] = "help"
    /\ pc[t] = "help" => gc # "idle" /\ mode = "collected"
    /\ pc[t] = "restart" /\ mode = "collected" => gc = "idle"

Helping ==
    /\ mode = "none" => gc = "idle" /\ Undirty = Threads
    /\ \A t \in Threads : HelpsOf(t)

\* The list is sorted, and so is the place a thread has found in it.
Sorted == \A x \in Line \ {Root} : to[x] # Null => key[x] < key[to[x]]

Sure(t) == t \in Undirty \/ (pc[t] = "cas" /\ (nd[t] \/ op[t] = "insert"))

PlaceOf(t) ==
    /\ Sure(t) /\ prev[t] # Root => key[prev[t]] < arg[t]
    /\ Sure(t) /\ (pc[t] = "absent" \/ Inserts(t)) /\ cur[t] # Null => arg[t] < key[cur[t]]
    /\ Sure(t) /\ nd[t] => del[cur[t]] /\ to[cur[t]] = nxt[t]
    /\ Inserts(t) /\ pc[t] = "cas" =>
        to[new[t]] = cur[t] /\ ~ del[new[t]] /\ key[new[t]] = arg[t]

InOrder == Sorted /\ \A t \in Threads : PlaceOf(t)

\* What a thread has seen of its key.
SeenOf(t) ==
    /\ pc[t] = "found" => TRUE \in saw[t]
    /\ pc[t] = "absent" => FALSE \in saw[t]
    /\ t \in Undirty /\ pc[t] = "judge" =>
        /\ key[cur[t]] = arg[t] => TRUE \in saw[t]
        /\ key[cur[t]] < arg[t] /\ nxt[t] = Null => FALSE \in saw[t]

Seen == \A t \in Threads : SeenOf(t)

ListInv == Types /\ Safe /\ Private /\ Unlinked /\ Saved /\ Helping /\ InOrder /\ Seen
=============================================================================
