------------------------------ MODULE RefCount ------------------------------
(***************************************************************************)
(* The list with reference counts (lfl-RC.c, refcount.c).  The count of a  *)
(* node is in units of two; its low bit is set by the thread that takes    *)
(* the count to zero and reclaims the node, and cleared when that thread   *)
(* allocates it again.  safeRead counts a node it may have lost already    *)
(* and looks again; counts of links move a little later than the links.    *)
(*                                                                         *)
(* Reading, counting and comparing are separate steps; what a thread does  *)
(* to its own variables goes with the step before or after.                *)
(***************************************************************************)
EXTENDS Integers, Sequences, FiniteSets, Functions, Reachability

CONSTANTS Threads,
          Nodes,   \* the entries of the heap
          Keys,    \* the keys used
          Root,    \* entryHead
          Null,    \* NULL
          FirstList\* the list at the start, a sequence of nodes with keys 1, 2, ...

ASSUME RefCountAssumption ==
    /\ IsFiniteSet(Threads) /\ IsFiniteSet(Nodes)
    /\ Root \notin Nodes /\ Null \notin Nodes \cup {Root}
    /\ Keys \subseteq Nat
    /\ FirstList \in Seq(Nodes) /\ 1 .. Len(FirstList) \subseteq Keys
    /\ IsInjective(FirstList)

Cells == Nodes \cup {Root}
Pointers == Nodes \cup {Null}

VARIABLES
    to, del,  \* nextEntry: the pointer and DELETED_FLAG
    count,    \* refcount
    key,      \* keyData
    fresh,    \* nodes palloc has not handed out
    freeList, \* the free list of a thread, linked through nextEntry
    op, arg,  \* what a thread is doing, with which key
    prev, cur,\* fres.prev and fres.cur
    nxt, nd,  \* fres.next and its flag
    dst,      \* the variable safeRead reads into
    q, qd,    \* safeRead's q and its flag
    new,      \* newEntry
    todo,     \* the calls of release and reclaim still to come, with their nodes,
    then,     \* and where to go after them
    pc,
    saw       \* whether arg was in the set, since the operation began (history)

heap == <<to, del, count, key, fresh, freeList>>
reg == <<prev, cur, nxt, nd, dst, q, qd, new>>
vars == <<heap, op, arg, reg, todo, then, pc, saw>>

Goto(t, l) == pc' = [pc EXCEPT ![t] = l]

\* The place of a node in the list at the start, and what follows a place.
At(n) == IF n \in Range(FirstList) THEN CHOOSE i \in DOMAIN FirstList : FirstList[i] = n ELSE 0
After(i) == IF i < Len(FirstList) THEN FirstList[i + 1] ELSE Null

Init ==
    /\ fresh = Nodes \ Range(FirstList)
    /\ to = [n \in Cells |-> IF n \in fresh THEN Null ELSE After(At(n))]
    /\ del = [n \in Cells |-> FALSE]
    /\ count = [n \in Nodes |-> IF n \in fresh THEN 0 ELSE 2]
    /\ key = [n \in Nodes |-> At(n)]
    /\ freeList = [t \in Threads |-> Null]
    /\ op = [t \in Threads |-> "none"] /\ arg = [t \in Threads |-> 0]
    /\ prev = [t \in Threads |-> Root] /\ cur = [t \in Threads |-> Null]
    /\ nxt = [t \in Threads |-> Null] /\ nd = [t \in Threads |-> FALSE]
    /\ dst = [t \in Threads |-> "cur"]
    /\ q = [t \in Threads |-> Null] /\ qd = [t \in Threads |-> FALSE]
    /\ new = [t \in Threads |-> Null]
    /\ todo = [t \in Threads |-> <<>>]
    /\ then = [t \in Threads |-> "idle"]
    /\ pc = [t \in Threads |-> "idle"]
    /\ saw = [t \in Threads |-> {}]

\* The list, and the keys in it.
InList == Reach(to, {Root}) \ {Root}
Members == {key[n] : n \in {m \in InList : ~ del[m]}}

\* The operation has only nodes to let go of, or to unlink what it has marked.
Over(t) == op[t] \in {"none", "unlink"}

\* History: what every operation under way could have found.
Witness ==
    LET members == Members'
    IN  saw' = [t \in Threads |-> IF Over(t)' THEN {} ELSE saw[t] \cup {arg'[t] \in members}]

-----------------------------------------------------------------------------
(* release.                                                                *)

\* release(n), which returns at once if n is not a node.
Call(n) == IF n \in Nodes THEN << <<"release", n>> >> ELSE <<>>

\* The calls s, then l.
ReleaseThen(t, s, l) ==
    /\ todo' = [todo EXCEPT ![t] = s]
    /\ then' = [then EXCEPT ![t] = l]
    /\ Goto(t, IF s = <<>> THEN l ELSE "release")

\* The calls that let go of what find leaves behind.
Found(t) == Call(cur[t]) \o Call(nxt[t]) \o Call(prev[t])
FoundNext(t) == Call(nxt[t]) \o Call(cur[t]) \o Call(prev[t])

\* The calls s, then l, with fres as find sets it first.
GiveUpThen(t, s, l) ==
    /\ ReleaseThen(t, s, l)
    /\ prev' = [prev EXCEPT ![t] = Root]
    /\ cur' = [cur EXCEPT ![t] = Null]
    /\ nxt' = [nxt EXCEPT ![t] = Null]
    /\ nd' = [nd EXCEPT ![t] = FALSE]
    /\ dst' = [dst EXCEPT ![t] = "cur"]

\* The end of an operation.
Return(t, s) ==
    /\ GiveUpThen(t, s, "idle")
    /\ op' = [op EXCEPT ![t] = "none"] /\ arg' = [arg EXCEPT ![t] = 0]

Calling(t, f) == pc[t] = "release" /\ Head(todo[t])[1] = f
Called(t) == Head(todo[t])[2]

\* The calls in progress go on with those of s.
Continue(t, s) ==
    LET rest == s \o Tail(todo[t]) IN
    /\ todo' = [todo EXCEPT ![t] = rest]
    /\ Goto(t, IF rest = <<>> THEN then[t] ELSE "release")

\* The successor is released first, then the node goes to the free list.
LetGo(t, n) == Continue(t, Call(to[n]) \o << <<"reclaim", n>> >>)

\* Mutant of Release: the count goes to zero without being claimed.
ReleaseUnclaimed(t) ==
    /\ Calling(t, "release")
    /\ count' = [count EXCEPT ![Called(t)] = @ - 2]
    /\ IF count[Called(t)] <= 2 THEN LetGo(t, Called(t)) ELSE Continue(t, <<>>)
    /\ UNCHANGED <<to, del, key, fresh, freeList, op, arg, reg, then>>

\* release: subtract one reference; the thread that gets to zero sets the low
\* bit in the same compare-and-swap and has the node for itself.
Release(t) ==
    /\ Calling(t, "release")
    /\ IF count[Called(t)] = 2
       THEN count' = [count EXCEPT ![Called(t)] = 1] /\ LetGo(t, Called(t))
       ELSE count' = [count EXCEPT ![Called(t)] = @ - 2] /\ Continue(t, <<>>)
    /\ UNCHANGED <<to, del, key, fresh, freeList, op, arg, reg, then>>

\* reclaim: the node goes on the thread's own free list.
Reclaim(t) ==
    /\ Calling(t, "reclaim")
    /\ to' = [to EXCEPT ![Called(t)] = freeList[t]]
    /\ del' = [del EXCEPT ![Called(t)] = FALSE]
    /\ freeList' = [freeList EXCEPT ![t] = Called(t)]
    /\ Continue(t, <<>>)
    /\ UNCHANGED <<count, key, fresh, op, arg, reg, then>>

-----------------------------------------------------------------------------
(* safeRead of the head into cur, or of cur's nextEntry into next.         *)

Source(t) == IF dst[t] = "cur" THEN Root ELSE cur[t]

\* q is returned.  The loop of find ends at the end of the list.
Assign(t, n, flag) ==
    IF dst[t] = "cur"
    THEN /\ cur' = [cur EXCEPT ![t] = n]
         /\ dst' = [dst EXCEPT ![t] = "nxt"]
         /\ Goto(t, IF n = Null THEN "end" ELSE "read")
         /\ UNCHANGED <<nxt, nd>>
    ELSE /\ nxt' = [nxt EXCEPT ![t] = n]
         /\ nd' = [nd EXCEPT ![t] = flag]
         /\ Goto(t, "judge")
         /\ UNCHANGED <<cur, dst>>

\* q is not used any more.
Forget(t) == q' = [q EXCEPT ![t] = Null] /\ qd' = [qd EXCEPT ![t] = FALSE]

\* Entry *q = *p; NULL, flagged or not, is returned as it is.
SafeReadLoad(t) ==
    /\ pc[t] = "read"
    /\ IF to[Source(t)] = Null
       THEN Assign(t, Null, del[Source(t)]) /\ UNCHANGED <<q, qd>>
       ELSE /\ q' = [q EXCEPT ![t] = to[Source(t)]]
            /\ qd' = [qd EXCEPT ![t] = del[Source(t)]]
            /\ Goto(t, "count")
            /\ UNCHANGED <<cur, nxt, nd, dst>>
    /\ UNCHANGED <<heap, op, arg, prev, new, todo, then>>

\* __sync_fetch_and_add: q may have been reclaimed in between.
SafeReadCount(t) ==
    /\ pc[t] = "count"
    /\ count' = [count EXCEPT ![q[t]] = @ + 2]
    /\ Goto(t, "confirm")
    /\ UNCHANGED <<to, del, key, fresh, freeList, op, arg, reg, todo, then>>

\* Mutant of SafeReadConfirm: the pointer is not looked at again.
SafeReadTrust(t) ==
    /\ pc[t] = "confirm"
    /\ Assign(t, q[t], qd[t]) /\ Forget(t)
    /\ UNCHANGED <<heap, op, arg, prev, new, todo, then>>

\* The second look; if the pointer has changed, release(q) and again.
SafeReadConfirm(t) ==
    /\ pc[t] = "confirm"
    /\ IF to[Source(t)] = q[t] /\ del[Source(t)] = qd[t]
       THEN Assign(t, q[t], qd[t]) /\ UNCHANGED <<todo, then>>
       ELSE ReleaseThen(t, Call(q[t]), "read") /\ UNCHANGED <<cur, nxt, nd, dst>>
    /\ Forget(t)
    /\ UNCHANGED <<heap, op, arg, prev, new>>

-----------------------------------------------------------------------------
(* find.                                                                   *)

\* CAS(fres->prev, fres->cur, ...) expects an unmarked pointer to cur.
PrevIntact(t) == to[prev[t]] = cur[t] /\ ~ del[prev[t]]

\* cur is marked: unlink it.  prev's reference to it goes.
Unlink(t) ==
    /\ pc[t] = "judge" /\ nd[t]
    /\ IF PrevIntact(t)
       THEN /\ to' = [to EXCEPT ![prev[t]] = nxt[t]]
            /\ ReleaseThen(t, Call(cur[t]), "addLink")
            /\ UNCHANGED <<prev, cur, nxt, nd, dst>>
       ELSE /\ GiveUpThen(t, Found(t), "read")
            /\ UNCHANGED to
    /\ UNCHANGED <<del, count, key, fresh, freeList, op, arg, q, qd, new>>

\* Mutant of AddLink: the new link of prev is not counted.
AddNoLink(t) ==
    /\ pc[t] = "addLink"
    /\ ReleaseThen(t, Call(cur[t]), IF nxt[t] = Null THEN "end" ELSE "read")
    /\ cur' = [cur EXCEPT ![t] = nxt[t]]
    /\ nd' = [nd EXCEPT ![t] = FALSE]
    /\ UNCHANGED <<heap, op, arg, prev, nxt, dst, q, qd, new>>

\* safeRead(&fres->next), of a local: prev's new reference to next.  Then the
\* thread lets go of the unlinked node.
AddLink(t) ==
    /\ pc[t] = "addLink"
    /\ count' = IF nxt[t] = Null THEN count ELSE [count EXCEPT ![nxt[t]] = @ + 2]
    /\ ReleaseThen(t, Call(cur[t]), IF nxt[t] = Null THEN "end" ELSE "read")
    /\ cur' = [cur EXCEPT ![t] = nxt[t]]
    /\ nd' = [nd EXCEPT ![t] = FALSE]
    /\ UNCHANGED <<to, del, key, fresh, freeList, op, arg, prev, nxt, dst, q, qd, new>>

\* cur is not marked: is it still prev's successor, and far enough?
Step(t) ==
    /\ pc[t] = "judge" /\ ~ nd[t]
    /\ IF ~ PrevIntact(t)
       THEN GiveUpThen(t, Found(t), "read")
       ELSE IF key[cur[t]] >= arg[t]
       THEN Goto(t, "end") /\ UNCHANGED <<prev, cur, nxt, nd, dst, todo, then>>
       ELSE /\ ReleaseThen(t, Call(prev[t]), IF nxt[t] = Null THEN "end" ELSE "read")
            /\ prev' = [prev EXCEPT ![t] = cur[t]]
            /\ cur' = [cur EXCEPT ![t] = nxt[t]]
            /\ UNCHANGED <<nxt, nd, dst>>
    /\ UNCHANGED <<heap, op, arg, q, qd, new>>

-----------------------------------------------------------------------------
(* The operations.                                                         *)

Start(t) ==
    /\ pc[t] = "idle"
    /\ \E o \in {"insert", "delete", "search"} : op' = [op EXCEPT ![t] = o]
    /\ \E k \in Keys : arg' = [arg EXCEPT ![t] = k]
    /\ Goto(t, "read")
    /\ UNCHANGED <<heap, reg, todo, then>>

Present(t) == cur[t] # Null /\ key[cur[t]] = arg[t]

\* A search is over, an insert of a present key or a delete of an absent one.
NothingToDo(t) ==
    /\ pc[t] = "end"
    /\ op[t] \in {"search", "unlink"} \/ (op[t] = "insert") = Present(t)
    /\ Return(t, Found(t))
    /\ UNCHANGED <<heap, q, qd, new>>

\* newRC: from the thread's free list (safeRead of a local adds a reference),
\* or from palloc.
NewRC(t) ==
    /\ pc[t] = "end" /\ op[t] = "insert" /\ ~ Present(t)
    /\ IF freeList[t] # Null
       THEN /\ new' = [new EXCEPT ![t] = freeList[t]]
            /\ freeList' = [freeList EXCEPT ![t] = to[freeList[t]]]
            /\ count' = [count EXCEPT ![freeList[t]] = @ + 2]
            /\ Goto(t, "unclaim")
            /\ UNCHANGED fresh
       ELSE \E n \in fresh :
            /\ new' = [new EXCEPT ![t] = n]
            /\ fresh' = fresh \ {n}
            /\ count' = [count EXCEPT ![n] = 2]
            /\ Goto(t, "fill")
            /\ UNCHANGED freeList
    /\ UNCHANGED <<to, del, key, op, arg, prev, cur, nxt, nd, dst, q, qd, todo, then>>

\* clearLowestBit.
Unclaim(t) ==
    /\ pc[t] = "unclaim"
    /\ count' = [count EXCEPT ![new[t]] = @ - 1]
    /\ Goto(t, "fill")
    /\ UNCHANGED <<to, del, key, fresh, freeList, op, arg, reg, todo, then>>

\* The node is filled in, and its link to cur counted.
Fill(t) ==
    /\ pc[t] = "fill"
    /\ key' = [key EXCEPT ![new[t]] = arg[t]]
    /\ to' = [to EXCEPT ![new[t]] = cur[t]]
    /\ del' = [del EXCEPT ![new[t]] = FALSE]
    /\ count' = IF cur[t] = Null THEN count ELSE [count EXCEPT ![cur[t]] = @ + 2]
    /\ Goto(t, "link")
    /\ UNCHANGED <<fresh, freeList, op, arg, reg, todo, then>>

\* Mutant of Link: prev's reference to cur is kept.
LinkKeepsCount(t) ==
    /\ pc[t] = "link"
    /\ IF PrevIntact(t)
       THEN /\ to' = [to EXCEPT ![prev[t]] = new[t]]
            /\ Return(t, FoundNext(t))
       ELSE /\ GiveUpThen(t, Call(new[t]) \o FoundNext(t), "read")
            /\ UNCHANGED <<to, op, arg>>
    /\ new' = [new EXCEPT ![t] = Null]
    /\ UNCHANGED <<del, count, key, fresh, freeList, q, qd>>

\* CAS(fres.prev, fres.cur, newEntry).
Link(t) ==
    /\ pc[t] = "link"
    /\ IF PrevIntact(t)
       THEN /\ to' = [to EXCEPT ![prev[t]] = new[t]]
            /\ Return(t, Call(cur[t]) \o FoundNext(t))
       ELSE /\ GiveUpThen(t, Call(new[t]) \o FoundNext(t), "read")
            /\ UNCHANGED <<to, op, arg>>
    /\ new' = [new EXCEPT ![t] = Null]
    /\ UNCHANGED <<del, count, key, fresh, freeList, q, qd>>

\* CAS(&cur->nextEntry, next, markDeleted(next)).  In the hash table a find
\* for the same key follows, to unlink the node.
Mark(t) ==
    /\ pc[t] = "end" /\ op[t] = "delete" /\ Present(t)
    /\ IF to[cur[t]] = nxt[t] /\ ~ del[cur[t]]
       THEN /\ del' = [del EXCEPT ![cur[t]] = TRUE]
            /\ \/ Return(t, Found(t))
               \/ GiveUpThen(t, Found(t), "read") /\ op' = [op EXCEPT ![t] = "unlink"] /\ UNCHANGED arg
       ELSE /\ GiveUpThen(t, Found(t), "read")
            /\ UNCHANGED <<del, op, arg>>
    /\ UNCHANGED <<to, count, key, fresh, freeList, q, qd, new>>

Thread(t) ==
    \/ Release(t) \/ Reclaim(t) \/ SafeReadLoad(t) \/ SafeReadCount(t) \/ SafeReadConfirm(t)
    \/ Unlink(t) \/ AddLink(t) \/ Step(t) \/ Start(t)
    \/ NothingToDo(t) \/ NewRC(t) \/ Unclaim(t) \/ Fill(t) \/ Link(t) \/ Mark(t)

Next == (\E t \in Threads : Thread(t)) /\ Witness
Spec == Init /\ [][Next]_vars

-----------------------------------------------------------------------------
\* The nodes a thread has reclaimed or is about to.
FreeSet(t) == Reach(to, {freeList[t]})
Reclaimed(t) == FreeSet(t) \cup {n \in Nodes : \E i \in DOMAIN todo[t] : todo[t][i] = <<"reclaim", n>>}
Freed == UNION {Reclaimed(t) : t \in Threads}

\* Nodes a thread holds references to, counted in full.
Holds(t) ==
    {n \in Nodes :
        \/ pc[t] \in {"read", "count", "confirm"} /\ dst[t] = "nxt" /\ n \in {prev[t], cur[t]}
        \/ pc[t] \in {"judge", "end", "unclaim", "fill", "link"} /\ n \in {prev[t], cur[t], nxt[t]}
        \/ pc[t] \in {"fill", "link"} /\ n = new[t]
        \/ pc[t] = "release" /\ then[t] = "read" /\ dst[t] = "nxt" /\ n \in {prev[t], cur[t]}}

TypeOK ==
    /\ to \in [Cells -> Pointers] /\ del \in [Cells -> BOOLEAN]
    /\ count \in [Nodes -> Nat] /\ key \in [Nodes -> Keys \cup {0}]
    /\ fresh \subseteq Nodes /\ freeList \in [Threads -> Pointers]
    /\ prev \in [Threads -> Cells]
    /\ \A t \in Threads : {cur[t], nxt[t], q[t], new[t]} \subseteq Pointers
    /\ todo \in [Threads -> Seq({"release", "reclaim"} \X Nodes)]

\* A node that a thread may follow, or that is in the list, has a count and is
\* on nobody's free list, although the counts lag behind the links.
NotReclaimed ==
    \A n \in InList \cup UNION {Holds(t) : t \in Threads} :
        n \notin Freed \cup fresh /\ count[n] >= 2 /\ count[n] % 2 = 0

\* Two threads never have the same node on their free lists: the low bit lets
\* one thread only reclaim it.
ReclaimedOnce ==
    \A t, u \in Threads : t # u => Reclaimed(t) \cap Reclaimed(u) = {}

Quiet == \A t \in Threads : pc[t] = "idle"

\* When no operation is under way no reference is lost or left over: a node is
\* in the list with one reference, or free.
NothingLeaks ==
    Quiet => \A n \in Nodes :
        \/ n \in InList /\ count[n] = 2
        \/ n \in Freed /\ count[n] = 1
        \/ n \in fresh

\* The list stays sorted, without a key twice.
Sorted == \A n \in InList : to[n] # Null => key[n] < key[to[n]]

\* What a thread has still to do; the answer of a search is that of find.
Doing ==
    [t \in Threads |->
        IF Over(t) THEN <<"none", 0>>
        ELSE IF op[t] = "search" /\ pc[t] = "end"
        THEN <<IF Present(t) THEN "found" ELSE "absent", arg[t]>>
        ELSE <<op[t], arg[t]>>]

\* The nodes that are in the list and not marked form a set of keys.  Link and
\* Mark put an insert and a delete into effect, for their key, and what returns
\* otherwise says what was true since it was called.
L == INSTANCE KeySet WITH keys <- Members, doing <- Doing
SetSpec == L!Spec
=============================================================================
