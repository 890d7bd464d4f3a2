-------------------------------- MODULE Mark --------------------------------
(***************************************************************************)
(* The concurrent marking of trace.c (NCHILDS == 1): clearMarks, trace,    *)
(* traceMarkstack, traceObj, __mark and the termination test CheckFinish,  *)
(* run by several threads on a list that mutators still change.            *)
(*                                                                         *)
(* Every tracer starts from the root and the hazard pointers, marks with a *)
(* CAS, and keeps what it has still to visit in a mark stack that the      *)
(* others can read.  markstack[0] is what it is visiting, with its low bit *)
(* set while it visits nothing.  A tracer that runs out of work reads the  *)
(* others' stacks, helps with what is unmarked there, and stops when two   *)
(* readings agree and show nothing.                                        *)
(*                                                                         *)
(* Of the phase protocol (module Phase) only this is kept: a collection    *)
(* starts when the one before has been opened for sweeping, and a mutator  *)
(* that has been notified of it performs at most the CAS it had already    *)
(* published hazard pointers for.  All objects share one mark word.        *)
(***************************************************************************)
EXTENDS Integers, FiniteSets, Reachability

CONSTANTS NumTracers, \* threads that collect
          Steady,    \* one of them, that never stops (FairSpec)
          Mutators,  \* threads that are not collecting
          Nodes,     \* objects
          Root,      \* the global root entryHead
          Null,      \* NULL
          List,      \* the list at the start, [Nodes \cup {Root} -> Nodes \cup {Null}]
          Fresh,     \* objects a mutator may hold, allocated and not yet linked
          Slots,     \* the size of a mark stack
          HelpBound, \* CheckFinish copies another thread's entries below this
          Bounds     \* bounds to choose from: [phases, mutators], on the collections
                     \* begun and on the mutators that run

ASSUME MarkAssumption ==
    /\ NumTracers \in Nat /\ Steady \in 0 .. NumTracers - 1
    /\ Root \notin Nodes /\ Null \notin Nodes \cup {Root}
    /\ Fresh \subseteq Nodes
    /\ List \in [Nodes \cup {Root} -> Nodes \cup {Null}]
    /\ Slots \in Nat \ {0} /\ HelpBound \in Nat \ {0}
    /\ Bounds \subseteq [phases : Nat, mutators : SUBSET Mutators]

\* A mark stack has room for the root and three hazard pointers of every thread,
\* and for what CheckFinish copies (MARKSTACK_SIZE is 1000, and the bound of CheckFinish 10).
ASSUME StackAssumption ==
    /\ IsFiniteSet(Mutators)
    /\ Slots > 1 + 3 * Cardinality(Mutators) /\ Slots > HelpBound + NumTracers

Tracers == 0 .. NumTracers - 1
Cells == Nodes \cup {Root}
Pointers == Nodes \cup {Null}

VARIABLES
    phase,     \* global->phase.phase
    opened,    \* the phase of global->sweep_counter
    next,      \* nextEntry of every object, and the root
    del,       \* objects whose nextEntry carries the deleted flag
    word,      \* the mark word: [ph, marked]
    localVer,  \* localVer of every tracer, read by the others
    slot,      \* slot[t][j]: markstack[j], j >= 1
    top,       \* top[t] = [n, fin]: markstack[0] and its low bit
    ctr,       \* counter of traceMarkstack
    cur, child,\* locals of traceObj
    hps,       \* HPlocal: what the tracer saved of the hazard pointers
    scan,      \* CheckFinish: the thread i, the index j and the pointer read last
    seenTop,   \* CheckFinish: tracing[]
    seenVer,   \* CheckFinish: curPhases[]
    pc,        \* where a tracer is
    pend,      \* the CAS a mutator has published hazard pointers for
    bound      \* the bounds of this behaviour

heap == <<next, del>>
stack == <<slot, top, ctr>>
check == <<scan, seenTop, seenVer>>
vars == <<phase, opened, heap, word, localVer, stack, cur, child, hps, check,
          pc, pend, bound>>

Goto(t, l) == pc' = [pc EXCEPT ![t] = l]
Marked(n) == n \in word.marked
Idle == [op |-> "none", cells |-> {}]
NoTop == [n |-> Null, fin |-> TRUE]
NoScan == [i |-> 0, j |-> 0, ptr |-> Null]

Init ==
    /\ phase = 0 /\ opened = 0
    /\ next = List /\ del = {}
    /\ word = [ph |-> 0, marked |-> {}]
    /\ localVer = [t \in Tracers |-> 0]
    /\ slot = [t \in Tracers |-> [j \in 1 .. Slots |-> Null]]
    /\ top = [t \in Tracers |-> NoTop]
    /\ ctr = [t \in Tracers |-> 0]
    /\ cur = [t \in Tracers |-> Null]
    /\ child = [t \in Tracers |-> Null]
    /\ hps = [t \in Tracers |-> {}]
    /\ scan = [t \in Tracers |-> NoScan]
    /\ seenTop = [t \in Tracers |-> [i \in Tracers |-> NoTop]]
    /\ seenVer = [t \in Tracers |-> [i \in Tracers |-> 0]]
    /\ pc = [t \in Tracers |-> "idle"]
    /\ pend = [m \in Mutators |-> Idle]
    /\ bound \in Bounds

-----------------------------------------------------------------------------
(* Mutators (external to trace.c).                                         *)

HazardPointers == (UNION {pend[m].cells : m \in Mutators}) \ {Root}

\* A mutator that knows of the phase publishes hazard pointers for its next
\* CAS.  One that has been notified of a collection helps with it first.
Publish(m) ==
    /\ m \in bound.mutators /\ pend[m] = Idle
    /\ opened = phase
    /\ \E p \in Cells : \E c \in Nodes :
        /\ next[p] = c /\ p \notin del
        /\ \/ c \in del /\ pend' = [pend EXCEPT ![m] =
                [op |-> "unlink", cells |-> {p, c, next[c]} \ {Null}, prev |-> p, at |-> c, to |-> next[c]]]
           \/ c \notin del /\ pend' = [pend EXCEPT ![m] =
                [op |-> "delete", cells |-> {c, next[c]} \ {Null}, prev |-> c, at |-> next[c], to |-> next[c]]]
           \/ \E n \in Fresh :
                /\ n \notin del /\ \A q \in Cells : next[q] # n
                /\ \A k \in Mutators : n \notin pend[k].cells
                /\ pend' = [pend EXCEPT ![m] =
                    [op |-> "insert", cells |-> {p, c, n}, prev |-> p, at |-> c, to |-> n]]
    /\ UNCHANGED <<phase, opened, heap, word, localVer, stack, cur, child, hps, check, pc>>

\* The CAS, which fails if the cell has changed; then the pointers go.
Cas(m) ==
    /\ pend[m] # Idle
    /\ LET p == pend[m] IN
       IF next[p.prev] = p.at /\ p.prev \notin del
       THEN CASE p.op = "delete" -> del' = del \cup {p.prev} /\ UNCHANGED next
              [] p.op = "unlink" -> next' = [next EXCEPT ![p.prev] = p.to] /\ UNCHANGED del
              [] p.op = "insert" -> next' = [next EXCEPT ![p.to] = p.at, ![p.prev] = p.to] /\ UNCHANGED del
       ELSE UNCHANGED heap
    /\ pend' = [pend EXCEPT ![m] = Idle]
    /\ UNCHANGED <<phase, opened, word, localVer, stack, cur, child, hps, check, pc>>

-----------------------------------------------------------------------------
(* Into a phase and out of it.                                             *)

\* Reclamation, for a thread that needs memory or was notified.
Enter(t) ==
    /\ pc[t] = "idle"
    /\ IF localVer[t] = phase
       THEN /\ opened = phase /\ phase < bound.phases
            /\ phase' = phase + 1
       ELSE UNCHANGED phase
    /\ localVer' = [localVer EXCEPT ![t] = @ + 1]
    /\ IF phase' = localVer'[t]
       THEN /\ hps' = [hps EXCEPT ![t] = HazardPointers]
            /\ Goto(t, "clear")
       ELSE UNCHANGED <<hps, pc>>
    /\ UNCHANGED <<opened, heap, word, stack, cur, child, check, pend>>

\* clearMarks.
ClearMarks(t) ==
    /\ pc[t] = "clear"
    /\ word' = IF word.ph < localVer[t]
               THEN [ph |-> localVer[t], marked |-> {}] ELSE word
    /\ Goto(t, "roots")
    /\ UNCHANGED <<phase, opened, heap, localVer, stack, cur, child, hps, check, pend>>

\* The members of S in some order, on top of the first k entries of stack s.
Stacked(s, k, S) ==
    {[j \in 1 .. Slots |-> IF j \in k + 1 .. k + Cardinality(S) THEN f[j - k] ELSE s[j]] :
        f \in {g \in [1 .. Cardinality(S) -> S] : \A x \in S : \E j \in 1 .. Cardinality(S) : g[j] = x}}

\* Mutant of PushRoots: the hazard pointers are left out.
PushRootsOnly(t) ==
    /\ pc[t] = "roots"
    /\ LET r == {next[Root]} \ {Null}
       IN  /\ slot' = IF r = {} THEN slot ELSE [slot EXCEPT ![t][1] = next[Root]]
           /\ ctr' = [ctr EXCEPT ![t] = Cardinality(r)]
    /\ Goto(t, "loop")
    /\ hps' = [hps EXCEPT ![t] = {}]
    /\ UNCHANGED <<phase, opened, heap, word, localVer, top, cur, child, check, pend>>

\* Mutant of PushRoots: an empty root takes a slot as well.
PushRootsNull(t) ==
    /\ pc[t] = "roots"
    /\ \E f \in Stacked([slot[t] EXCEPT ![1] = next[Root]], 1, hps[t]) :
            slot' = [slot EXCEPT ![t] = f]
    /\ ctr' = [ctr EXCEPT ![t] = 1 + Cardinality(hps[t])]
    /\ Goto(t, "loop")
    /\ hps' = [hps EXCEPT ![t] = {}]
    /\ UNCHANGED <<phase, opened, heap, word, localVer, top, cur, child, check, pend>>

\* traceRoots, then the hazard pointers go on the stack (roots first).
PushRoots(t) ==
    /\ pc[t] = "roots"
    /\ LET r == {next[Root]} \ {Null}
           s == IF r = {} THEN slot[t] ELSE [slot[t] EXCEPT ![1] = next[Root]]
       IN  /\ \E f \in Stacked(s, Cardinality(r), hps[t]) : slot' = [slot EXCEPT ![t] = f]
           /\ ctr' = [ctr EXCEPT ![t] = Cardinality(r) + Cardinality(hps[t])]
    /\ Goto(t, "loop")
    /\ hps' = [hps EXCEPT ![t] = {}]
    /\ UNCHANGED <<phase, opened, heap, word, localVer, top, cur, child, check, pend>>

-----------------------------------------------------------------------------
(* traceMarkstack and traceObj.                                            *)

\* Take the top entry; nothing to do if it is marked.
PopEntry(t) ==
    /\ pc[t] = "loop"
    /\ ctr[t] >= 1
    /\ ctr' = [ctr EXCEPT ![t] = @ - 1]
    /\ IF Marked(slot[t][ctr[t]])
       THEN UNCHANGED <<cur, pc>>
       ELSE /\ cur' = [cur EXCEPT ![t] = slot[t][ctr[t]]]
            /\ Goto(t, "publish")
    /\ UNCHANGED <<phase, opened, heap, word, localVer, slot, top, child, hps, check, pend>>

\* markstack[0] = cur.
PublishCur(t) ==
    /\ pc[t] = "publish"
    /\ top' = [top EXCEPT ![t] = [n |-> cur[t], fin |-> FALSE]]
    /\ Goto(t, "child")
    /\ UNCHANGED <<phase, opened, heap, word, localVer, slot, ctr, cur, child, hps, check, pend>>

ReadChild(t) ==
    /\ pc[t] = "child"
    /\ child' = [child EXCEPT ![t] = next[cur[t]]]
    /\ Goto(t, IF next[cur[t]] = Null THEN "mark" ELSE "push")
    /\ UNCHANGED <<phase, opened, heap, word, localVer, stack, cur, hps, check, pend>>

\* The child goes on the stack before cur is marked.
PushChild(t) ==
    /\ pc[t] = "push"
    /\ slot' = [slot EXCEPT ![t][ctr[t] + 1] = child[t]]
    /\ Goto(t, "mark")
    /\ UNCHANGED <<phase, opened, heap, word, localVer, top, ctr, cur, child, hps, check, pend>>

\* The variables of traceObj are not used any more.
Forget(t) == cur' = [cur EXCEPT ![t] = Null] /\ child' = [child EXCEPT ![t] = Null]

\* Mutant of MarkCur: the phase in the mark word is not looked at.
MarkAnyPhase(t) ==
    /\ pc[t] = "mark"
    /\ IF ~ Marked(cur[t])
       THEN /\ word' = [word EXCEPT !.marked = @ \cup {cur[t]}]
            /\ ctr' = [ctr EXCEPT ![t] = IF child[t] = Null THEN @ ELSE @ + 1]
            /\ Goto(t, "loop")
       ELSE /\ Goto(t, IF child[t] = Null THEN "loop" ELSE "retract")
            /\ UNCHANGED <<word, ctr>>
    /\ Forget(t)
    /\ UNCHANGED <<phase, opened, heap, localVer, slot, top, hps, check, pend>>

\* Mutant of MarkCur: the child is not committed.
MarkForgetsChild(t) ==
    /\ pc[t] = "mark"
    /\ IF word.ph = localVer[t] /\ ~ Marked(cur[t])
       THEN /\ word' = [word EXCEPT !.marked = @ \cup {cur[t]}]
            /\ Goto(t, "loop")
       ELSE /\ Goto(t, IF child[t] = Null THEN "loop" ELSE "retract")
            /\ UNCHANGED word
    /\ Forget(t)
    /\ UNCHANGED <<phase, opened, heap, localVer, stack, hps, check, pend>>

\* __mark, with its retries: it succeeds if the object is unmarked and the
\* word still belongs to the tracer's phase.
MarkCur(t) ==
    /\ pc[t] = "mark"
    /\ IF word.ph = localVer[t] /\ ~ Marked(cur[t])
       THEN /\ word' = [word EXCEPT !.marked = @ \cup {cur[t]}]
            /\ ctr' = [ctr EXCEPT ![t] = IF child[t] = Null THEN @ ELSE @ + 1]
            /\ Goto(t, "loop")
       ELSE /\ Goto(t, IF child[t] = Null THEN "loop" ELSE "retract")
            /\ UNCHANGED <<word, ctr>>
    /\ Forget(t)
    /\ UNCHANGED <<phase, opened, heap, localVer, slot, top, hps, check, pend>>

\* Somebody else marked cur and has its child: take the child off again.
Retract(t) ==
    /\ pc[t] = "retract"
    /\ slot' = [slot EXCEPT ![t][ctr[t] + 1] = Null]
    /\ Goto(t, "loop")
    /\ UNCHANGED <<phase, opened, heap, word, localVer, top, ctr, cur, child, hps, check, pend>>

\* The stack is empty: set the low bit of markstack[0], start CheckFinish.
StackEmpty(t) ==
    /\ pc[t] = "loop"
    /\ ctr[t] = 0
    /\ top' = [top EXCEPT ![t].fin = TRUE]
    /\ Goto(t, "readVer")
    /\ UNCHANGED <<phase, opened, heap, word, localVer, slot, ctr, cur, child, hps, check, pend>>

-----------------------------------------------------------------------------
(* CheckFinish.                                                            *)

\* What was read is not used any more: the end, or from the start again.
Leave(t, l) ==
    /\ scan' = [scan EXCEPT ![t] = NoScan]
    /\ seenTop' = [seenTop EXCEPT ![t] = [i \in Tracers |-> NoTop]]
    /\ seenVer' = [seenVer EXCEPT ![t] = [i \in Tracers |-> 0]]
    /\ Goto(t, l)

\* The next thread, or `then` when all have been read.
NextThread(t, loop, then) ==
    IF scan[t].i + 1 < NumTracers
    THEN scan' = [scan EXCEPT ![t] = [NoScan EXCEPT !.i = scan[t].i + 1]] /\ Goto(t, loop)
    ELSE scan' = [scan EXCEPT ![t] = NoScan] /\ Goto(t, then)

\* curPhases[i] = ai->localVer.
ReadVer(t) ==
    /\ pc[t] = "readVer"
    /\ seenVer' = [seenVer EXCEPT ![t][scan[t].i] = localVer[scan[t].i]]
    /\ Goto(t, "readTop")
    /\ UNCHANGED <<phase, opened, heap, word, localVer, stack, cur, child, hps, scan, seenTop, pend>>

\* trptr = ai->markstack[0]; skip a thread that visits nothing or is in
\* another phase.
ReadTop(t) ==
    /\ pc[t] = "readTop"
    /\ LET i == scan[t].i IN
        /\ seenTop' = [seenTop EXCEPT ![t][i] = top[i]]
        /\ IF top[i].fin \/ seenVer[t][i] # localVer[t]
           THEN NextThread(t, "readVer", "decide")
           ELSE /\ scan' = [scan EXCEPT ![t].j = 1]
                /\ Goto(t, "readSlot")
    /\ UNCHANGED <<phase, opened, heap, word, localVer, stack, cur, child, hps, seenVer, pend>>

\* ptr = ai->markstack[j], up to the first NULL; then markstack[0] itself.
ReadSlot(t) ==
    /\ pc[t] = "readSlot"
    /\ LET i == scan[t].i
           j == scan[t].j
           p == IF j <= Slots THEN slot[i][j] ELSE Null
       IN  IF p = Null
           THEN /\ scan' = [scan EXCEPT ![t].ptr = seenTop[t][i].n]
                /\ Goto(t, "checkTop")
           ELSE /\ scan' = [scan EXCEPT ![t].ptr = p]
                /\ Goto(t, "checkSlot")
    /\ UNCHANGED <<phase, opened, heap, word, localVer, stack, cur, child, hps, seenTop, seenVer, pend>>

\* markstack[++counter] = p.
Copy(t, p) ==
    /\ ctr' = [ctr EXCEPT ![t] = @ + 1]
    /\ slot' = [slot EXCEPT ![t][ctr[t] + 1] = p]

CheckSlot(t) ==
    /\ pc[t] = "checkSlot"
    /\ IF ~ Marked(scan[t].ptr) /\ ctr[t] < HelpBound
       THEN Copy(t, scan[t].ptr)
       ELSE UNCHANGED <<ctr, slot>>
    /\ scan' = [scan EXCEPT ![t].j = @ + 1]
    /\ Goto(t, "readSlot")
    /\ UNCHANGED <<phase, opened, heap, word, localVer, top, cur, child, hps, seenTop, seenVer, pend>>

\* Mutant of CheckTop: wait for the owner instead of helping it.
CheckTopWaits(t) ==
    /\ pc[t] = "checkTop"
    /\ IF ~ Marked(scan[t].ptr)
       THEN Leave(t, "readVer")
       ELSE NextThread(t, "readVer", "decide") /\ UNCHANGED <<seenTop, seenVer>>
    /\ UNCHANGED <<phase, opened, heap, word, localVer, stack, cur, child, hps, pend>>

\* Then markstack[0], whatever the counter.
CheckTop(t) ==
    /\ pc[t] = "checkTop"
    /\ IF ~ Marked(scan[t].ptr) THEN Copy(t, scan[t].ptr) ELSE UNCHANGED <<ctr, slot>>
    /\ NextThread(t, "readVer", "decide")
    /\ UNCHANGED <<phase, opened, heap, word, localVer, top, cur, child, hps, seenTop, seenVer, pend>>

\* The entries up to the first NULL are cleared.
Emptied(s) == [j \in 1 .. Slots |-> IF \A k \in 1 .. j : s[k] # Null THEN Null ELSE s[j]]

\* Something to help with, unless the phase is over; or the second reading.
Decide(t) ==
    /\ pc[t] = "decide"
    /\ IF ctr[t] # 0 /\ localVer[t] # phase
       THEN /\ slot' = [slot EXCEPT ![t] = Emptied(@)]
            /\ ctr' = [ctr EXCEPT ![t] = 0]
       ELSE UNCHANGED <<slot, ctr>>
    /\ IF ctr[t] = 0
       THEN Goto(t, "rereadTop") /\ UNCHANGED check
       ELSE Leave(t, IF localVer[t] # phase THEN "reset" ELSE "loop")
    /\ UNCHANGED <<phase, opened, heap, word, localVer, top, cur, child, hps, pend>>

\* The second reading: markstack[0] of a thread, then its localVer.
RereadTop(t) ==
    /\ pc[t] = "rereadTop"
    /\ IF top[scan[t].i] # seenTop[t][scan[t].i]
       THEN Leave(t, "readVer")
       ELSE Goto(t, "rereadVer") /\ UNCHANGED check
    /\ UNCHANGED <<phase, opened, heap, word, localVer, stack, cur, child, hps, pend>>

RereadVer(t) ==
    /\ pc[t] = "rereadVer"
    /\ LET i == scan[t].i IN
        IF localVer[i] # seenVer[t][i] \/ i + 1 = NumTracers
        THEN Leave(t, IF localVer[i] # seenVer[t][i] THEN "readVer" ELSE "reset")
        ELSE NextThread(t, "rereadTop", "reset") /\ UNCHANGED <<seenTop, seenVer>>
    /\ UNCHANGED <<phase, opened, heap, word, localVer, stack, cur, child, hps, pend>>

\* resetSweepCounter; sweeping itself is in module Phase.
Open(t) ==
    /\ pc[t] = "reset"
    /\ opened' = IF opened < localVer[t] THEN localVer[t] ELSE opened
    /\ Goto(t, "idle")
    /\ UNCHANGED <<phase, heap, word, localVer, stack, cur, child, hps, check, pend>>

-----------------------------------------------------------------------------
Tracer(t) ==
    \/ ClearMarks(t) \/ PushRoots(t) \/ PopEntry(t) \/ PublishCur(t)
    \/ ReadChild(t) \/ PushChild(t) \/ MarkCur(t) \/ Retract(t)
    \/ StackEmpty(t) \/ ReadVer(t) \/ ReadTop(t) \/ ReadSlot(t)
    \/ CheckSlot(t) \/ CheckTop(t) \/ Decide(t) \/ RereadTop(t)
    \/ RereadVer(t) \/ Open(t)

AtBound ==
    /\ phase = bound.phases
    /\ \A t \in Tracers : pc[t] = "idle" /\ localVer[t] = bound.phases
    /\ UNCHANGED vars

Next == /\ \/ \E t \in Tracers : Enter(t) \/ Tracer(t)
           \/ \E m \in Mutators : Publish(m) \/ Cas(m)
           \/ AtBound
        /\ UNCHANGED bound

Spec == Init /\ [][Next]_vars

\* Every tracer may stop for good, except one.
FairSpec == Spec /\ WF_vars(Tracer(Steady) /\ UNCHANGED bound)

-----------------------------------------------------------------------------
TracerPC == {"idle", "clear", "roots", "loop", "publish", "child", "push",
             "mark", "retract", "readVer", "readTop", "readSlot", "checkSlot",
             "checkTop", "decide", "rereadTop", "rereadVer", "reset"}

\* The types; a stack never outgrows its array (traceObj writes one slot above
\* counter, trace.c:178), and at most one collection is under way.
TypeOK ==
    /\ phase \in 0 .. bound.phases /\ opened \in {phase, phase - 1}
    /\ next \in [Cells -> Pointers] /\ del \subseteq Nodes
    /\ word.ph \in 0 .. phase /\ word.marked \subseteq Nodes
    /\ localVer \in [Tracers -> 0 .. phase]
    /\ slot \in [Tracers -> [1 .. Slots -> Pointers]]
    /\ top \in [Tracers -> [n : Pointers, fin : BOOLEAN]]
    /\ cur \in [Tracers -> Pointers] /\ child \in [Tracers -> Pointers]
    /\ hps \in [Tracers -> SUBSET Nodes]
    /\ pc \in [Tracers -> TracerPC]
    /\ \A t \in Tracers :
        /\ ctr[t] \in 0 .. Slots - 1
        /\ \A j \in 1 .. ctr[t] : slot[t][j] # Null

\* The objects that can be reached from the cells or objects of S.
Reachable(S) == Reach(next, S) \ {Root}

InUse == Reachable({Root} \cup HazardPointers)

\* The collection that is running and has cleared its marks.
Marking == word.ph = phase /\ opened < phase

\* What a tracer of the running collection has still to visit: what is on its stack, the
\* object it is at, and at first the roots.
OnStack(t) == {slot[t][j] : j \in 1 .. ctr[t]}
Visiting(t) == IF pc[t] \in {"publish", "child", "push", "mark"} THEN {cur[t]} ELSE {}
Roots(t) == IF pc[t] \in {"clear", "roots"} THEN hps[t] \cup ({next[Root]} \ {Null}) ELSE {}
Work(t) == IF localVer[t] = phase THEN OnStack(t) \cup Visiting(t) \cup Roots(t) ELSE {}

\* Opening a phase for sweeping (resetSweepCounter) finds every object that
\* is reachable, or that a mutator holds, marked for that phase, however the
\* tracers and the mutators interleaved.
OpenOnlyWhenMarked ==
    [][opened' # opened => /\ word.ph = opened'
                           /\ InUse \subseteq word.marked]_vars

\* While marking runs, whatever is in use and not marked yet can be reached
\* from the work of a tracer of this collection: an object leaves the stack of
\* one only when it is marked and its child is on a stack, and a tracer that
\* was overtaken by this collection marks nothing in it.
NothingLost ==
    Marking => InUse \ word.marked \subseteq Reachable(UNION {Work(t) : t \in Tracers})

-----------------------------------------------------------------------------
(* The inductive invariant.                                                *)

Tops == [n : Pointers, fin : BOOLEAN]

Types ==
    /\ bound \in Bounds
    /\ phase \in 0 .. bound.phases /\ opened \in {phase, phase - 1}
    /\ next \in [Cells -> Pointers] /\ del \subseteq Nodes
    /\ word \in [ph : 0 .. phase, marked : SUBSET Nodes]
    /\ localVer \in [Tracers -> 0 .. phase]
    /\ slot \in [Tracers -> [1 .. Slots -> Pointers]]
    /\ top \in [Tracers -> Tops]
    /\ ctr \in [Tracers -> 0 .. Slots - 1]
    /\ cur \in [Tracers -> Pointers] /\ child \in [Tracers -> Pointers]
    /\ hps \in [Tracers -> SUBSET Nodes]
    /\ scan \in [Tracers -> [i : Tracers, j : Nat, ptr : Pointers]]
    /\ seenTop \in [Tracers -> [Tracers -> Tops]]
    /\ seenVer \in [Tracers -> [Tracers -> Nat]]
    /\ pc \in [Tracers -> TracerPC]
    /\ pend = [m \in Mutators |-> pend[m]]

\* A mutator with a CAS to do has published the cells that the CAS is about.
Pending ==
    \A m \in Mutators : pend[m] # Idle =>
        /\ pend[m].op \in {"unlink", "delete", "insert"}
        /\ pend[m].prev \in Cells /\ pend[m].at \in Pointers /\ pend[m].to \in Pointers
        /\ pend[m].cells \subseteq {pend[m].prev, pend[m].at, pend[m].to} \ {Null}
        /\ pend[m].op = "delete" => pend[m].prev \in Nodes
        /\ pend[m].op # "delete" => {pend[m].at, pend[m].to} \ {Null} \subseteq pend[m].cells
        /\ pend[m].op = "insert" => pend[m].to \in Nodes

\* What a tracer has on its stack, and how deep it may be where the tracer is.
StackOf(t) ==
    /\ \A j \in 1 .. ctr[t] : slot[t][j] # Null
    /\ pc[t] \in {"idle", "clear", "roots", "rereadTop", "rereadVer", "reset"} => ctr[t] = 0
    /\ pc[t] \in {"publish", "child", "push", "mark"} => cur[t] # Null /\ ctr[t] < Slots - 1
    /\ pc[t] = "push" => child[t] # Null
    /\ pc[t] = "mark" /\ child[t] # Null => slot[t][ctr[t] + 1] = child[t]
    /\ pc[t] \in {"readVer", "readTop", "readSlot", "checkSlot", "checkTop"} => ctr[t] <= HelpBound + scan[t].i
    /\ pc[t] \in {"readSlot", "checkSlot", "checkTop"} => ~ seenTop[t][scan[t].i].fin
    /\ pc[t] \in {"checkSlot", "checkTop"} => scan[t].ptr # Null
    /\ pc[t] \in {"readSlot", "checkSlot"} => scan[t].j >= 1
    /\ pc[t] \in {"readVer", "readTop", "readSlot", "checkSlot", "checkTop", "rereadTop", "rereadVer"}
       \/ scan[t].i = 0
    /\ ~ top[t].fin => top[t].n # Null
    /\ \A i \in Tracers : ~ seenTop[t][i].fin => seenTop[t][i].n # Null
    /\ IsFiniteSet(hps[t]) /\ Cardinality(hps[t]) <= 3 * Cardinality(Mutators)

\* Marks of a phase are cleared before anybody marks or pushes in it.
Cleared(t) == pc[t] \notin {"idle", "clear"} => word.ph >= localVer[t]

\* The objects that are marked or on the way to it.
Known == word.marked \cup UNION {Work(t) : t \in Tracers}

\* A tracer of the running collection saved the hazard pointers that are
\* still there; between reading a child and marking, only CASes whose hazard pointers
\* were saved have changed it.
TracerOf(t) ==
    localVer[t] = phase =>
    /\ pc[t] \in {"clear", "roots"} /\ opened < phase => HazardPointers \subseteq hps[t]
    /\ pc[t] \in {"push", "mark"} /\ Marking => next[cur[t]] \in Known \cup {child[t], Null}

\* While marking runs: what is held, what the root points to, and what a marked
\* object points to, is marked or on the way to it.
Tricolour ==
    Marking =>
    /\ HazardPointers \subseteq Known
    /\ next[Root] \in Known \cup {Null}
    /\ \A n \in word.marked : next[n] \in Known \cup {Null}

MarkInv ==
    /\ Types /\ Pending /\ Tricolour
    /\ \A t \in Tracers : StackOf(t) /\ Cleared(t) /\ TracerOf(t)

\* The tracer that keeps running comes to the end of its collection, even if
\* all the others stop in the middle of theirs: it takes over what it finds on
\* their stacks.
FinishesAlone == pc[Steady] = "clear" ~> pc[Steady] = "idle"

=============================================================================
