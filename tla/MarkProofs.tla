----------------------------- MODULE MarkProofs -----------------------------
(***************************************************************************)
(* Theorems about the marking (module Mark), for every number of tracers,  *)
(* mutators, objects and collections, every list at the start, and stacks  *)
(* that have room for the roots and for what CheckFinish copies.           *)
(***************************************************************************)
EXTENDS Mark, ReachabilityProofs, FiniteSetTheorems, TLAPS

\* The other tracers stay where they are.
Others(t) ==
    \A u \in Tracers \ {t} :
        /\ localVer'[u] = localVer[u] /\ pc'[u] = pc[u]
        /\ slot'[u] = slot[u] /\ top'[u] = top[u] /\ ctr'[u] = ctr[u]
        /\ cur'[u] = cur[u] /\ child'[u] = child[u] /\ hps'[u] = hps[u]
        /\ scan'[u] = scan[u] /\ seenTop'[u] = seenTop[u] /\ seenVer'[u] = seenVer[u]

\* What a tracer does to its own stack and registers concerns nobody else.
LEMMA OthersStay ==
    ASSUME MarkInv, NEW t \in Tracers, Others(t)
    PROVE  /\ \A u \in Tracers \ {t} : StackOf(u)'
           /\ word'.ph >= word.ph /\ word'.ph \in Int => \A u \in Tracers \ {t} : Cleared(u)'
<1>1. ASSUME NEW u \in Tracers \ {t} PROVE StackOf(u)'
  <2>1. StackOf(u)
    BY DEF MarkInv
  <2> QED
    BY <1>1, <2>1 DEF Others, StackOf
<1>2. ASSUME NEW u \in Tracers \ {t}, word'.ph >= word.ph, word'.ph \in Int PROVE Cleared(u)'
  <2>1. Cleared(u) /\ word.ph \in Int /\ localVer[u] \in Int
    BY DEF MarkInv, Types
  <2> QED
    BY <1>2, <2>1 DEF Others, Cleared
<1> QED
  BY <1>1, <1>2

\* A step of a tracer that changes only its own stack and registers, and perhaps marks
\* objects whose successors are known, and gives up no work that is not done.
LEMMA WorkStep ==
    ASSUME MarkInv, NEW t \in Tracers, Others(t),
           UNCHANGED <<phase, opened, next, pend>>, word'.ph = word.ph, word.marked \subseteq word'.marked,
           Types', StackOf(t)', Cleared(t)',
           Marking => Work(t) \subseteq Work(t)' \cup word'.marked,
           Marking => \A n \in word'.marked \ word.marked : next[n] \in Known' \cup {Null},
           pc'[t] \in {"clear", "roots"} =>
                /\ pc[t] \in {"clear", "roots"} /\ localVer'[t] = localVer[t] /\ hps'[t] = hps[t],
           pc'[t] \in {"push", "mark"} /\ localVer'[t] = phase /\ Marking =>
                next[cur'[t]] \in Known \cup {child'[t], Null}
    PROVE  MarkInv'
<1>0. HazardPointers' = HazardPointers /\ Marking' = Marking /\ Pending'
  BY DEF MarkInv, HazardPointers, Marking, Pending
<1>1. \A u \in Tracers : StackOf(u)' /\ Cleared(u)'
  <2>1. word'.ph >= word.ph /\ word'.ph \in Int
    BY DEF MarkInv, Types
  <2> QED
    BY <2>1, OthersStay
<1>2. \A u \in Tracers \ {t} : Work(u)' = Work(u)
  <2> SUFFICES ASSUME NEW u \in Tracers \ {t} PROVE Work(u)' = Work(u)
    OBVIOUS
  <2>1. slot'[u] = slot[u] /\ ctr'[u] = ctr[u]
    BY DEF Others
  <2>2. OnStack(u)' = OnStack(u)
    BY <2>1 DEF OnStack
  <2>3. Visiting(u)' = Visiting(u) /\ Roots(u)' = Roots(u)
    BY DEF Others, Visiting, Roots
  <2> QED
    BY <2>2, <2>3 DEF Others, Work
<1>3. Marking => Known \subseteq Known'
  <2> SUFFICES ASSUME Marking, NEW x \in Known PROVE x \in Known'
    OBVIOUS
  <2>1. CASE x \in word.marked
    BY <2>1 DEF Known
  <2>2. ASSUME NEW u \in Tracers, x \in Work(u) PROVE x \in Known'
    <3>1. x \in Work(u)' \/ x \in word'.marked
      BY <1>2, <2>2
    <3> QED
      BY <3>1 DEF Known
  <2> QED
    BY <2>1, <2>2 DEF Known
<1>4. Tricolour'
  BY <1>0, <1>3 DEF MarkInv, Tricolour
<1>5. ASSUME NEW u \in Tracers PROVE TracerOf(u)'
  <2>1. TracerOf(u)
    BY DEF MarkInv
  <2>2. CASE u # t
    BY <1>0, <1>3, <2>1, <2>2 DEF Others, TracerOf
  <2>3. CASE u = t
    BY <1>0, <1>3, <2>1, <2>3 DEF TracerOf
  <2> QED
    BY <2>2, <2>3
<1> QED
  BY <1>0, <1>1, <1>4, <1>5 DEF MarkInv

\* The same without marking anything.
LEMMA TracerStep ==
    ASSUME MarkInv, NEW t \in Tracers, Others(t),
           UNCHANGED <<phase, opened, next, word, pend>>,
           Types', StackOf(t)', Cleared(t)',
           Marking => Work(t) \subseteq Work(t)' \cup word.marked,
           pc'[t] \in {"clear", "roots"} =>
                /\ pc[t] \in {"clear", "roots"} /\ localVer'[t] = localVer[t] /\ hps'[t] = hps[t],
           pc'[t] \in {"push", "mark"} /\ localVer'[t] = phase /\ Marking =>
                next[cur'[t]] \in Known \cup {child'[t], Null}
    PROVE  MarkInv'
<1>1. word'.ph = word.ph /\ word.marked \subseteq word'.marked
  OBVIOUS
<1>2. Marking => Work(t) \subseteq Work(t)' \cup word'.marked
  OBVIOUS
<1>3. \A n \in word'.marked \ word.marked : next[n] \in Known' \cup {Null}
  OBVIOUS
<1> QED
  BY <1>1, <1>2, <1>3, WorkStep

-----------------------------------------------------------------------------
(* Each action preserves the invariant.                                    *)

\* What a tracer's registers are, one by one.
LEMMA Registers ==
    ASSUME MarkAssumption, StackAssumption, Types, NEW t \in Tracers
    PROVE  /\ localVer[t] \in Nat /\ phase \in Nat /\ localVer[t] <= phase /\ word.ph \in Nat /\ word.ph <= phase
           /\ slot[t] \in [1 .. Slots -> Pointers] /\ DOMAIN slot[t] = 1 .. Slots
           /\ ctr[t] \in Nat /\ ctr[t] <= Slots - 1 /\ Slots \in Nat
           /\ \A j \in Nat : j >= 1 /\ j <= Slots => j \in 1 .. Slots /\ slot[t][j] \in Pointers
           /\ top[t] \in Tops /\ cur[t] \in Pointers /\ child[t] \in Pointers /\ hps[t] \subseteq Nodes
           /\ scan[t].i \in Tracers /\ scan[t].j \in Nat /\ scan[t].ptr \in Pointers
           /\ seenTop[t] \in [Tracers -> Tops] /\ seenVer[t] \in [Tracers -> Nat]
           /\ HelpBound \in Nat /\ NumTracers \in Nat /\ 0 \in Tracers
           /\ HelpBound + NumTracers < Slots
<1>1. NumTracers \in Nat /\ 0 \in Tracers /\ Slots \in Nat /\ HelpBound \in Nat
  BY DEF MarkAssumption, Tracers
<1>2. bound.phases \in Nat
  BY DEF Types, MarkAssumption
<1>3. phase \in Nat
  BY <1>2 DEF Types
<1>4. localVer[t] \in Nat /\ localVer[t] <= phase /\ word.ph \in Nat /\ word.ph <= phase
  BY <1>3 DEF Types
<1>5. slot[t] \in [1 .. Slots -> Pointers] /\ DOMAIN slot[t] = 1 .. Slots
  BY DEF Types
<1>6. ctr[t] \in Nat /\ ctr[t] <= Slots - 1
  BY <1>1 DEF Types
<1>7. \A j \in Nat : j >= 1 /\ j <= Slots => j \in 1 .. Slots /\ slot[t][j] \in Pointers
  BY <1>1, <1>5
<1>8. top[t] \in Tops /\ cur[t] \in Pointers /\ child[t] \in Pointers /\ hps[t] \subseteq Nodes
  BY DEF Types
<1>9. scan[t].i \in Tracers /\ scan[t].j \in Nat /\ scan[t].ptr \in Pointers
  BY DEF Types
<1>10. seenTop[t] \in [Tracers -> Tops] /\ seenVer[t] \in [Tracers -> Nat]
  BY DEF Types
<1>11. HelpBound + NumTracers < Slots
  BY <1>1 DEF StackAssumption
<1> QED
  BY <1>1, <1>3, <1>4, <1>5, <1>6, <1>7, <1>8, <1>9, <1>10, <1>11

\* What is on the stack up to its counter is all of it that counts.
LEMMA WorkStays ==
    ASSUME NEW t, UNCHANGED <<phase, next, localVer>>, ctr'[t] = ctr[t],
           \A j \in 1 .. ctr[t] : slot'[t][j] = slot[t][j],
           Visiting(t)' = Visiting(t), Roots(t)' = Roots(t)
    PROVE  Work(t)' = Work(t)
<1>1. OnStack(t)' = OnStack(t)
  BY DEF OnStack
<1> QED
  BY <1>1 DEF Work

\* Popping: an entry that is marked already was work nobody needs; another one stays
\* work as the object that is visited.
LEMMA PopEntryInv ==
    ASSUME MarkAssumption, StackAssumption, MarkInv, NEW t \in Tracers, PopEntry(t), UNCHANGED bound
    PROVE  MarkInv'
<1> USE DEF PopEntry, Goto, heap, check
<1>0. Types /\ StackOf(t) /\ Cleared(t)
  BY DEF MarkInv
<1> DEFINE k == ctr[t]
           x == slot[t][k]
<1>a. k \in Nat /\ k >= 1 /\ k <= Slots - 1 /\ Slots \in Nat /\ x \in Pointers
  BY <1>0, Registers
<1>b. x # Null
  BY <1>0, <1>a DEF StackOf
<1>c. /\ ctr' = [ctr EXCEPT ![t] = k - 1] /\ k - 1 \in 0 .. Slots - 1
      /\ ctr'[t] = k - 1
      /\ \/ pc' = pc /\ cur' = cur /\ Marked(x)
         \/ pc' = [pc EXCEPT ![t] = "publish"] /\ cur' = [cur EXCEPT ![t] = x]
  BY <1>0, <1>a DEF Types
<1>1. Types'
  <2>1. ctr' \in [Tracers -> 0 .. Slots - 1]
    BY <1>0, <1>a, <1>c DEF Types
  <2>2. pc' \in [Tracers -> TracerPC]
    BY <1>0, <1>a, <1>c DEF Types, TracerPC
  <2>3. cur' \in [Tracers -> Pointers]
    BY <1>0, <1>a, <1>c DEF Types
  <2> QED
    BY <1>0, <2>1, <2>2, <2>3 DEF Types
<1>2. Others(t)
  BY <1>0 DEF Others, Types
<1>3. StackOf(t)'
  <2>1. pc'[t] = "loop" \/ (pc'[t] = "publish" /\ cur'[t] = x)
    BY <1>0, <1>c DEF Types
  <2>2. \A j \in 1 .. ctr'[t] : slot'[t][j] # Null
    BY <1>0, <1>a, <1>c DEF StackOf
  <2> QED
    BY <1>0, <1>a, <1>b, <1>c, <2>1, <2>2 DEF StackOf
<1>4. Cleared(t)'
  BY <1>0 DEF Cleared, Types
<1>5. Work(t) \subseteq Work(t)' \cup word.marked
  <2>1. OnStack(t) \subseteq OnStack(t)' \cup {x}
    BY <1>a, <1>c DEF OnStack
  <2>2. x \in Visiting(t)' \cup word.marked
    BY <1>0, <1>c DEF Visiting, Marked, Types
  <2>3. Visiting(t) = {} /\ Roots(t) = {} /\ localVer' = localVer /\ phase' = phase
    BY DEF Visiting, Roots
  <2> QED
    BY <2>1, <2>2, <2>3 DEF Work
<1>6. pc'[t] \notin {"clear", "roots", "push", "mark"}
  BY <1>0, <1>c DEF Types
<1> QED
  BY <1>1, <1>2, <1>3, <1>4, <1>5, <1>6, TracerStep

\* Writing markstack[0] shows the others what is visited, and changes no work.
LEMMA PublishCurInv ==
    ASSUME MarkAssumption, StackAssumption, MarkInv, NEW t \in Tracers, PublishCur(t), UNCHANGED bound
    PROVE  MarkInv'
<1> USE DEF PublishCur, Goto, heap, check
<1>0. Types /\ StackOf(t) /\ Cleared(t)
  BY DEF MarkInv
<1>a. cur[t] \in Pointers /\ cur[t] # Null
  BY <1>0, Registers DEF StackOf
<1>1. Types'
  <2>1. top' \in [Tracers -> Tops]
    BY <1>0, <1>a DEF Types, Tops
  <2>2. pc' \in [Tracers -> TracerPC]
    BY <1>0 DEF Types, TracerPC
  <2> QED
    BY <1>0, <2>1, <2>2 DEF Types
<1>2. Others(t)
  BY <1>0 DEF Others, Types
<1>3. pc'[t] = "child" /\ top'[t] = [n |-> cur[t], fin |-> FALSE]
  BY <1>0 DEF Types
<1>4. StackOf(t)'
  BY <1>0, <1>a, <1>3 DEF StackOf
<1>5. Cleared(t)'
  BY <1>0, <1>3 DEF Cleared
<1>6. Work(t)' = Work(t)
  <2>1. Visiting(t)' = Visiting(t) /\ Roots(t)' = Roots(t)
    BY <1>3 DEF Visiting, Roots
  <2> QED
    BY <2>1, WorkStays
<1> QED
  BY <1>1, <1>2, <1>3, <1>4, <1>5, <1>6, TracerStep

\* The child that is read is the object's successor at that moment, and goes on to be
\* pushed unless it is NULL.
LEMMA ReadChildInv ==
    ASSUME MarkAssumption, StackAssumption, MarkInv, NEW t \in Tracers, ReadChild(t), UNCHANGED bound
    PROVE  MarkInv'
<1> USE DEF ReadChild, Goto, heap, check, stack
<1>0. Types /\ StackOf(t) /\ Cleared(t)
  BY DEF MarkInv
<1>a. cur[t] \in Pointers /\ cur[t] # Null
  BY <1>0, Registers DEF StackOf
<1>b. next[cur[t]] \in Pointers
  BY <1>0, <1>a DEF Types, Pointers, Cells
<1>1. Types'
  <2>1. child' \in [Tracers -> Pointers]
    BY <1>0, <1>b DEF Types
  <2>2. pc' \in [Tracers -> TracerPC]
    BY <1>0 DEF Types, TracerPC
  <2> QED
    BY <1>0, <2>1, <2>2 DEF Types
<1>2. Others(t)
  BY <1>0 DEF Others, Types
<1>3. /\ child'[t] = next[cur[t]] /\ pc'[t] = IF next[cur[t]] = Null THEN "mark" ELSE "push"
  BY <1>0 DEF Types
<1>4. StackOf(t)'
  BY <1>0, <1>a, <1>3 DEF StackOf
<1>5. Cleared(t)'
  BY <1>0, <1>3 DEF Cleared
<1>6. Work(t)' = Work(t)
  <2>1. Visiting(t)' = Visiting(t) /\ Roots(t)' = Roots(t)
    BY <1>3 DEF Visiting, Roots
  <2> QED
    BY <2>1, WorkStays
<1> QED
  BY <1>1, <1>2, <1>3, <1>4, <1>5, <1>6, TracerStep

\* The child is written one slot above the counter: there is room, and it counts only
\* when the object is marked.
LEMMA PushChildInv ==
    ASSUME MarkAssumption, StackAssumption, MarkInv, NEW t \in Tracers, PushChild(t), UNCHANGED bound
    PROVE  MarkInv'
<1> USE DEF PushChild, Goto, heap, check
<1>0. Types /\ StackOf(t) /\ Cleared(t) /\ TracerOf(t)
  BY DEF MarkInv
<1> DEFINE k == ctr[t] + 1
<1>a. /\ ctr[t] \in Nat /\ Slots \in Nat /\ ctr[t] < Slots - 1 /\ child[t] \in Pointers
      /\ slot[t] \in [1 .. Slots -> Pointers]
  BY <1>0, Registers DEF StackOf
<1>b. slot'[t] = [slot[t] EXCEPT ![k] = child[t]] /\ pc'[t] = "mark"
  BY <1>0 DEF Types
<1>c. k \in 1 .. Slots /\ slot'[t][k] = child[t] /\ \A j \in 1 .. ctr[t] : slot'[t][j] = slot[t][j]
  BY <1>a, <1>b
<1>1. Types'
  <2>1. slot' \in [Tracers -> [1 .. Slots -> Pointers]]
    BY <1>0, <1>a, <1>b DEF Types
  <2>2. pc' \in [Tracers -> TracerPC]
    BY <1>0 DEF Types, TracerPC
  <2> QED
    BY <1>0, <2>1, <2>2 DEF Types
<1>2. Others(t)
  BY <1>0 DEF Others, Types
<1>3. StackOf(t)'
  BY <1>0, <1>b, <1>c DEF StackOf
<1>4. Cleared(t)'
  BY <1>0, <1>b DEF Cleared
<1>5. Work(t)' = Work(t)
  <2>1. Visiting(t)' = Visiting(t) /\ Roots(t)' = Roots(t)
    BY <1>b DEF Visiting, Roots
  <2> QED
    BY <1>c, <2>1, WorkStays
<1> QED
  BY <1>0, <1>1, <1>2, <1>b, <1>3, <1>4, <1>5, TracerStep DEF TracerOf

\* Taking the child off again changes what is above the counter only.
LEMMA RetractInv ==
    ASSUME MarkAssumption, StackAssumption, MarkInv, NEW t \in Tracers, Retract(t), UNCHANGED bound
    PROVE  MarkInv'
<1> USE DEF Retract, Goto, heap, check
<1>0. Types /\ StackOf(t) /\ Cleared(t)
  BY DEF MarkInv
<1> DEFINE k == ctr[t] + 1
<1>a. ctr[t] \in Nat /\ Slots \in Nat /\ slot[t] \in [1 .. Slots -> Pointers]
  BY <1>0, Registers
<1>b. slot'[t] = [slot[t] EXCEPT ![k] = Null] /\ pc'[t] = "loop"
  BY <1>0 DEF Types
<1>c. \A j \in 1 .. ctr[t] : slot'[t][j] = slot[t][j]
  BY <1>a, <1>b
<1>1. Types'
  <2>1. slot' \in [Tracers -> [1 .. Slots -> Pointers]]
    BY <1>0, <1>a, <1>b DEF Types, Pointers
  <2>2. pc' \in [Tracers -> TracerPC]
    BY <1>0 DEF Types, TracerPC
  <2> QED
    BY <1>0, <2>1, <2>2 DEF Types
<1>2. Others(t)
  BY <1>0 DEF Others, Types
<1>3. StackOf(t)'
  BY <1>0, <1>b, <1>c DEF StackOf
<1>4. Cleared(t)'
  BY <1>0, <1>b DEF Cleared
<1>5. Work(t)' = Work(t)
  <2>1. Visiting(t)' = Visiting(t) /\ Roots(t)' = Roots(t)
    BY <1>b DEF Visiting, Roots
  <2> QED
    BY <1>c, <2>1, WorkStays
<1> QED
  BY <1>1, <1>2, <1>b, <1>3, <1>4, <1>5, TracerStep

\* With an empty stack the low bit of markstack[0] is set and CheckFinish begins.
LEMMA StackEmptyInv ==
    ASSUME MarkAssumption, StackAssumption, MarkInv, NEW t \in Tracers, StackEmpty(t), UNCHANGED bound
    PROVE  MarkInv'
<1> USE DEF StackEmpty, Goto, heap, check
<1>0. Types /\ StackOf(t) /\ Cleared(t)
  BY DEF MarkInv
<1>a. top'[t] = [top[t] EXCEPT !.fin = TRUE] /\ pc'[t] = "readVer" /\ top[t] \in Tops
  BY <1>0 DEF Types
<1>b. top'[t] \in Tops /\ top'[t].fin
  BY <1>a DEF Tops
<1>1. Types'
  <2>1. top' \in [Tracers -> Tops]
    BY <1>0, <1>a, <1>b DEF Types
  <2>2. pc' \in [Tracers -> TracerPC]
    BY <1>0 DEF Types, TracerPC
  <2> QED
    BY <1>0, <2>1, <2>2 DEF Types
<1>2. Others(t)
  BY <1>0 DEF Others, Types
<1>3. StackOf(t)'
  <2>1. ctr[t] <= HelpBound + scan[t].i
    BY <1>0, Registers DEF Tracers
  <2> QED
    BY <1>0, <1>a, <1>b, <2>1 DEF StackOf
<1>4. Cleared(t)'
  BY <1>0, <1>a DEF Cleared
<1>5. Work(t)' = Work(t)
  <2>1. Visiting(t)' = Visiting(t) /\ Roots(t)' = Roots(t)
    BY <1>a DEF Visiting, Roots
  <2> QED
    BY <2>1, WorkStays
<1> QED
  BY <1>1, <1>2, <1>a, <1>3, <1>4, <1>5, TracerStep

\* Where a tracer is in CheckFinish.
Checking == {"readVer", "readTop", "readSlot", "checkSlot", "checkTop", "decide", "rereadTop", "rereadVer"}

\* A step that changes only the stack of t and what t has read in CheckFinish.
OnlyChecks(t) ==
    /\ pc' = [pc EXCEPT ![t] = pc'[t]]
    /\ slot' = [slot EXCEPT ![t] = slot'[t]] /\ ctr' = [ctr EXCEPT ![t] = ctr'[t]]
    /\ scan' = [scan EXCEPT ![t] = scan'[t]]
    /\ seenTop' = [seenTop EXCEPT ![t] = seenTop'[t]] /\ seenVer' = [seenVer EXCEPT ![t] = seenVer'[t]]

\* What CheckFinish keeps of the stack it reads.
Scans == [i : Tracers, j : Nat, ptr : Pointers]

\* What it writes has the right type.
TypedChecks(t) ==
    /\ slot'[t] \in [1 .. Slots -> Pointers] /\ ctr'[t] \in 0 .. Slots - 1
    /\ scan'[t] \in Scans
    /\ seenTop'[t] \in [Tracers -> Tops] /\ seenVer'[t] \in [Tracers -> Nat]

\* CheckFinish reads, and copies what it finds to its own stack: nothing is given up.
LEMMA ScanStep ==
    ASSUME MarkAssumption, StackAssumption, MarkInv, NEW t \in Tracers,
           UNCHANGED <<phase, opened, next, del, word, localVer, top, cur, child, hps, pend, bound>>,
           pc[t] \in Checking, pc'[t] \in Checking \cup {"loop", "reset"},
           OnlyChecks(t), TypedChecks(t),
           localVer[t] = phase => ctr[t] <= ctr'[t] /\ \A j \in 1 .. ctr[t] : slot'[t][j] = slot[t][j],
           \A j \in 1 .. ctr'[t] : slot'[t][j] # Null,
           pc'[t] \in {"rereadTop", "rereadVer", "reset"} => ctr'[t] = 0,
           pc'[t] \in {"readVer", "readTop", "readSlot", "checkSlot", "checkTop"} =>
                ctr'[t] <= HelpBound + scan'[t].i,
           pc'[t] \in {"readSlot", "checkSlot", "checkTop"} => ~ seenTop'[t][scan'[t].i].fin,
           pc'[t] \in {"checkSlot", "checkTop"} => scan'[t].ptr # Null,
           pc'[t] \in {"readSlot", "checkSlot"} => scan'[t].j >= 1,
           pc'[t] \in {"loop", "decide", "reset"} => scan'[t].i = 0,
           \A i \in Tracers : ~ seenTop'[t][i].fin => seenTop'[t][i].n # Null
    PROVE  MarkInv'
<1>0. Types /\ StackOf(t) /\ Cleared(t)
  BY DEF MarkInv
<1>1. Types'
  <2>8. pc'[t] \in TracerPC
    BY DEF TracerPC, Checking
  <2>1. pc' \in [Tracers -> TracerPC]
    BY <1>0, <2>8 DEF Types, OnlyChecks
  <2>2. slot' \in [Tracers -> [1 .. Slots -> Pointers]]
    BY <1>0 DEF Types, OnlyChecks, TypedChecks
  <2>6. ctr' \in [Tracers -> 0 .. Slots - 1]
    BY <1>0 DEF Types, OnlyChecks, TypedChecks
  <2>3. scan' \in [Tracers -> [i : Tracers, j : Nat, ptr : Pointers]]
    BY <1>0 DEF Types, OnlyChecks, TypedChecks, Scans
  <2>4. seenTop' \in [Tracers -> [Tracers -> Tops]]
    BY <1>0 DEF Types, OnlyChecks, TypedChecks
  <2>7. seenVer' \in [Tracers -> [Tracers -> Nat]]
    BY <1>0 DEF Types, OnlyChecks, TypedChecks
  <2>5. /\ bound' \in Bounds /\ phase' \in 0 .. bound'.phases /\ opened' \in {phase', phase' - 1}
        /\ next' \in [Cells -> Pointers] /\ del' \subseteq Nodes
        /\ word' \in [ph : 0 .. phase', marked : SUBSET Nodes] /\ localVer' \in [Tracers -> 0 .. phase']
        /\ top' \in [Tracers -> Tops] /\ cur' \in [Tracers -> Pointers] /\ child' \in [Tracers -> Pointers]
        /\ hps' \in [Tracers -> SUBSET Nodes] /\ pend' = [m \in Mutators |-> pend'[m]]
    BY <1>0 DEF Types
  <2> QED
    BY <2>1, <2>2, <2>3, <2>4, <2>5, <2>6, <2>7 DEF Types
<1>2. Others(t)
  BY <1>0 DEF Others, Types, OnlyChecks
<1>3. StackOf(t)'
  <2>1. pc'[t] \in {"readVer", "readTop", "readSlot", "checkSlot", "checkTop", "rereadTop", "rereadVer"}
        \/ scan'[t].i = 0
    BY DEF Checking
  <2>2. pc'[t] \notin {"idle", "clear", "roots", "publish", "child", "push", "mark"}
    BY DEF Checking
  <2> QED
    BY <1>0, <2>1, <2>2 DEF StackOf
<1>4. Cleared(t)'
  BY <1>0 DEF Cleared, Checking
<1>5. Work(t) \subseteq Work(t)'
  <2>1. localVer[t] = phase => OnStack(t) \subseteq OnStack(t)'
    <3>1. ctr[t] \in Nat /\ (localVer[t] = phase => ctr'[t] \in Nat)
      BY <1>0, <1>1, Registers DEF Types, StackAssumption
    <3> QED
      BY <3>1 DEF OnStack
  <2>2. Visiting(t) = {} /\ Roots(t) = {}
    BY DEF Visiting, Roots, Checking
  <2> QED
    BY <2>1, <2>2 DEF Work
<1>6. pc'[t] \notin {"clear", "roots", "push", "mark"}
  BY DEF Checking
<1> QED
  BY <1>1, <1>2, <1>3, <1>4, <1>5, <1>6, TracerStep

\* One part of it written.
LEMMA ScanParts ==
    ASSUME NEW s \in Scans
    PROVE  /\ \A k \in Nat : LET r == [s EXCEPT !.j = k] IN
                r \in Scans /\ r.i = s.i /\ r.j = k /\ r.ptr = s.ptr
           /\ \A p \in Pointers : LET r == [s EXCEPT !.ptr = p] IN
                r \in Scans /\ r.i = s.i /\ r.j = s.j /\ r.ptr = p
<1>1. PICK a \in Tracers, b \in Nat, c \in Pointers : s = [i |-> a, j |-> b, ptr |-> c]
  BY DEF Scans
<1> QED
  BY <1>1 DEF Scans

\* CheckFinish reads the phase of the next thread.
LEMMA ReadVerInv ==
    ASSUME MarkAssumption, StackAssumption, MarkInv, NEW t \in Tracers, ReadVer(t), UNCHANGED bound
    PROVE  MarkInv'
<1> USE DEF ReadVer, Goto, heap, stack
<1>0. Types /\ StackOf(t)
  BY DEF MarkInv
<1>1. pc[t] \in Checking /\ pc'[t] = "readTop"
  BY <1>0 DEF Types, Checking
<1>2. OnlyChecks(t)
  BY <1>0 DEF OnlyChecks, Types
<1>3. TypedChecks(t)
  <2>1. localVer[scan[t].i] \in Nat
    BY <1>0, Registers
  <2>2. seenVer'[t] \in [Tracers -> Nat]
    BY <1>0, <2>1 DEF Types
  <2> QED
    BY <1>0, <2>2 DEF TypedChecks, Types, Scans
<1>4. ctr[t] \in Nat
  BY <1>0, Registers
<1> QED
  BY <1>0, <1>1, <1>2, <1>3, <1>4, ScanStep DEF StackOf, Checking

\* To the next thread, or to the end of the round.
LEMMA NextThreadStep ==
    ASSUME MarkAssumption, StackAssumption, Types, NEW t \in Tracers, NEW loop, NEW then,
           NextThread(t, loop, then)
    PROVE  /\ pc' = [pc EXCEPT ![t] = pc'[t]] /\ scan' = [scan EXCEPT ![t] = scan'[t]]
           /\ scan'[t] \in Scans
           /\ \/ pc'[t] = loop /\ scan'[t].i = scan[t].i + 1
              \/ pc'[t] = then /\ scan'[t].i = 0
<1>1. scan[t].i \in Tracers /\ NumTracers \in Nat /\ 0 \in Tracers
  BY Registers
<1>2. CASE scan[t].i + 1 < NumTracers
  <2>1. scan[t].i + 1 \in Tracers
    BY <1>1, <1>2 DEF Tracers
  <2>2. [NoScan EXCEPT !.i = scan[t].i + 1] = [i |-> scan[t].i + 1, j |-> 0, ptr |-> Null]
    BY DEF NoScan
  <2>3. scan' = [scan EXCEPT ![t] = [i |-> scan[t].i + 1, j |-> 0, ptr |-> Null]] /\ pc' = [pc EXCEPT ![t] = loop]
    BY <1>2, <2>2 DEF NextThread, Goto
  <2> QED
    BY <2>1, <2>3 DEF Types, Pointers, Scans
<1>3. CASE ~ (scan[t].i + 1 < NumTracers)
  <2>1. scan' = [scan EXCEPT ![t] = NoScan] /\ pc' = [pc EXCEPT ![t] = then]
    BY <1>3 DEF NextThread, Goto
  <2> QED
    BY <1>1, <2>1 DEF Types, Pointers, NoScan, Scans
<1> QED
  BY <1>2, <1>3

\* It reads markstack[0] of that thread, which is not NULL unless its low bit is set.
LEMMA ReadTopInv ==
    ASSUME MarkAssumption, StackAssumption, MarkInv, NEW t \in Tracers, ReadTop(t), UNCHANGED bound
    PROVE  MarkInv'
<1> DEFINE i == scan[t].i
<1> USE DEF ReadTop, heap, stack
<1>0. Types /\ StackOf(t) /\ StackOf(i)
  BY Registers DEF MarkInv
<1>a. i \in Tracers /\ ctr[t] \in Nat /\ top[i] \in Tops /\ HelpBound \in Nat /\ ctr[t] <= HelpBound + i
  BY <1>0, Registers DEF StackOf
<1>b. seenTop'[t] = [seenTop[t] EXCEPT ![i] = top[i]]
  BY <1>0 DEF Types
<1>c. seenTop'[t] \in [Tracers -> Tops] /\ seenTop'[t][i] = top[i]
      /\ \A k \in Tracers : ~ seenTop'[t][k].fin => seenTop'[t][k].n # Null
  BY <1>0, <1>a, <1>b DEF Types, StackOf
<1>d. slot'[t] = slot[t] /\ ctr'[t] = ctr[t] /\ pc[t] \in Checking
      /\ (\A k \in 1 .. ctr[t] : slot[t][k] # Null)
  BY <1>0 DEF StackOf, Checking
<1>e. /\ slot' = [slot EXCEPT ![t] = slot'[t]] /\ ctr' = [ctr EXCEPT ![t] = ctr'[t]]
      /\ seenTop' = [seenTop EXCEPT ![t] = seenTop'[t]] /\ seenVer' = [seenVer EXCEPT ![t] = seenVer'[t]]
  BY <1>0, <1>b DEF Types
<1>f. slot'[t] \in [1 .. Slots -> Pointers] /\ ctr'[t] \in 0 .. Slots - 1 /\ seenVer'[t] \in [Tracers -> Nat]
  BY <1>0 DEF Types
<1>1. CASE NextThread(t, "readVer", "decide")
  <2>1. /\ pc' = [pc EXCEPT ![t] = pc'[t]] /\ scan' = [scan EXCEPT ![t] = scan'[t]] /\ scan'[t] \in Scans
        /\ \/ pc'[t] = "readVer" /\ scan'[t].i = i + 1
           \/ pc'[t] = "decide" /\ scan'[t].i = 0
    BY <1>0, <1>1, NextThreadStep
  <2>2. OnlyChecks(t) /\ TypedChecks(t)
    BY <1>c, <1>e, <1>f, <2>1 DEF OnlyChecks, TypedChecks
  <2>3. pc'[t] \in Checking /\ (pc'[t] = "readVer" => ctr[t] <= HelpBound + (i + 1))
    BY <1>a, <2>1 DEF Checking, Tracers
  <2> QED
    BY <1>c, <1>d, <1>a, <2>1, <2>2, <2>3, ScanStep
<1>2. CASE ~ top[i].fin /\ scan' = [scan EXCEPT ![t].j = 1] /\ Goto(t, "readSlot")
  <2>1. /\ scan'[t] = [scan[t] EXCEPT !.j = 1] /\ pc'[t] = "readSlot" /\ scan[t] \in Scans
        /\ pc' = [pc EXCEPT ![t] = pc'[t]] /\ scan' = [scan EXCEPT ![t] = scan'[t]]
    BY <1>0, <1>2 DEF Types, Goto, Scans
  <2>2. scan'[t] \in Scans /\ scan'[t].i = i /\ scan'[t].j >= 1
    BY <2>1, ScanParts
  <2>3. OnlyChecks(t) /\ TypedChecks(t)
    BY <1>c, <1>e, <1>f, <2>1, <2>2 DEF OnlyChecks, TypedChecks
  <2>4. pc'[t] \in Checking
    BY <2>1 DEF Checking
  <2> QED
    BY <1>2, <1>c, <1>d, <1>a, <2>1, <2>2, <2>3, <2>4, ScanStep
<1> QED
  BY <1>1, <1>2

\* It reads an entry of that thread's stack, or falls back to what it read of markstack[0].
LEMMA ReadSlotInv ==
    ASSUME MarkAssumption, StackAssumption, MarkInv, NEW t \in Tracers, ReadSlot(t), UNCHANGED bound
    PROVE  MarkInv'
<1> DEFINE i == scan[t].i
           j == scan[t].j
           p == IF j <= Slots THEN slot[i][j] ELSE Null
<1> USE DEF ReadSlot, Goto, heap, stack
<1>0. Types /\ StackOf(t)
  BY DEF MarkInv
<1>a. i \in Tracers /\ ctr[t] \in Nat /\ ~ seenTop[t][i].fin /\ seenTop[t][i].n # Null
      /\ seenTop[t][i] \in Tops /\ ctr[t] <= HelpBound + i
  BY <1>0, Registers DEF StackOf
<1>b. \/ scan' = [scan EXCEPT ![t].ptr = seenTop[t][i].n] /\ pc' = [pc EXCEPT ![t] = "checkTop"]
      \/ p # Null /\ scan' = [scan EXCEPT ![t].ptr = p] /\ pc' = [pc EXCEPT ![t] = "checkSlot"]
  OBVIOUS
<1>c. p \in Pointers /\ seenTop[t][i].n \in Pointers /\ scan[t] \in Scans
  <2>1. j \in Nat /\ j <= Slots /\ j >= 1 => slot[i][j] \in Pointers
    BY <1>0, <1>a, Registers
  <2>2. j \in Nat /\ j >= 1
    BY <1>0, Registers DEF StackOf
  <2> QED
    BY <1>0, <1>a, <2>1, <2>2 DEF Tops, Types, Pointers, Scans
<1>1. PICK q \in Pointers :
        q # Null /\ scan'[t] = [scan[t] EXCEPT !.ptr = q] /\ scan' = [scan EXCEPT ![t] = scan'[t]]
  BY <1>0, <1>a, <1>b, <1>c DEF Types
<1>3. scan'[t] \in Scans /\ scan'[t].i = i /\ scan'[t].j = j /\ scan'[t].ptr # Null
  BY <1>1, <1>c, ScanParts
<1>4. OnlyChecks(t)
  BY <1>0, <1>1, <1>b DEF OnlyChecks, Types
<1>5. TypedChecks(t)
  BY <1>0, <1>3 DEF TypedChecks, Types
<1>6. pc'[t] \in {"checkTop", "checkSlot"} /\ pc[t] = "readSlot"
  BY <1>0, <1>b DEF Types
<1> QED
  BY <1>0, <1>a, <1>3, <1>4, <1>5, <1>6, ScanStep DEF StackOf, Checking

\* Copying an entry puts it on top of the stack, or nothing happens to it.
LEMMA CopyStep ==
    ASSUME MarkAssumption, StackAssumption, Types, NEW t \in Tracers, StackOf(t), NEW p \in Pointers, p # Null,
           (Copy(t, p) /\ ctr[t] < Slots - 1) \/ UNCHANGED <<ctr, slot>>
    PROVE  /\ slot' = [slot EXCEPT ![t] = slot'[t]] /\ ctr' = [ctr EXCEPT ![t] = ctr'[t]]
           /\ slot'[t] \in [1 .. Slots -> Pointers] /\ ctr'[t] \in 0 .. Slots - 1
           /\ ctr[t] <= ctr'[t]
           /\ ctr'[t] = ctr[t] \/ (Copy(t, p) /\ ctr'[t] = ctr[t] + 1)
           /\ \A j \in 1 .. ctr[t] : slot'[t][j] = slot[t][j]
           /\ \A j \in 1 .. ctr'[t] : slot'[t][j] # Null
<1>0. ctr[t] \in Nat /\ ctr[t] <= Slots - 1 /\ Slots \in Nat /\ slot[t] \in [1 .. Slots -> Pointers]
  BY Registers
<1>1. CASE UNCHANGED <<ctr, slot>>
  BY <1>0, <1>1 DEF Types, StackOf
<1>2. CASE Copy(t, p) /\ ctr[t] < Slots - 1
  <2>1. slot'[t] = [slot[t] EXCEPT ![ctr[t] + 1] = p] /\ ctr'[t] = ctr[t] + 1
    BY <1>2 DEF Copy, Types
  <2>2. slot' = [slot EXCEPT ![t] = slot'[t]] /\ ctr' = [ctr EXCEPT ![t] = ctr'[t]]
    BY <1>2, <2>1 DEF Copy, Types
  <2>3. ctr[t] + 1 \in 1 .. Slots - 1
    BY <1>0, <1>2
  <2>4. slot'[t] \in [1 .. Slots -> Pointers] /\ ctr'[t] \in 0 .. Slots - 1
    BY <1>0, <2>1, <2>3
  <2>5. \A j \in 1 .. ctr[t] : slot'[t][j] = slot[t][j]
    BY <1>0, <2>1, <2>3
  <2>6. \A j \in 1 .. ctr'[t] : slot'[t][j] # Null
    BY <1>0, <2>1, <2>3, <2>5 DEF StackOf
  <2> QED
    BY <1>0, <1>2, <2>1, <2>2, <2>4, <2>5, <2>6
<1> QED
  BY <1>1, <1>2

\* An unmarked entry is copied below the bound of CheckFinish, so it fits.
LEMMA CheckSlotInv ==
    ASSUME MarkAssumption, StackAssumption, MarkInv, NEW t \in Tracers, CheckSlot(t), UNCHANGED bound
    PROVE  MarkInv'
<1> DEFINE i == scan[t].i
           p == scan[t].ptr
<1> USE DEF CheckSlot, Goto, heap
<1>0. Types /\ StackOf(t)
  BY DEF MarkInv
<1>a. /\ i \in Tracers /\ ctr[t] \in Nat /\ p \in Pointers /\ p # Null /\ Slots \in Nat
      /\ ~ seenTop[t][i].fin /\ ctr[t] <= HelpBound + i /\ scan[t] \in Scans /\ scan[t].j \in Nat
      /\ HelpBound \in Nat /\ NumTracers \in Nat /\ HelpBound + NumTracers < Slots
      /\ \A k \in Tracers : ~ seenTop[t][k].fin => seenTop[t][k].n # Null
  BY <1>0, Registers DEF StackOf, Types, Scans
<1>b. (Copy(t, p) /\ ctr[t] < HelpBound) \/ UNCHANGED <<ctr, slot>>
  OBVIOUS
<1>c. (Copy(t, p) /\ ctr[t] < Slots - 1) \/ UNCHANGED <<ctr, slot>>
  BY <1>a, <1>b
<1>1. /\ slot' = [slot EXCEPT ![t] = slot'[t]] /\ ctr' = [ctr EXCEPT ![t] = ctr'[t]]
      /\ slot'[t] \in [1 .. Slots -> Pointers] /\ ctr'[t] \in 0 .. Slots - 1 /\ ctr[t] <= ctr'[t]
      /\ \A k \in 1 .. ctr[t] : slot'[t][k] = slot[t][k]
      /\ \A k \in 1 .. ctr'[t] : slot'[t][k] # Null
  BY <1>0, <1>a, <1>c, CopyStep
<1>2. ctr'[t] <= HelpBound + i
  <2>1. CASE UNCHANGED <<ctr, slot>>
    BY <1>a, <2>1
  <2>2. CASE Copy(t, p) /\ ctr[t] < HelpBound
    <3>1. ctr'[t] = ctr[t] + 1
      BY <1>0, <2>2 DEF Copy, Types
    <3> QED
      BY <1>a, <2>2, <3>1 DEF Tracers
  <2> QED
    BY <1>b, <2>1, <2>2
<1>3. scan'[t] = [scan[t] EXCEPT !.j = scan[t].j + 1] /\ scan' = [scan EXCEPT ![t] = scan'[t]]
  BY <1>0 DEF Types
<1>d. PICK k \in Nat : k = scan[t].j + 1 /\ k >= 1
  BY <1>a
<1>e. PICK r \in Scans : r = [scan[t] EXCEPT !.j = k] /\ r.i = scan[t].i /\ r.j = k
  <2> HIDE DEF CheckSlot
  <2>1. scan[t] \in Scans /\ k \in Nat
    BY <1>a, <1>d
  <2>2. LET r == [scan[t] EXCEPT !.j = k] IN r \in Scans /\ r.i = scan[t].i /\ r.j = k
    BY <2>1, ScanParts
  <2> QED
    BY <2>2
<1>f. scan'[t] = r
  BY <1>e, <1>d, <1>3
<1>4. scan'[t] \in Scans /\ scan'[t].i = i /\ scan'[t].j >= 1
  BY <1>e, <1>d, <1>f
<1>5. pc'[t] = "readSlot" /\ pc' = [pc EXCEPT ![t] = pc'[t]] /\ pc[t] = "checkSlot"
  BY <1>0 DEF Types
<1>6. OnlyChecks(t)
  BY <1>0, <1>1, <1>3, <1>5 DEF OnlyChecks, Types
<1>7. TypedChecks(t)
  BY <1>0, <1>1, <1>4 DEF TypedChecks, Types
<1>8. pc[t] \in Checking /\ pc'[t] \in Checking
  BY <1>5 DEF Checking
<1> QED
  BY <1>1, <1>2, <1>4, <1>a, <1>5, <1>6, <1>7, <1>8, ScanStep

\* markstack[0] is copied whatever the counter: one entry more for every thread read.
LEMMA CheckTopInv ==
    ASSUME MarkAssumption, StackAssumption, MarkInv, NEW t \in Tracers, CheckTop(t), UNCHANGED bound
    PROVE  MarkInv'
<1> DEFINE i == scan[t].i
           p == scan[t].ptr
<1> USE DEF CheckTop, heap
<1>0. Types /\ StackOf(t)
  BY DEF MarkInv
<1>a. /\ i \in Tracers /\ ctr[t] \in Nat /\ p \in Pointers /\ p # Null /\ Slots \in Nat
      /\ ctr[t] <= HelpBound + i
      /\ HelpBound \in Nat /\ NumTracers \in Nat /\ HelpBound + NumTracers < Slots
      /\ \A k \in Tracers : ~ seenTop[t][k].fin => seenTop[t][k].n # Null
  BY <1>0, Registers DEF StackOf, Types
<1>b. ctr[t] < Slots - 1
  BY <1>a DEF Tracers
<1>c. (Copy(t, p) /\ ctr[t] < Slots - 1) \/ UNCHANGED <<ctr, slot>>
  BY <1>b
<1>1. /\ slot' = [slot EXCEPT ![t] = slot'[t]] /\ ctr' = [ctr EXCEPT ![t] = ctr'[t]]
      /\ slot'[t] \in [1 .. Slots -> Pointers] /\ ctr'[t] \in 0 .. Slots - 1 /\ ctr[t] <= ctr'[t]
      /\ ctr'[t] \in {ctr[t], ctr[t] + 1}
      /\ \A k \in 1 .. ctr[t] : slot'[t][k] = slot[t][k]
      /\ \A k \in 1 .. ctr'[t] : slot'[t][k] # Null
  BY <1>0, <1>a, <1>c, CopyStep
<1>2. /\ pc' = [pc EXCEPT ![t] = pc'[t]] /\ scan' = [scan EXCEPT ![t] = scan'[t]] /\ scan'[t] \in Scans
      /\ \/ pc'[t] = "readVer" /\ scan'[t].i = i + 1
         \/ pc'[t] = "decide" /\ scan'[t].i = 0
  BY <1>0, NextThreadStep
<1>3. ASSUME pc'[t] = "readVer" PROVE ctr'[t] <= HelpBound + scan'[t].i
  <2>1. i \in Nat /\ scan'[t].i = i + 1
    BY <1>a, <1>2, <1>3 DEF Tracers
  <2>2. ctr'[t] \in Nat /\ ctr'[t] <= ctr[t] + 1
    BY <1>a, <1>1
  <2>3. ctr'[t] <= HelpBound + (i + 1)
    BY <1>a, <2>1, <2>2
  <2> QED
    BY <2>1, <2>3
<1>6. OnlyChecks(t)
  BY <1>0, <1>1, <1>2 DEF OnlyChecks, Types
<1>7. TypedChecks(t)
  BY <1>0, <1>1, <1>2 DEF TypedChecks, Types
<1>8. pc[t] \in Checking /\ pc'[t] \in Checking
  BY <1>2 DEF Checking
<1> QED
  BY <1>1, <1>2, <1>3, <1>a, <1>6, <1>7, <1>8, ScanStep

\* What CheckFinish has read is not used any more.
LEMMA LeaveStep ==
    ASSUME MarkAssumption, StackAssumption, Types, NEW t \in Tracers, NEW l, Leave(t, l)
    PROVE  /\ pc' = [pc EXCEPT ![t] = pc'[t]] /\ pc'[t] = l
           /\ scan' = [scan EXCEPT ![t] = scan'[t]] /\ scan'[t] \in Scans /\ scan'[t].i = 0
           /\ seenTop' = [seenTop EXCEPT ![t] = seenTop'[t]] /\ seenVer' = [seenVer EXCEPT ![t] = seenVer'[t]]
           /\ seenTop'[t] \in [Tracers -> Tops] /\ seenVer'[t] \in [Tracers -> Nat]
           /\ \A i \in Tracers : seenTop'[t][i].fin
<1>1. 0 \in Tracers
  BY Registers
<1>2. scan' = [scan EXCEPT ![t] = scan'[t]] /\ scan'[t] = NoScan /\ NoScan \in Scans /\ NoScan.i = 0
  BY <1>1 DEF Types, Leave, NoScan, Scans, Pointers
<1>3. seenTop' = [seenTop EXCEPT ![t] = seenTop'[t]] /\ seenTop'[t] = [i \in Tracers |-> NoTop]
      /\ NoTop \in Tops /\ NoTop.fin
  BY DEF Types, Leave, NoTop, Tops, Pointers
<1>4. seenVer' = [seenVer EXCEPT ![t] = seenVer'[t]] /\ seenVer'[t] = [i \in Tracers |-> 0]
  BY DEF Types, Leave
<1>5. pc' = [pc EXCEPT ![t] = pc'[t]] /\ pc'[t] = l
  BY DEF Types, Leave, Goto
<1> QED
  BY <1>2, <1>3, <1>4, <1>5

\* After the round: back to work with what was copied, to the second reading with nothing,
\* or out of a phase that is over, whose work counts no more.
LEMMA DecideInv ==
    ASSUME MarkAssumption, StackAssumption, MarkInv, NEW t \in Tracers, Decide(t), UNCHANGED bound
    PROVE  MarkInv'
<1> USE DEF Decide, heap, check
<1>0. Types /\ StackOf(t) /\ pc[t] \in Checking
  BY DEF MarkInv, Checking
<1>a. /\ ctr[t] \in Nat /\ Slots \in Nat /\ slot[t] \in [1 .. Slots -> Pointers] /\ ctr[t] <= Slots - 1
      /\ scan[t].i = 0 /\ (\A k \in 1 .. ctr[t] : slot[t][k] # Null)
      /\ \A k \in Tracers : ~ seenTop[t][k].fin => seenTop[t][k].n # Null
  BY <1>0, Registers DEF StackOf, Types
<1>b. /\ scan[t] \in Scans /\ seenTop[t] \in [Tracers -> Tops] /\ seenVer[t] \in [Tracers -> Nat]
      /\ slot = [slot EXCEPT ![t] = slot[t]] /\ ctr = [ctr EXCEPT ![t] = ctr[t]]
      /\ scan = [scan EXCEPT ![t] = scan[t]] /\ seenTop = [seenTop EXCEPT ![t] = seenTop[t]]
      /\ seenVer = [seenVer EXCEPT ![t] = seenVer[t]]
  BY <1>0 DEF Types, Scans
<1>1. CASE ctr[t] = 0
  <2>1. UNCHANGED <<slot, ctr, scan, seenTop, seenVer>> /\ pc'[t] = "rereadTop" /\ pc' = [pc EXCEPT ![t] = pc'[t]]
    BY <1>0, <1>1 DEF Goto, Types
  <2>2. OnlyChecks(t)
    BY <1>b, <2>1 DEF OnlyChecks
  <2>3. TypedChecks(t)
    BY <1>a, <1>b, <1>1, <2>1 DEF TypedChecks
  <2> QED
    BY <1>0, <1>a, <1>1, <2>1, <2>2, <2>3, ScanStep DEF Checking
<1>2. CASE ctr[t] # 0 /\ localVer[t] = phase
  <2>1. UNCHANGED <<slot, ctr>> /\ Leave(t, "loop")
    BY <1>2
  <2>2. OnlyChecks(t) /\ pc'[t] = "loop"
    BY <1>0, <1>b, <2>1, LeaveStep DEF OnlyChecks
  <2>3. TypedChecks(t) /\ scan'[t].i = 0 /\ \A i \in Tracers : seenTop'[t][i].fin
    BY <1>0, <1>a, <1>b, <2>1, LeaveStep DEF TypedChecks
  <2> QED
    BY <1>0, <1>a, <2>1, <2>2, <2>3, ScanStep
<1>3. CASE ctr[t] # 0 /\ localVer[t] # phase
  <2>1. Leave(t, "reset") /\ slot' = [slot EXCEPT ![t] = Emptied(@)] /\ ctr' = [ctr EXCEPT ![t] = 0]
    BY <1>3
  <2>2. slot'[t] = Emptied(slot[t]) /\ slot' = [slot EXCEPT ![t] = slot'[t]]
        /\ ctr'[t] = 0 /\ ctr' = [ctr EXCEPT ![t] = ctr'[t]]
    BY <1>0, <2>1 DEF Types
  <2>3. Emptied(slot[t]) \in [1 .. Slots -> Pointers]
    BY <1>a DEF Emptied, Pointers
  <2>4. OnlyChecks(t) /\ pc'[t] = "reset"
    BY <1>0, <2>1, <2>2, LeaveStep DEF OnlyChecks
  <2>5. TypedChecks(t) /\ scan'[t].i = 0 /\ \A i \in Tracers : seenTop'[t][i].fin
    BY <1>0, <1>a, <2>1, <2>2, <2>3, LeaveStep DEF TypedChecks
  <2> QED
    BY <1>0, <1>3, <2>2, <2>4, <2>5, ScanStep
<1> QED
  BY <1>1, <1>2, <1>3

\* The second reading leaves the stack, which is empty, alone.
LEMMA RereadStep ==
    ASSUME MarkAssumption, StackAssumption, MarkInv, NEW t \in Tracers,
           UNCHANGED <<phase, opened, heap, word, localVer, stack, cur, child, hps, pend, bound>>,
           pc[t] \in {"rereadTop", "rereadVer"},
           \/ Leave(t, "readVer") \/ Leave(t, "reset")
           \/ Goto(t, "rereadVer") /\ UNCHANGED check
           \/ NextThread(t, "rereadTop", "reset") /\ UNCHANGED <<seenTop, seenVer>>
    PROVE  MarkInv'
<1> USE DEF heap, check, stack
<1>0. Types /\ StackOf(t) /\ pc[t] \in Checking
  BY DEF MarkInv, Checking
<1>a. /\ ctr[t] = 0 /\ slot[t] \in [1 .. Slots -> Pointers] /\ ctr[t] \in 0 .. Slots - 1 /\ HelpBound \in Nat
      /\ \A k \in Tracers : ~ seenTop[t][k].fin => seenTop[t][k].n # Null
  BY <1>0, Registers DEF StackOf, Types
<1>b. /\ scan[t] \in Scans /\ seenTop[t] \in [Tracers -> Tops] /\ seenVer[t] \in [Tracers -> Nat]
      /\ slot = [slot EXCEPT ![t] = slot[t]] /\ ctr = [ctr EXCEPT ![t] = ctr[t]]
      /\ scan = [scan EXCEPT ![t] = scan[t]] /\ seenTop = [seenTop EXCEPT ![t] = seenTop[t]]
      /\ seenVer = [seenVer EXCEPT ![t] = seenVer[t]]
  BY <1>0 DEF Types, Scans
<1>1. ASSUME NEW l \in {"readVer", "reset"}, Leave(t, l) PROVE MarkInv'
  <2>1. OnlyChecks(t) /\ pc'[t] = l /\ scan'[t].i = 0 /\ \A i \in Tracers : seenTop'[t][i].fin
    BY <1>0, <1>b, <1>1, LeaveStep DEF OnlyChecks
  <2>2. TypedChecks(t)
    BY <1>0, <1>a, <1>b, <1>1, LeaveStep DEF TypedChecks
  <2>3. pc'[t] \in Checking \cup {"loop", "reset"} /\ ctr'[t] = 0
    BY <1>a, <2>1 DEF Checking
  <2> QED
    BY <1>0, <1>a, <1>1, <2>1, <2>2, <2>3, ScanStep
<1>2. CASE Goto(t, "rereadVer") /\ UNCHANGED check
  <2>1. pc'[t] = "rereadVer" /\ pc' = [pc EXCEPT ![t] = pc'[t]] /\ pc'[t] \in Checking
    BY <1>0, <1>2 DEF Goto, Types, Checking
  <2>2. OnlyChecks(t)
    BY <1>2, <1>b, <2>1 DEF OnlyChecks
  <2>3. TypedChecks(t)
    BY <1>2, <1>a, <1>b DEF TypedChecks
  <2> QED
    BY <1>0, <1>2, <1>a, <2>1, <2>2, <2>3, ScanStep
<1>3. CASE NextThread(t, "rereadTop", "reset") /\ UNCHANGED <<seenTop, seenVer>>
  <2>1. /\ pc' = [pc EXCEPT ![t] = pc'[t]] /\ scan' = [scan EXCEPT ![t] = scan'[t]] /\ scan'[t] \in Scans
        /\ pc'[t] = "rereadTop" \/ (pc'[t] = "reset" /\ scan'[t].i = 0)
    BY <1>0, <1>3, NextThreadStep
  <2>2. OnlyChecks(t)
    BY <1>3, <1>b, <2>1 DEF OnlyChecks
  <2>3. TypedChecks(t)
    BY <1>3, <1>a, <1>b, <2>1 DEF TypedChecks
  <2>4. pc'[t] \in Checking \cup {"reset"}
    BY <2>1 DEF Checking
  <2> QED
    BY <1>0, <1>3, <1>a, <2>1, <2>2, <2>3, <2>4, ScanStep
<1> QED
  BY <1>1, <1>2, <1>3

\* The second reading of markstack[0].
LEMMA RereadTopInv ==
    ASSUME MarkAssumption, StackAssumption, MarkInv, NEW t \in Tracers, RereadTop(t), UNCHANGED bound
    PROVE  MarkInv'
  BY RereadStep DEF RereadTop

\* The second reading of localVer.
LEMMA RereadVerInv ==
    ASSUME MarkAssumption, StackAssumption, MarkInv, NEW t \in Tracers, RereadVer(t), UNCHANGED bound
    PROVE  MarkInv'
<1>1. Leave(t, "readVer") \/ Leave(t, "reset")
      \/ (NextThread(t, "rereadTop", "reset") /\ UNCHANGED <<seenTop, seenVer>>)
  BY DEF RereadVer
<1> QED
  BY <1>1, RereadStep DEF RereadVer

\* Marking: the object's successor is on the tracer's stack, or it was marked by another
\* tracer of the phase, or the word is of a later phase and nothing is marked.
LEMMA MarkCurInv ==
    ASSUME MarkAssumption, StackAssumption, MarkInv, NEW t \in Tracers, MarkCur(t), UNCHANGED bound
    PROVE  MarkInv'
<1> USE DEF MarkCur, Goto, Forget, heap, check
<1>0. Types /\ StackOf(t) /\ Cleared(t) /\ TracerOf(t)
  BY DEF MarkInv
<1>a. /\ ctr[t] \in Nat /\ Slots \in Nat /\ ctr[t] < Slots - 1 /\ cur[t] \in Nodes /\ child[t] \in Pointers
      /\ (child[t] # Null => slot[t][ctr[t] + 1] = child[t])
      /\ (\A j \in 1 .. ctr[t] : slot[t][j] # Null) /\ word.ph \in Nat
  BY <1>0, Registers DEF StackOf, Pointers
<1>b. /\ pc'[t] \in {"loop", "retract"} /\ cur'[t] = Null /\ child'[t] = Null
      /\ cur' = [cur EXCEPT ![t] = Null] /\ child' = [child EXCEPT ![t] = Null]
      /\ pc' = [pc EXCEPT ![t] = pc'[t]]
  BY <1>0 DEF Types
<1>c. /\ cur' \in [Tracers -> Pointers] /\ child' \in [Tracers -> Pointers] /\ pc' \in [Tracers -> TracerPC]
  <2> HIDE DEF MarkCur
  <2>1. Null \in Pointers /\ pc'[t] \in TracerPC
    BY <1>b DEF Pointers, TracerPC
  <2>2. pc' \in [Tracers -> TracerPC]
    BY <1>0, <1>b, <2>1 DEF Types
  <2>3. cur' \in [Tracers -> Pointers]
    BY <1>0, <1>b, <2>1 DEF Types
  <2>4. child' \in [Tracers -> Pointers]
    BY <1>0, <1>b, <2>1 DEF Types
  <2> QED
    BY <2>2, <2>3, <2>4
<1>1. CASE word.ph = localVer[t] /\ ~ Marked(cur[t])
  <2> DEFINE c == IF child[t] = Null THEN ctr[t] ELSE ctr[t] + 1
  <2>0. c \in 0 .. Slots - 1
    BY <1>a
  <2>1. word' = [word EXCEPT !.marked = @ \cup {cur[t]}] /\ ctr' = [ctr EXCEPT ![t] = c] /\ ctr'[t] = c
    <3>1. word' = [word EXCEPT !.marked = @ \cup {cur[t]}] /\ ctr' = [ctr EXCEPT ![t] = c]
      BY <1>1
    <3> QED
      BY <1>0, <3>1 DEF Types
  <2>2. word' \in [ph : 0 .. phase, marked : SUBSET Nodes]
        /\ word'.ph = word.ph /\ word'.marked = word.marked \cup {cur[t]}
    <3>1. PICK w \in [ph : 0 .. phase, marked : SUBSET Nodes] : w = word
      BY <1>0 DEF Types
    <3> QED
      BY <1>a, <2>1, <3>1
  <2>3. Types'
    <3>1. ctr' \in [Tracers -> 0 .. Slots - 1]
      BY <1>0, <2>0, <2>1 DEF Types
    <3> QED
      BY <1>0, <1>c, <2>2, <3>1 DEF Types
  <2>4. Others(t)
    BY <1>0, <1>b, <2>1 DEF Others, Types
  <2>5. \A j \in 1 .. ctr'[t] : slot'[t][j] # Null
    BY <1>a, <2>1
  <2>6. StackOf(t)'
    BY <1>0, <1>b, <2>5 DEF StackOf
  <2>7. Cleared(t)'
    BY <1>0, <2>2 DEF Cleared
  <2>8. Work(t) \subseteq Work(t)' \cup word'.marked
    <3>1. OnStack(t) \subseteq OnStack(t)'
      BY <1>a, <2>1 DEF OnStack
    <3>2. Visiting(t) \subseteq word'.marked /\ Roots(t) = {}
      BY <2>2 DEF Visiting, Roots
    <3> QED
      BY <3>1, <3>2 DEF Work
  <2>9. Marking => \A n \in word'.marked \ word.marked : next[n] \in Known' \cup {Null}
    <3> SUFFICES ASSUME Marking PROVE next[cur[t]] \in Known' \cup {Null}
      BY <2>2
    <3>1. localVer[t] = phase
      BY <1>1 DEF Marking
    <3>2. next[cur[t]] \in Known \cup {child[t], Null}
      BY <1>0, <3>1 DEF TracerOf
    <3>3. child[t] \in Known' \cup {Null}
      <4>1. child[t] # Null => child[t] \in OnStack(t)'
        BY <1>a, <2>1 DEF OnStack
      <4> QED
        BY <3>1, <4>1 DEF Work, Known
    <3>4. Known \subseteq Known'
      <4>1. \A u \in Tracers \ {t} : Work(u)' = Work(u)
        <5> SUFFICES ASSUME NEW u \in Tracers \ {t} PROVE Work(u)' = Work(u)
          OBVIOUS
        <5>1. OnStack(u)' = OnStack(u)
          BY <2>4 DEF OnStack, Others
        <5>2. Visiting(u)' = Visiting(u) /\ Roots(u)' = Roots(u)
          BY <2>4 DEF Others, Visiting, Roots
        <5> QED
          BY <5>1, <5>2 DEF Work
      <4> QED
        BY <2>2, <2>8, <4>1 DEF Known
    <3> QED
      BY <3>2, <3>3, <3>4
  <2> QED
    BY <1>b, <2>2, <2>3, <2>4, <2>6, <2>7, <2>8, <2>9, WorkStep
<1>2. CASE ~ (word.ph = localVer[t] /\ ~ Marked(cur[t]))
  <2>1. UNCHANGED <<word, ctr>>
    BY <1>2
  <2>2. Types'
    BY <1>0, <1>c, <2>1 DEF Types
  <2>3. Others(t)
    BY <1>0, <1>b, <2>1 DEF Others, Types
  <2>4. StackOf(t)'
    BY <1>0, <1>b, <2>1 DEF StackOf
  <2>5. Cleared(t)'
    BY <1>0, <2>1 DEF Cleared
  <2>6. Marking => Work(t) \subseteq Work(t)' \cup word.marked
    <3>1. OnStack(t) = OnStack(t)'
      BY <2>1 DEF OnStack
    <3>2. Visiting(t) = {cur[t]} /\ Roots(t) = {}
      BY DEF Visiting, Roots
    <3>3. Marking /\ localVer[t] = phase => cur[t] \in word.marked
      BY <1>2 DEF Marking, Marked
    <3> QED
      BY <3>1, <3>2, <3>3 DEF Work
  <2> QED
    BY <1>b, <2>1, <2>2, <2>3, <2>4, <2>5, <2>6, TracerStep
<1> QED
  BY <1>1, <1>2

\* Clearing: in a phase of its own the word has no marks, and every tracer of the phase
\* has the roots before it; a tracer that is late changes nothing.
LEMMA ClearMarksInv ==
    ASSUME MarkAssumption, StackAssumption, MarkInv, NEW t \in Tracers, ClearMarks(t), UNCHANGED bound
    PROVE  MarkInv'
<1> USE DEF ClearMarks, Goto, heap, stack, check
<1>0. Types /\ StackOf(t) /\ Cleared(t) /\ TracerOf(t)
  BY DEF MarkInv
<1>a. localVer[t] \in Nat /\ localVer[t] <= phase /\ word.ph \in Nat /\ phase \in Nat /\ word.ph <= phase
  BY <1>0, Registers
<1>b. pc' = [pc EXCEPT ![t] = "roots"] /\ pc'[t] = "roots"
  BY <1>0 DEF Types
<1>c. \/ word' = word /\ word.ph >= localVer[t]
      \/ word' = [ph |-> localVer[t], marked |-> {}] /\ word.ph < localVer[t]
  BY <1>a
<1>d. word'.ph \in Nat /\ word'.ph >= word.ph /\ word'.ph >= localVer[t]
  BY <1>a, <1>c
<1>1. Types'
  <2>1. word' \in [ph : 0 .. phase, marked : SUBSET Nodes]
    BY <1>0, <1>a, <1>c DEF Types
  <2>2. pc' \in [Tracers -> TracerPC]
    BY <1>0, <1>b DEF Types, TracerPC
  <2> QED
    BY <1>0, <2>1, <2>2 DEF Types
<1>2. Others(t)
  BY <1>0, <1>b DEF Others, Types
<1>3. StackOf(t)'
  BY <1>0, <1>b DEF StackOf
<1>4. Cleared(t)'
  BY <1>0, <1>b, <1>d DEF Cleared
<1>5. CASE word' = word
  <2>1. Work(t)' = Work(t)
    <3>1. Visiting(t)' = Visiting(t) /\ Roots(t)' = Roots(t)
      BY <1>b DEF Visiting, Roots
    <3> QED
      BY <3>1, WorkStays
  <2> QED
    BY <1>5, <1>1, <1>2, <1>3, <1>4, <1>b, <2>1, TracerStep
<1>6. CASE word' = [ph |-> localVer[t], marked |-> {}] /\ word.ph < localVer[t]
  <2>1. \A u \in Tracers : StackOf(u)' /\ Cleared(u)'
    BY <1>2, <1>3, <1>4, <1>d, OthersStay
  <2>2. HazardPointers' = HazardPointers /\ Pending'
    BY DEF MarkInv, HazardPointers, Pending
  <2>3. Tricolour'
    <3> SUFFICES ASSUME Marking' PROVE Tricolour'
      BY DEF Tricolour
    <3>1. localVer[t] = phase /\ opened < phase /\ word'.marked = {}
      BY <1>6 DEF Marking
    <3>2. HazardPointers \subseteq hps[t]
      BY <1>0, <3>1 DEF TracerOf
    <3>3. hps[t] \cup ({next[Root]} \ {Null}) \subseteq Work(t)'
      BY <1>b, <3>1 DEF Work, Roots
    <3> QED
      BY <2>2, <3>1, <3>2, <3>3 DEF Tricolour, Known
  <2>4. ASSUME NEW u \in Tracers PROVE TracerOf(u)'
    <3> SUFFICES ASSUME localVer[u] = phase PROVE TracerOf(u)'
      BY DEF TracerOf
    <3>1. TracerOf(u) /\ Cleared(u) /\ localVer[u] \in Nat
      BY <1>0, Registers DEF MarkInv
    <3>2. pc'[u] \notin {"push", "mark"}
      <4>1. CASE u = t
        BY <1>b, <4>1
      <4>2. CASE u # t
        BY <1>2, <1>6, <1>a, <3>1, <4>2 DEF Others, Cleared
      <4> QED
        BY <4>1, <4>2
    <3>3. pc'[u] \in {"clear", "roots"} => pc[u] \in {"clear", "roots"}
      BY <1>2, <1>b DEF Others
    <3> QED
      BY <2>2, <3>1, <3>2, <3>3 DEF TracerOf
  <2> QED
    BY <1>1, <2>1, <2>2, <2>3, <2>4 DEF MarkInv
<1> QED
  BY <1>c, <1>5, <1>6

\* Opening ends marking for the running collection, or is of one that is opened already.
LEMMA OpenInv ==
    ASSUME MarkAssumption, StackAssumption, MarkInv, NEW t \in Tracers, Open(t), UNCHANGED bound
    PROVE  MarkInv'
<1> USE DEF Open, Goto, heap, stack, check
<1>0. Types /\ StackOf(t) /\ Cleared(t) /\ TracerOf(t) /\ Tricolour
  BY DEF MarkInv
<1>a. /\ localVer[t] \in Nat /\ localVer[t] <= phase /\ phase \in Nat /\ opened \in {phase, phase - 1}
  BY <1>0, Registers DEF Types
<1>b. pc' = [pc EXCEPT ![t] = "idle"] /\ pc'[t] = "idle" /\ ctr[t] = 0
  BY <1>0 DEF Types, StackOf
<1>c. opened' = opened \/ opened' = phase
  BY <1>a
<1>1. Types'
  <2>1. pc' \in [Tracers -> TracerPC]
    BY <1>0, <1>b DEF Types, TracerPC
  <2>2. opened' \in {phase', phase' - 1}
    BY <1>a, <1>c
  <2> QED
    BY <1>0, <2>1, <2>2 DEF Types
<1>2. Others(t)
  BY <1>0, <1>b DEF Others, Types
<1>3. StackOf(t)'
  BY <1>0, <1>b DEF StackOf
<1>4. \A u \in Tracers : StackOf(u)' /\ Cleared(u)'
  <2>1. Cleared(t)'
    BY <1>b DEF Cleared
  <2>2. word'.ph >= word.ph /\ word'.ph \in Int
    BY <1>0, Registers
  <2> QED
    BY <1>2, <1>3, <2>1, <2>2, OthersStay
<1>5. HazardPointers' = HazardPointers /\ Pending'
  BY DEF MarkInv, HazardPointers, Pending
<1>6. ASSUME NEW u \in Tracers PROVE Work(u)' = Work(u)
  <2>1. Visiting(u)' = Visiting(u) /\ Roots(u)' = Roots(u)
    BY <1>2, <1>b DEF Visiting, Roots, Others
  <2> QED
    BY <2>1, WorkStays
<1>7. Known' = Known
  BY <1>6 DEF Known
<1>8. ASSUME opened' < phase PROVE opened < phase /\ Marking' = Marking
  BY <1>a, <1>c, <1>8 DEF Marking
<1>9. Tricolour'
  BY <1>0, <1>5, <1>7, <1>8 DEF Tricolour, Marking
<1>10. ASSUME NEW u \in Tracers PROVE TracerOf(u)'
  <2>1. TracerOf(u)
    BY DEF MarkInv
  <2>2. pc'[u] \in {"clear", "roots", "push", "mark"} => pc'[u] = pc[u]
    BY <1>2, <1>b DEF Others
  <2>3. Marking' => Marking
    BY <1>8 DEF Marking
  <2> QED
    BY <2>1, <2>2, <2>3, <1>5, <1>7, <1>8 DEF TracerOf
<1> QED
  BY <1>1, <1>4, <1>5, <1>9, <1>10 DEF MarkInv

\* What PushRoots makes of a stack.
LEMMA StackedFacts ==
    ASSUME NEW s \in [1 .. Slots -> Pointers], Slots \in Nat, NEW k \in Nat, NEW S, S \subseteq Nodes,
           NEW n \in Nat, n = Cardinality(S), k + n <= Slots, NEW g \in Stacked(s, k, S)
    PROVE  /\ g \in [1 .. Slots -> Pointers]
           /\ \A j \in 1 .. k : g[j] = s[j]
           /\ \A j \in k + 1 .. k + n : g[j] \in S
           /\ \A x \in S : \E j \in k + 1 .. k + n : g[j] = x
<1>1. PICK f \in [1 .. n -> S] :
        /\ \A x \in S : \E j \in 1 .. n : f[j] = x
        /\ g = [j \in 1 .. Slots |-> IF j \in k + 1 .. k + n THEN f[j - k] ELSE s[j]]
  BY DEF Stacked
<1>2. ASSUME NEW j \in k + 1 .. k + n PROVE j \in 1 .. Slots /\ j - k \in 1 .. n /\ g[j] = f[j - k]
  BY <1>1, <1>2
<1>3. ASSUME NEW x \in S PROVE \E j \in k + 1 .. k + n : g[j] = x
  <2>1. PICK j \in 1 .. n : f[j] = x
    BY <1>1, <1>3
  <2>2. j + k \in k + 1 .. k + n /\ (j + k) - k = j
    BY <2>1
  <2> QED
    BY <1>2, <2>1, <2>2
<1>4. \A j \in k + 1 .. k + n : g[j] \in S
  BY <1>1, <1>2
<1>5. \A j \in 1 .. Slots : j \notin k + 1 .. k + n => g[j] = s[j]
  BY <1>1
<1>6. \A j \in 1 .. k : g[j] = s[j]
  BY <1>5
<1>7. g \in [1 .. Slots -> Pointers]
  BY <1>1, <1>4, <1>5 DEF Pointers
<1> QED
  BY <1>3, <1>4, <1>6, <1>7

\* The roots and the saved hazard pointers go on the stack, which has room for them.
LEMMA PushRootsInv ==
    ASSUME MarkAssumption, StackAssumption, MarkInv, NEW t \in Tracers, PushRoots(t), UNCHANGED bound
    PROVE  MarkInv'
<1> DEFINE r == {next[Root]} \ {Null}
           s == IF r = {} THEN slot[t] ELSE [slot[t] EXCEPT ![1] = next[Root]]
           k == Cardinality(r)
           n == Cardinality(hps[t])
<1> USE DEF PushRoots, Goto, heap, check
<1>0. Types /\ StackOf(t) /\ Cleared(t) /\ TracerOf(t)
  BY DEF MarkInv
<1>a. /\ slot[t] \in [1 .. Slots -> Pointers] /\ Slots \in Nat /\ hps[t] \subseteq Nodes /\ next[Root] \in Pointers
      /\ IsFiniteSet(hps[t]) /\ n <= 3 * Cardinality(Mutators) /\ ctr[t] = 0 /\ Null \notin Nodes
  BY <1>0, Registers DEF StackOf, Types, Cells, MarkAssumption
<1>b. n \in Nat /\ Cardinality(Mutators) \in Nat
  BY <1>a, FS_CardinalityType DEF StackAssumption
<1>c. (r = {} /\ k = 0) \/ (r = {next[Root]} /\ k = 1 /\ next[Root] # Null)
  <2> HIDE DEF PushRoots
  <2>1. CASE next[Root] = Null
    <3>1. r = {}
      BY <2>1
    <3> QED
      BY <3>1, FS_EmptySet
  <2>2. CASE next[Root] # Null
    <3>1. r = {next[Root]}
      BY <2>2
    <3>2. Cardinality({next[Root]}) = 1
      BY FS_Singleton
    <3> QED
      BY <2>2, <3>1, <3>2
  <2> QED
    BY <2>1, <2>2
<1>d. k \in Nat /\ k + n <= Slots - 1 /\ k + n \in Nat
  BY <1>a, <1>b, <1>c DEF StackAssumption
<1>e. s \in [1 .. Slots -> Pointers] /\ \A j \in 1 .. k : s[j] = next[Root]
  BY <1>a, <1>c, <1>d
<1>f. PICK g \in Stacked(s, k, hps[t]) : slot' = [slot EXCEPT ![t] = g]
  OBVIOUS
<1> HIDE DEF r, s, k, n
<1>g. /\ g \in [1 .. Slots -> Pointers]
      /\ \A j \in 1 .. k : g[j] = s[j]
      /\ \A j \in k + 1 .. k + n : g[j] \in hps[t]
      /\ \A x \in hps[t] : \E j \in k + 1 .. k + n : g[j] = x
  <2> HIDE DEF PushRoots
  <2>1. n = Cardinality(hps[t]) /\ k + n <= Slots
    BY <1>a, <1>d, <1>b DEF n
  <2> QED
    BY <2>1, <1>a, <1>b, <1>d, <1>e, <1>f, StackedFacts
<1>h. /\ slot'[t] = g /\ ctr' = [ctr EXCEPT ![t] = k + n] /\ ctr'[t] = k + n
      /\ hps' = [hps EXCEPT ![t] = {}] /\ hps'[t] = {} /\ pc' = [pc EXCEPT ![t] = "loop"] /\ pc'[t] = "loop"
  BY <1>0, <1>f DEF Types, k, n, r
<1>1. Types'
  <2>1. slot' \in [Tracers -> [1 .. Slots -> Pointers]]
    BY <1>0, <1>f, <1>g DEF Types
  <2>2. ctr' \in [Tracers -> 0 .. Slots - 1]
    BY <1>0, <1>a, <1>d, <1>h DEF Types
  <2>3. hps' \in [Tracers -> SUBSET Nodes]
    BY <1>0, <1>h DEF Types
  <2>4. pc' \in [Tracers -> TracerPC]
    BY <1>0, <1>h DEF Types, TracerPC
  <2> QED
    BY <1>0, <2>1, <2>2, <2>3, <2>4 DEF Types
<1>2. Others(t)
  BY <1>0, <1>f, <1>h DEF Others, Types
<1>3. StackOf(t)'
  <2>1. \A j \in 1 .. ctr'[t] : slot'[t][j] # Null
    <3>1. ASSUME NEW j \in 1 .. k + n PROVE g[j] # Null
      <4>1. CASE j \in 1 .. k
        BY <1>c, <1>e, <1>g, <4>1 DEF k
      <4>2. CASE j \in k + 1 .. k + n
        BY <1>a, <1>g, <4>2
      <4> QED
        BY <1>b, <1>d, <3>1, <4>1, <4>2
    <3> QED
      BY <1>h, <3>1
  <2>2. IsFiniteSet({}) /\ Cardinality({}) = 0
    BY FS_EmptySet
  <2>4. 0 <= 3 * Cardinality(Mutators)
    BY <1>b
  <2>3. IsFiniteSet(hps'[t]) /\ Cardinality(hps'[t]) <= 3 * Cardinality(Mutators)
    BY <1>h, <2>2, <2>4
  <2> QED
    BY <1>0, <1>h, <2>1, <2>3 DEF StackOf
<1>4. Cleared(t)'
  BY <1>0, <1>h DEF Cleared
<1>5. Work(t) \subseteq Work(t)'
  <2>1. hps[t] \subseteq OnStack(t)'
    <3>1. \A j \in k + 1 .. k + n : j \in 1 .. k + n
      BY <1>b, <1>d
    <3> QED
      BY <1>g, <1>h, <3>1 DEF OnStack
  <2>2. r \subseteq OnStack(t)'
    <3>1. CASE r = {}
      BY <3>1
    <3>2. CASE r = {next[Root]} /\ k = 1
      <4> HIDE DEF PushRoots
      <4>1. 1 \in 1 .. k + n /\ g[1] = next[Root]
        BY <3>2, <1>b, <1>e, <1>g
      <4>2. slot'[t][1] \in OnStack(t)'
        BY <4>1, <1>h DEF OnStack
      <4> QED
        BY <3>2, <4>1, <4>2, <1>h
    <3> QED
      BY <1>c, <3>1, <3>2 DEF k
  <2>3. OnStack(t) = {} /\ Visiting(t) = {} /\ Roots(t) = hps[t] \cup r
    BY <1>a DEF OnStack, Visiting, Roots, r
  <2> QED
    BY <2>1, <2>2, <2>3 DEF Work
<1> QED
  BY <1>1, <1>2, <1>3, <1>4, <1>5, <1>h, TracerStep

-----------------------------------------------------------------------------
(* The hazard pointers that a tracer saves.                                *)

\* A function has no more values than arguments.
LEMMA ImageBound ==
    ASSUME NEW f, IsFiniteSet(DOMAIN f)
    PROVE  LET V == {f[x] : x \in DOMAIN f}
           IN  IsFiniteSet(V) /\ Cardinality(V) <= Cardinality(DOMAIN f)
<1> DEFINE V == {f[x] : x \in DOMAIN f}
           g == [x \in DOMAIN f |-> f[x]]
<1>1. g \in Surjection(DOMAIN f, V)
  BY DEF Surjection
<1> QED
  BY <1>1, FS_Surjection

\* Two sets together.
LEMMA UnionBound ==
    ASSUME NEW A, NEW B, IsFiniteSet(A), IsFiniteSet(B)
    PROVE  IsFiniteSet(A \cup B) /\ Cardinality(A \cup B) <= Cardinality(A) + Cardinality(B)
<1>1. IsFiniteSet(A \cap B)
  BY FS_Intersection
<1>2. Cardinality(A) \in Nat /\ Cardinality(B) \in Nat /\ Cardinality(A \cap B) \in Nat
  BY <1>1, FS_CardinalityType
<1>3. IsFiniteSet(A \cup B) /\ Cardinality(A \cup B) = Cardinality(A) + Cardinality(B) - Cardinality(A \cap B)
  BY FS_Union
<1> QED
  BY <1>2, <1>3

\* At most three hazard pointers of every mutator, and they are objects.
LEMMA HazardPointersBound ==
    ASSUME MarkAssumption, StackAssumption, Types, Pending
    PROVE  /\ HazardPointers \subseteq Nodes
           /\ IsFiniteSet(HazardPointers) /\ Cardinality(HazardPointers) <= 3 * Cardinality(Mutators)
<1> DEFINE M == {m \in Mutators : pend[m] # Idle}
           prev == [m \in M |-> pend[m].prev]
           at == [m \in M |-> pend[m].at]
           to == [m \in M |-> pend[m].to]
           P == {prev[m] : m \in DOMAIN prev}
           A == {at[m] : m \in DOMAIN at}
           T == {to[m] : m \in DOMAIN to}
<1>1. IsFiniteSet(Mutators) /\ IsFiniteSet(M) /\ Cardinality(M) <= Cardinality(Mutators)
      /\ Cardinality(Mutators) \in Nat /\ Cardinality(M) \in Nat
  <2>1. M \in SUBSET Mutators
    OBVIOUS
  <2> HIDE DEF M
  <2> QED
    BY <2>1, FS_Subset, FS_CardinalityType DEF StackAssumption
<1>2. HazardPointers \subseteq (P \cup A) \cup T /\ HazardPointers \subseteq Nodes
  <2>1. ASSUME NEW x \in HazardPointers PROVE x \in (P \cup A) \cup T /\ x \in Nodes
    <3>1. PICK m \in Mutators : x \in pend[m].cells /\ x # Root
      BY <2>1 DEF HazardPointers
    <3>0. pend[m] = Idle => pend[m].cells = {}
      BY DEF Idle
    <3>2. m \in M
      BY <3>0, <3>1
    <3>3. x \in {pend[m].prev, pend[m].at, pend[m].to} \ {Null}
      BY <3>1, <3>2 DEF Pending
    <3>4. x \in Nodes
      BY <3>1, <3>2, <3>3 DEF Pending, Cells, Pointers
    <3> QED
      BY <3>2, <3>3, <3>4
  <2> QED
    BY <2>1
<1>3. DOMAIN prev = M /\ DOMAIN at = M /\ DOMAIN to = M
  OBVIOUS
<1> HIDE DEF M, prev, at, to
<1>4. /\ IsFiniteSet(P) /\ Cardinality(P) <= Cardinality(M)
      /\ IsFiniteSet(A) /\ Cardinality(A) <= Cardinality(M)
      /\ IsFiniteSet(T) /\ Cardinality(T) <= Cardinality(M)
  BY <1>1, <1>3, ImageBound
<1> HIDE DEF P, A, T
<1>5. Cardinality(P) \in Nat /\ Cardinality(A) \in Nat /\ Cardinality(T) \in Nat
  BY <1>4, FS_CardinalityType
<1>6. IsFiniteSet(P \cup A) /\ Cardinality(P \cup A) <= Cardinality(P) + Cardinality(A)
      /\ Cardinality(P \cup A) \in Nat
  BY <1>4, UnionBound, FS_CardinalityType
<1>7. IsFiniteSet((P \cup A) \cup T) /\ Cardinality((P \cup A) \cup T) <= Cardinality(P \cup A) + Cardinality(T)
      /\ Cardinality((P \cup A) \cup T) \in Nat
  BY <1>4, <1>6, UnionBound, FS_CardinalityType
<1>8. IsFiniteSet(HazardPointers) /\ Cardinality(HazardPointers) <= Cardinality((P \cup A) \cup T)
      /\ Cardinality(HazardPointers) \in Nat
  BY <1>2, <1>7, FS_Subset, FS_CardinalityType
<1> QED
  BY <1>1, <1>2, <1>4, <1>5, <1>6, <1>7, <1>8

\* Entering a collection: nothing is marked for it yet, and a tracer of it saves the hazard
\* pointers that are there; one that is still behind takes part in none.
LEMMA EnterInv ==
    ASSUME MarkAssumption, StackAssumption, MarkInv, NEW t \in Tracers, Enter(t), UNCHANGED bound
    PROVE  MarkInv'
<1> USE DEF Enter, Goto, heap, stack, check
<1>0. Types /\ StackOf(t) /\ Tricolour /\ Pending
  BY DEF MarkInv
<1>a. /\ localVer[t] \in Nat /\ localVer[t] <= phase /\ phase \in Nat /\ opened \in {phase, phase - 1}
      /\ word.ph \in Nat /\ word.ph <= phase /\ bound.phases \in Nat /\ phase <= bound.phases
  BY <1>0, Registers DEF Types, MarkAssumption
<1>b. /\ HazardPointers \subseteq Nodes
      /\ IsFiniteSet(HazardPointers) /\ Cardinality(HazardPointers) <= 3 * Cardinality(Mutators)
  BY <1>0, HazardPointersBound
<1>c. /\ localVer' = [localVer EXCEPT ![t] = localVer[t] + 1] /\ localVer'[t] = localVer[t] + 1
      /\ \/ phase' = phase + 1 /\ opened = phase /\ localVer[t] = phase /\ phase' <= bound.phases
         \/ phase' = phase /\ localVer[t] < phase
  BY <1>0, <1>a DEF Types
<1>d. \/ /\ phase' = localVer'[t] /\ hps' = [hps EXCEPT ![t] = HazardPointers] /\ pc' = [pc EXCEPT ![t] = "clear"]
         /\ hps'[t] = HazardPointers /\ pc'[t] = "clear"
      \/ hps' = hps /\ pc' = pc /\ phase' # localVer'[t]
  BY <1>0 DEF Types
<1>e. phase' \in Nat /\ phase' >= phase /\ localVer'[t] \in 0 .. phase' /\ phase' <= bound.phases
  BY <1>a, <1>c
<1> HIDE DEF Enter
<1>1. Types'
  <2> USE DEF Enter
  <2>1. \A u \in Tracers : localVer[u] \in 0 .. phase'
    BY <1>0, <1>a, <1>e, Registers
  <2>2. localVer' \in [Tracers -> 0 .. phase']
    BY <1>0, <1>c, <1>e, <2>1 DEF Types
  <2>3. hps' \in [Tracers -> SUBSET Nodes]
    BY <1>0, <1>b, <1>d DEF Types
  <2>4. pc' \in [Tracers -> TracerPC]
    <3> HIDE DEF Enter
    <3>1. "clear" \in TracerPC
      BY DEF TracerPC
    <3> QED
      BY <1>0, <1>d, <3>1 DEF Types
  <2>5. opened' \in {phase', phase' - 1} /\ phase' \in 0 .. bound'.phases
    <3>1. opened' = opened /\ bound' = bound
      OBVIOUS
    <3> HIDE DEF Enter
    <3>2. opened = phase' \/ opened = phase' - 1
      BY <1>a, <1>c
    <3> QED
      BY <1>e, <3>1, <3>2
  <2>6. word' \in [ph : 0 .. phase', marked : SUBSET Nodes]
    <3>1. PICK w \in [ph : 0 .. phase, marked : SUBSET Nodes] : w = word
      BY <1>0 DEF Types
    <3>2. 0 .. phase \subseteq 0 .. phase'
      BY <1>a, <1>e
    <3>3. word' = word
      OBVIOUS
    <3> HIDE DEF Enter
    <3> QED
      BY <3>1, <3>2, <3>3
  <2>7. /\ bound' \in Bounds /\ next' \in [Cells -> Pointers] /\ del' \subseteq Nodes
        /\ slot' \in [Tracers -> [1 .. Slots -> Pointers]] /\ ctr' \in [Tracers -> 0 .. Slots - 1]
        /\ top' \in [Tracers -> Tops] /\ cur' \in [Tracers -> Pointers] /\ child' \in [Tracers -> Pointers]
        /\ scan' \in [Tracers -> [i : Tracers, j : Nat, ptr : Pointers]]
        /\ seenTop' \in [Tracers -> [Tracers -> Tops]] /\ seenVer' \in [Tracers -> [Tracers -> Nat]]
        /\ pend' = [m \in Mutators |-> pend'[m]]
    BY <1>0 DEF Types
  <2> QED
    BY <2>2, <2>3, <2>4, <2>5, <2>6, <2>7 DEF Types
<1>2. Others(t)
  BY <1>0, <1>c, <1>d DEF Others, Types, Enter
<1>3. StackOf(t)'
  <2>1. /\ ctr' = ctr /\ slot' = slot /\ scan' = scan /\ top' = top /\ seenTop' = seenTop /\ pc[t] = "idle"
        /\ IsFiniteSet(hps'[t]) /\ Cardinality(hps'[t]) <= 3 * Cardinality(Mutators)
        /\ pc'[t] \in {"idle", "clear"}
    BY <1>0, <1>b, <1>d DEF Enter, StackOf
  <2> QED
    BY <1>0, <2>1 DEF StackOf
<1>4. \A u \in Tracers : StackOf(u)' /\ Cleared(u)'
  <2>1. Cleared(t)'
    BY <1>d DEF Cleared, Enter
  <2>2. word'.ph >= word.ph /\ word'.ph \in Int
    BY <1>a DEF Enter
  <2> QED
    BY <1>2, <1>3, <2>1, <2>2, OthersStay
<1>5. HazardPointers' = HazardPointers /\ Pending' /\ opened' = opened /\ word' = word /\ next' = next
  BY <1>0 DEF HazardPointers, Pending, Enter
<1>6. CASE phase' = phase + 1 /\ opened = phase /\ localVer[t] = phase
  <2>1. ~ Marking'
    BY <1>5, <1>6, <1>a DEF Marking
  <2>2. ASSUME NEW u \in Tracers PROVE TracerOf(u)'
    <3>1. CASE u = t
      BY <1>5, <1>6, <1>c, <1>d, <2>1, <3>1 DEF TracerOf
    <3>2. CASE u # t
      <4>1. localVer'[u] = localVer[u] /\ localVer[u] <= phase /\ localVer[u] \in Nat
        BY <1>0, <1>2, <3>2, Registers DEF Others
      <4> QED
        BY <1>6, <1>a, <4>1 DEF TracerOf
    <3> QED
      BY <3>1, <3>2
  <2> QED
    BY <1>1, <1>4, <1>5, <2>1, <2>2 DEF MarkInv, Tricolour
<1>7. CASE phase' = phase /\ localVer[t] < phase
  <2>1. Marking' = Marking
    BY <1>5, <1>7 DEF Marking
  <2>2. Known \subseteq Known'
    <3>1. \A u \in Tracers \ {t} : Work(u)' = Work(u)
      <4> SUFFICES ASSUME NEW u \in Tracers \ {t} PROVE Work(u)' = Work(u)
        OBVIOUS
      <4>1. OnStack(u)' = OnStack(u)
        BY <1>2 DEF OnStack, Others
      <4>2. Visiting(u)' = Visiting(u) /\ Roots(u)' = Roots(u)
        BY <1>2, <1>5 DEF Others, Visiting, Roots
      <4> QED
        BY <1>2, <1>7, <4>1, <4>2 DEF Work, Others
    <3>2. Work(t) = {}
      BY <1>7, <1>a DEF Work
    <3> QED
      BY <1>5, <3>1, <3>2 DEF Known
  <2>3. Tricolour'
    BY <1>0, <1>5, <2>1, <2>2 DEF Tricolour
  <2>4. ASSUME NEW u \in Tracers PROVE TracerOf(u)'
    <3>1. CASE u = t
      <4>1. pc'[t] \notin {"push", "mark", "roots"}
        BY <1>d DEF Enter
      <4>2. localVer'[t] = phase' => HazardPointers' \subseteq hps'[t]
        BY <1>5, <1>d
      <4> QED
        BY <3>1, <4>1, <4>2 DEF TracerOf
    <3>2. CASE u # t
      <4>1. TracerOf(u)
        BY DEF MarkInv
      <4> QED
        BY <1>2, <1>5, <1>7, <2>1, <2>2, <3>2, <4>1 DEF TracerOf, Others
    <3> QED
      BY <3>1, <3>2
  <2> QED
    BY <1>1, <1>4, <1>5, <2>3, <2>4 DEF MarkInv
<1> QED
  BY <1>c, <1>6, <1>7

-----------------------------------------------------------------------------
(* The mutators.                                                           *)

\* A mutator publishes hazard pointers only while no collection marks.
LEMMA PublishInv ==
    ASSUME MarkAssumption, StackAssumption, MarkInv, NEW m \in Mutators, Publish(m), UNCHANGED bound
    PROVE  MarkInv'
<1> USE DEF Publish, heap, stack, check
<1>0. Types /\ Pending
  BY DEF MarkInv
<1>a. Root \notin Nodes /\ Null \notin Nodes /\ Root # Null /\ Fresh \subseteq Nodes
  BY DEF MarkAssumption
<1>1. PICK p \in Cells, c \in Nodes :
        \/ pend' = [pend EXCEPT ![m] =
              [op |-> "unlink", cells |-> {p, c, next[c]} \ {Null}, prev |-> p, at |-> c, to |-> next[c]]]
        \/ pend' = [pend EXCEPT ![m] =
              [op |-> "delete", cells |-> {c, next[c]} \ {Null}, prev |-> c, at |-> next[c], to |-> next[c]]]
        \/ \E n \in Fresh : pend' = [pend EXCEPT ![m] =
              [op |-> "insert", cells |-> {p, c, n}, prev |-> p, at |-> c, to |-> n]]
  BY Zenon
<1>b. UNCHANGED <<phase, opened, next, del, word, localVer, slot, top, ctr, cur, child, hps,
                  scan, seenTop, seenVer, pc, bound>> /\ opened = phase
  OBVIOUS
<1> HIDE DEF Publish
<1>2. p \in Cells /\ c \in Nodes /\ c \in Cells /\ next[c] \in Pointers /\ p # Null /\ c # Null
  BY <1>0, <1>1, <1>a DEF Types, Cells
<1>3. PICK new : /\ pend' = [pend EXCEPT ![m] = new]
                 /\ \/ new = [op |-> "unlink", cells |-> {p, c, next[c]} \ {Null}, prev |-> p, at |-> c, to |-> next[c]]
                    \/ new = [op |-> "delete", cells |-> {c, next[c]} \ {Null}, prev |-> c, at |-> next[c], to |-> next[c]]
                    \/ \E n \in Fresh : new = [op |-> "insert", cells |-> {p, c, n}, prev |-> p, at |-> c, to |-> n]
  BY <1>1, Zenon
<1> DEFINE Proper(r) ==
             /\ r.op \in {"unlink", "delete", "insert"}
             /\ r.prev \in Cells /\ r.at \in Pointers /\ r.to \in Pointers
             /\ r.cells \subseteq {r.prev, r.at, r.to} \ {Null}
             /\ r.op = "delete" => r.prev \in Nodes
             /\ r.op # "delete" => {r.at, r.to} \ {Null} \subseteq r.cells
             /\ r.op = "insert" => r.to \in Nodes
<1>4. Proper(new)
  <2>1. CASE new = [op |-> "unlink", cells |-> {p, c, next[c]} \ {Null}, prev |-> p, at |-> c, to |-> next[c]]
    BY <1>2, <2>1 DEF Pointers
  <2>2. CASE new = [op |-> "delete", cells |-> {c, next[c]} \ {Null}, prev |-> c, at |-> next[c], to |-> next[c]]
    BY <1>2, <2>2 DEF Pointers
  <2>3. ASSUME NEW n \in Fresh, new = [op |-> "insert", cells |-> {p, c, n}, prev |-> p, at |-> c, to |-> n]
        PROVE  Proper(new)
    <3>1. n \in Nodes /\ n # Null
      BY <1>a
    <3> QED
      BY <1>2, <2>3, <3>1 DEF Pointers
  <2> HIDE DEF Proper
  <2> QED
    BY <1>3, <2>1, <2>2, <2>3
<1>5. pend'[m] = new /\ \A k \in Mutators \ {m} : pend'[k] = pend[k]
  BY <1>0, <1>3 DEF Types
<1>6. Pending'
  <2>1. ASSUME NEW k \in Mutators, k # m PROVE pend'[k] = pend[k]
    BY <1>5, <2>1
  <2> QED
    BY <1>0, <1>4, <1>5, <2>1 DEF Pending
<1>7. Types'
  <2>1. pend' = [k \in Mutators |-> pend'[k]]
    BY <1>0, <1>3 DEF Types
  <2> QED
    BY <1>0, <1>b, <2>1 DEF Types
<1>8. ~ Marking' /\ ~ (opened' < phase')
  <2>1. bound.phases \in Nat
    BY <1>0 DEF Types, MarkAssumption
  <2>2. phase \in Int
    BY <1>0, <2>1 DEF Types
  <2> QED
    BY <1>b, <2>2 DEF Marking
<1>9. ASSUME NEW u \in Tracers PROVE StackOf(u)' /\ Cleared(u)' /\ TracerOf(u)'
  <2>1. StackOf(u)
    BY DEF MarkInv
  <2>2. StackOf(u)'
    BY <1>b, <2>1 DEF StackOf
  <2>3. Cleared(u)
    BY DEF MarkInv
  <2>4. Cleared(u)'
    BY <1>b, <2>3 DEF Cleared
  <2>5. TracerOf(u)'
    BY <1>8 DEF TracerOf
  <2> QED
    BY <2>2, <2>4, <2>5
<1> QED
  BY <1>6, <1>7, <1>8, <1>9 DEF MarkInv, Tricolour

\* A mutator's CAS: what it installs it has a hazard pointer for, so while marking runs
\* that is marked or on the way to it.
LEMMA CasInv ==
    ASSUME MarkAssumption, StackAssumption, MarkInv, NEW m \in Mutators, Cas(m), UNCHANGED bound
    PROVE  MarkInv'
<1> DEFINE p == pend[m]
           HP == HazardPointers
<1>0. Types /\ Pending /\ Tricolour
  BY DEF MarkInv
<1>a. Root \notin Nodes /\ Null \notin Nodes /\ Root # Null /\ Null \notin Cells
  BY DEF MarkAssumption, Cells
<1>b. /\ p # Idle /\ p.op \in {"unlink", "delete", "insert"}
      /\ p.prev \in Cells /\ p.at \in Pointers /\ p.to \in Pointers
      /\ p.op = "delete" => p.prev \in Nodes
      /\ p.op # "delete" => {p.at, p.to} \ {Null} \subseteq p.cells
      /\ p.op = "insert" => p.to \in Nodes
  BY <1>0 DEF Cas, Pending
<1>c. UNCHANGED <<phase, opened, word, localVer, slot, top, ctr, cur, child, hps,
                  scan, seenTop, seenVer, pc, bound>> /\ pend' = [pend EXCEPT ![m] = Idle]
  BY DEF Cas, stack, check
<1>d. \/ next' = next /\ del' = del
      \/ p.op = "delete" /\ next' = next /\ del' = del \cup {p.prev}
      \/ p.op = "unlink" /\ next[p.prev] = p.at /\ next' = [next EXCEPT ![p.prev] = p.to] /\ del' = del
      \/ p.op = "insert" /\ next[p.prev] = p.at
         /\ next' = [next EXCEPT ![p.to] = p.at, ![p.prev] = p.to] /\ del' = del
  BY <1>b DEF Cas, heap
<1>e. ASSUME p.op # "delete" PROVE {p.at, p.to} \subseteq HP \cup {Null}
  <2>1. \A x \in {p.at, p.to} : x # Root /\ (x = Null \/ x \in p.cells)
    BY <1>a, <1>b, <1>e DEF Pointers
  <2> QED
    BY <2>1 DEF HazardPointers
<1>f. next \in [Cells -> Pointers] /\ Root \in Cells
  BY <1>0 DEF Types, Cells
\* Every cell keeps its value or gets a saved one.
<1>1. \A x \in Cells : next'[x] \in Pointers /\ (next'[x] = next[x] \/ next'[x] \in HP \cup {Null})
  <2>1. CASE next' = next
    BY <1>f, <2>1
  <2>2. CASE p.op = "unlink" /\ next' = [next EXCEPT ![p.prev] = p.to]
    BY <1>b, <1>e, <1>f, <2>2
  <2>3. CASE p.op = "insert" /\ next' = [next EXCEPT ![p.to] = p.at, ![p.prev] = p.to]
    BY <1>b, <1>e, <1>f, <2>3
  <2> QED
    BY <1>d, <2>1, <2>2, <2>3
\* What the root loses was saved.
<1>2. next'[Root] = next[Root] \/ next[Root] \in HP \cup {Null}
  <2>1. CASE next' = next
    BY <2>1
  <2>2. CASE p.op = "unlink" /\ next[p.prev] = p.at /\ next' = [next EXCEPT ![p.prev] = p.to]
    BY <1>e, <1>f, <2>2
  <2>3. CASE p.op = "insert" /\ next[p.prev] = p.at /\ next' = [next EXCEPT ![p.to] = p.at, ![p.prev] = p.to]
    <3>1. p.to # Root
      BY <1>a, <1>b, <2>3
    <3> QED
      BY <1>e, <1>f, <2>3, <3>1
  <2> QED
    BY <1>d, <2>1, <2>2, <2>3
<1>3. Types'
  <2>1. next' \in [Cells -> Pointers]
    <3>1. DOMAIN next' = Cells /\ next' = [x \in Cells |-> next'[x]]
      BY <1>d, <1>f
    <3> HIDE DEF p, HP
    <3> QED
      BY <1>1, <3>1
  <2>2. del' \subseteq Nodes
    BY <1>0, <1>b, <1>d DEF Types
  <2>3. pend' = [k \in Mutators |-> pend'[k]]
    BY <1>0, <1>c DEF Types
  <2> QED
    BY <1>0, <1>c, <2>1, <2>2, <2>3 DEF Types
<1>4. pend'[m] = Idle /\ \A k \in Mutators : k # m => pend'[k] = pend[k]
  BY <1>0, <1>c DEF Types
<1>5. Pending'
  BY <1>0, <1>4 DEF Pending
<1>6. HazardPointers' \subseteq HP /\ Null \notin HP
  <2>1. ASSUME NEW x \in HazardPointers' PROVE x \in HP
    <3>1. PICK k \in Mutators : x \in pend'[k].cells /\ x # Root
      BY <2>1 DEF HazardPointers
    <3>2. Idle.cells = {}
      BY DEF Idle
    <3>3. k # m
      BY <1>4, <3>1, <3>2
    <3>4. x \in pend[k].cells
      BY <1>4, <3>1, <3>3
    <3> QED
      BY <3>1, <3>4 DEF HazardPointers
  <2>2. HP \subseteq Nodes
    BY <1>0, HazardPointersBound
  <2> QED
    BY <1>a, <2>1, <2>2
<1> HIDE DEF p, HP
<1>7. Marking' = Marking
  BY <1>c DEF Marking
<1>8. Marking => Known \subseteq Known'
  <2> SUFFICES ASSUME Marking, NEW u \in Tracers PROVE Work(u) \subseteq Work(u)'
    BY <1>c DEF Known
  <2>1. OnStack(u)' = OnStack(u) /\ Visiting(u)' = Visiting(u)
    BY <1>c DEF OnStack, Visiting
  <2>2. localVer[u] = phase => Roots(u) \subseteq Roots(u)'
    <3>1. TracerOf(u)
      BY DEF MarkInv
    <3>2. localVer[u] = phase /\ pc[u] \in {"clear", "roots"} => HP \subseteq hps[u]
      BY <3>1 DEF TracerOf, Marking, HP
    <3> QED
      BY <1>2, <1>c, <3>2 DEF Roots
  <2> QED
    BY <1>c, <2>1, <2>2 DEF Work
<1>9. Marking => HP \subseteq Known
  BY <1>0 DEF Tricolour, HP
<1>10. Tricolour'
  <2> SUFFICES ASSUME Marking'
               PROVE  /\ HazardPointers' \subseteq Known'
                      /\ next'[Root] \in Known' \cup {Null}
                      /\ \A n \in word'.marked : next'[n] \in Known' \cup {Null}
    BY DEF Tricolour
  <2>1. Marking /\ Known \subseteq Known' /\ HP \subseteq Known'
    BY <1>7, <1>8, <1>9
  <2>2. word.marked \subseteq Cells
    <3>1. PICK w \in [ph : 0 .. phase, marked : SUBSET Nodes] : w = word
      BY <1>0 DEF Types
    <3> QED
      BY <3>1 DEF Cells
  <2>3. next[Root] \in Known \cup {Null} /\ \A n \in word.marked : next[n] \in Known \cup {Null}
    BY <1>0, <2>1 DEF Tricolour
  <2> QED
    BY <1>1, <1>6, <1>c, <1>f, <2>1, <2>2, <2>3
<1>11. ASSUME NEW u \in Tracers PROVE StackOf(u)' /\ Cleared(u)' /\ TracerOf(u)'
  <2>0. StackOf(u) /\ Cleared(u) /\ TracerOf(u)
    BY DEF MarkInv
  <2>1. StackOf(u)'
    BY <1>c, <2>0 DEF StackOf
  <2>2. Cleared(u)'
    BY <1>c, <2>0 DEF Cleared
  <2>3. ASSUME localVer[u] = phase, pc[u] \in {"push", "mark"}, Marking
        PROVE  next'[cur[u]] \in Known' \cup {child[u], Null}
    <3>1. cur[u] \in Cells
      BY <1>0, <2>0, <2>3 DEF Types, StackOf, Pointers, Cells
    <3>2. next[cur[u]] \in Known \cup {child[u], Null}
      BY <2>0, <2>3 DEF TracerOf
    <3> QED
      BY <1>1, <1>8, <1>9, <2>3, <3>1, <3>2
  <2>4. localVer[u] = phase /\ pc[u] \in {"clear", "roots"} /\ opened < phase => HazardPointers' \subseteq hps[u]
    BY <1>6, <2>0 DEF TracerOf, HP
  <2>5. TracerOf(u)'
    BY <1>7, <1>c, <2>3, <2>4 DEF TracerOf
  <2> QED
    BY <2>1, <2>2, <2>5
<1> QED
  BY <1>3, <1>5, <1>10, <1>11 DEF MarkInv

-----------------------------------------------------------------------------
(* The theorems.                                                           *)

\* The invariant holds when the program starts.
LEMMA InitInv ==
    ASSUME MarkAssumption, StackAssumption, Init
    PROVE  MarkInv
<1> USE DEF Init
<1>1. /\ NumTracers \in Nat /\ Root \notin Nodes /\ Null \notin Nodes /\ Slots \in Nat \ {0}
      /\ HelpBound \in Nat /\ List \in [Nodes \cup {Root} -> Nodes \cup {Null}] /\ bound.phases \in Nat
  BY DEF MarkAssumption
<1>2. 0 \in 0 .. bound.phases /\ 0 \in 0 .. Slots - 1 /\ Null \in Pointers
  BY <1>1 DEF Pointers
<1>3. ASSUME NEW t \in Tracers PROVE 0 \in Tracers
  BY <1>1, <1>3 DEF Tracers
<1>4. NoTop \in Tops /\ NoTop.fin
  BY <1>2 DEF NoTop, Tops
<1>5. Types
  <2>1. word \in [ph : 0 .. phase, marked : SUBSET Nodes] /\ phase \in 0 .. bound.phases /\ opened \in {phase, phase - 1}
    BY <1>2
  <2>2. next \in [Cells -> Pointers] /\ del \subseteq Nodes
    BY <1>1 DEF Cells, Pointers
  <2>3. localVer \in [Tracers -> 0 .. phase] /\ ctr \in [Tracers -> 0 .. Slots - 1]
    BY <1>2
  <2>4. slot \in [Tracers -> [1 .. Slots -> Pointers]]
    BY <1>2
  <2>5. top \in [Tracers -> Tops] /\ seenTop \in [Tracers -> [Tracers -> Tops]]
    BY <1>4
  <2>6. cur \in [Tracers -> Pointers] /\ child \in [Tracers -> Pointers] /\ hps \in [Tracers -> SUBSET Nodes]
    BY <1>2
  <2>7. scan \in [Tracers -> [i : Tracers, j : Nat, ptr : Pointers]] /\ seenVer \in [Tracers -> [Tracers -> Nat]]
    BY <1>2, <1>3 DEF NoScan
  <2>8. pc \in [Tracers -> TracerPC] /\ pend = [m \in Mutators |-> pend[m]] /\ bound \in Bounds
    BY DEF TracerPC
  <2> QED
    BY <2>1, <2>2, <2>3, <2>4, <2>5, <2>6, <2>7, <2>8 DEF Types
<1>6. Pending
  BY DEF Pending
<1>7. ~ Marking
  BY DEF Marking
<1>8. ASSUME NEW t \in Tracers PROVE StackOf(t) /\ Cleared(t) /\ TracerOf(t)
  <2>1. pc[t] = "idle" /\ ctr[t] = 0 /\ top[t] = NoTop /\ seenTop[t] = [i \in Tracers |-> NoTop]
        /\ scan[t].i = 0 /\ hps[t] = {}
    BY <1>8 DEF NoScan
  <2>2. IsFiniteSet(hps[t]) /\ Cardinality(hps[t]) = 0 /\ Cardinality(Mutators) \in Nat
    BY <2>1, FS_EmptySet, FS_CardinalityType DEF StackAssumption
  <2>3. Cardinality(hps[t]) <= 3 * Cardinality(Mutators)
    BY <2>2
  <2>4. StackOf(t)
    BY <1>4, <2>1, <2>2, <2>3 DEF StackOf
  <2>5. Cleared(t)
    BY <2>1 DEF Cleared
  <2>6. TracerOf(t)
    BY <2>1 DEF TracerOf
  <2> QED
    BY <2>4, <2>5, <2>6
<1> QED
  BY <1>5, <1>6, <1>7, <1>8 DEF MarkInv, Tricolour

\* It holds after a step that changes nothing.
LEMMA StutterInv ==
    ASSUME MarkInv, UNCHANGED vars
    PROVE  MarkInv'
<1>1. UNCHANGED <<phase, opened, next, del, word, localVer, slot, top, ctr, cur, child, hps,
                  scan, seenTop, seenVer, pc, pend, bound>>
  BY DEF vars, heap, stack, check
<1>2. Types' /\ Pending'
  BY <1>1 DEF MarkInv, Types, Pending
<1>3. HazardPointers' = HazardPointers /\ Marking' = Marking
  BY <1>1 DEF HazardPointers, Marking
<1>4. \A t \in Tracers : Work(t)' = Work(t)
  BY <1>1 DEF Work, OnStack, Visiting, Roots
<1>5. Known' = Known
  BY <1>1, <1>4 DEF Known
<1>6. Tricolour'
  BY <1>1, <1>3, <1>5 DEF MarkInv, Tricolour
<1>7. ASSUME NEW t \in Tracers PROVE StackOf(t)' /\ Cleared(t)' /\ TracerOf(t)'
  <2>1. StackOf(t) /\ Cleared(t) /\ TracerOf(t)
    BY DEF MarkInv
  <2>2. StackOf(t)'
    BY <1>1, <2>1 DEF StackOf
  <2>3. Cleared(t)'
    BY <1>1, <2>1 DEF Cleared
  <2>4. TracerOf(t)'
    BY <1>1, <1>3, <1>5, <2>1 DEF TracerOf
  <2> QED
    BY <2>2, <2>3, <2>4
<1> QED
  BY <1>2, <1>6, <1>7 DEF MarkInv

\* It holds after every step.
LEMMA NextInv ==
    ASSUME MarkAssumption, StackAssumption, MarkInv, [Next]_vars
    PROVE  MarkInv'
<1>1. CASE UNCHANGED vars
  BY <1>1, StutterInv
<1>2. ASSUME NEW t \in Tracers, Tracer(t), UNCHANGED bound PROVE MarkInv'
  BY <1>2, ClearMarksInv, PushRootsInv, PopEntryInv, PublishCurInv, ReadChildInv, PushChildInv, MarkCurInv,
     RetractInv, StackEmptyInv, ReadVerInv, ReadTopInv, ReadSlotInv, CheckSlotInv, CheckTopInv, DecideInv,
     RereadTopInv, RereadVerInv, OpenInv DEF Tracer
<1>3. ASSUME NEW t \in Tracers, Enter(t), UNCHANGED bound PROVE MarkInv'
  BY <1>3, EnterInv
<1>4. ASSUME NEW m \in Mutators, Publish(m) \/ Cas(m), UNCHANGED bound PROVE MarkInv'
  BY <1>4, PublishInv, CasInv
<1>5. CASE AtBound
  BY <1>5, StutterInv DEF AtBound
<1> QED
  BY <1>1, <1>2, <1>3, <1>4, <1>5 DEF Next

\* The inductive invariant of the marking: whatever a mutator holds, the root points to, or a
\* marked object points to, is marked or on the way to it, however the tracers help each
\* other (trace.c) and the mutators change the list.
THEOREM MarkInvariant ==
    ASSUME MarkAssumption, StackAssumption
    PROVE  Spec => []MarkInv
<1>1. Init => MarkInv
  BY InitInv
<1>2. MarkInv /\ [Next]_vars => MarkInv'
  BY NextInv
<1> QED
  BY <1>1, <1>2, PTL DEF Spec

\* Every variable has its type, and a mark stack never outgrows its array: traceObj writes
\* one slot above the counter and CheckFinish copies other threads' entries.
THEOREM TypesOK ==
    ASSUME MarkAssumption, StackAssumption
    PROVE  Spec => []TypeOK
<1>1. ASSUME MarkInv PROVE TypeOK
  <2>1. Types /\ \A t \in Tracers : StackOf(t)
    BY <1>1 DEF MarkInv
  <2>2. word.ph \in 0 .. phase /\ word.marked \subseteq Nodes
    BY <2>1 DEF Types
  <2> QED
    BY <2>1, <2>2 DEF Types, StackOf, TypeOK, Tops
<1> QED
  BY <1>1, MarkInvariant, PTL

\* From the three facts of Tricolour to everything that can be reached.
LEMMA ReachedFromWork ==
    ASSUME MarkAssumption, MarkInv, Marking
    PROVE  InUse \ word.marked \subseteq Reachable(UNION {Work(t) : t \in Tracers})
<1> DEFINE W == UNION {Work(t) : t \in Tracers}
           R == {Root} \cup HazardPointers
           C == {Root} \cup word.marked \cup Reach(next, W)
<1>1. Types /\ Tricolour
  BY DEF MarkInv
<1>2. DOMAIN next = Cells /\ Root \in Cells /\ \A x \in Cells : next[x] \in Pointers
  BY <1>1 DEF Types, Cells
<1>3. Null \notin Cells
  BY DEF MarkAssumption, Cells
<1>4. /\ HazardPointers \subseteq word.marked \cup W
      /\ next[Root] \in word.marked \cup W \cup {Null}
      /\ \A n \in word.marked : next[n] \in word.marked \cup W \cup {Null}
  BY <1>1 DEF Tricolour, Known
<1> HIDE DEF W
<1>5. W \cap Cells \subseteq Reach(next, W) /\ \A x \in Reach(next, W) : next[x] \in Cells => next[x] \in Reach(next, W)
  BY <1>2, ReachClosed
<1>6. R \cap DOMAIN next \subseteq C
  BY <1>2, <1>4, <1>5
<1>7. \A x \in C \cap DOMAIN next : next[x] \in DOMAIN next => next[x] \in C
  BY <1>2, <1>3, <1>4, <1>5
<1> HIDE DEF C, R
<1>8. Reach(next, R) \subseteq C
  BY <1>6, <1>7, ReachLeast
<1> QED
  BY <1>8 DEF InUse, Reachable, C, R, W

\* While marking runs, whatever is reachable or held by a mutator, and not marked yet, can
\* be reached from what some tracer of this collection has still to visit.
THEOREM NothingIsLost ==
    ASSUME MarkAssumption, StackAssumption
    PROVE  Spec => []NothingLost
<1>1. ASSUME MarkInv PROVE NothingLost
  BY <1>1, ReachedFromWork DEF NothingLost
<1> QED
  BY <1>1, MarkInvariant, PTL

\* The step that opens a phase for sweeping: its tracer has cleared and marked in that phase
\* and has nothing left to do itself.
LEMMA OpenStep ==
    ASSUME MarkAssumption, StackAssumption, MarkInv, [Next]_vars, opened' # opened
    PROVE  \E t \in Tracers :
             /\ word.ph = opened' /\ Work(t) = {}
             /\ InUse \ word.marked \subseteq Reachable(UNION {Work(u) : u \in Tracers})
<1>1. PICK t \in Tracers : Open(t)
  <2>1. ASSUME NEW t \in Tracers, Enter(t) \/ Tracer(t), ~ Open(t) PROVE opened' = opened
    BY <2>1 DEF Tracer, Enter, ClearMarks, PushRoots, PopEntry, PublishCur, ReadChild, PushChild, MarkCur,
       Retract, StackEmpty, ReadVer, ReadTop, ReadSlot, CheckSlot, CheckTop, Decide, RereadTop, RereadVer
  <2>2. ASSUME NEW m \in Mutators, Publish(m) \/ Cas(m) PROVE opened' = opened
    BY <2>2 DEF Publish, Cas
  <2>3. UNCHANGED vars => opened' = opened
    BY DEF vars
  <2> QED
    BY <2>1, <2>2, <2>3 DEF Next, AtBound
<1>2. Types /\ StackOf(t) /\ Cleared(t)
  BY DEF MarkInv
<1>3. /\ localVer[t] \in Nat /\ localVer[t] <= phase /\ phase \in Nat /\ opened \in {phase, phase - 1}
      /\ word.ph \in Nat /\ word.ph <= phase
  BY <1>2, Registers DEF Types
<1>4. opened < localVer[t] /\ opened' = localVer[t] /\ pc[t] = "reset"
  BY <1>1 DEF Open
<1>5. localVer[t] = phase /\ opened < phase
  BY <1>3, <1>4
<1>6. word.ph = phase /\ Marking
  BY <1>2, <1>3, <1>4, <1>5 DEF Cleared, Marking
<1>7. Work(t) = {}
  <2>1. ctr[t] = 0
    BY <1>2, <1>4 DEF StackOf
  <2> QED
    BY <1>4, <2>1 DEF Work, OnStack, Visiting, Roots
<1> QED
  BY <1>4, <1>5, <1>6, <1>7, ReachedFromWork

\* However many tracers there are, a phase is opened only in the phase that was marked, by a
\* tracer that is done, and what is in use and unmarked then can be reached from the stack
\* of another one: the termination test CheckFinish is all that can go wrong.
THEOREM OnlyOthersWork ==
    ASSUME MarkAssumption, StackAssumption
    PROVE  Spec => [][opened' # opened =>
                        \E t \in Tracers :
                            /\ word.ph = opened' /\ Work(t) = {}
                            /\ InUse \ word.marked \subseteq Reachable(UNION {Work(u) : u \in Tracers})]_vars
<1>1. MarkInv /\ [Next]_vars =>
        [opened' # opened =>
            \E t \in Tracers :
                /\ word.ph = opened' /\ Work(t) = {}
                /\ InUse \ word.marked \subseteq Reachable(UNION {Work(u) : u \in Tracers})]_vars
  BY OpenStep
<1> QED
  BY <1>1, MarkInvariant, PTL DEF Spec

\* A tracer that marks alone opens a phase for sweeping only when every object that is reachable,
\* or that a mutator holds, is marked for it, whatever the mutators do meanwhile.
THEOREM OpenedWhenMarked ==
    ASSUME MarkAssumption, StackAssumption, NumTracers = 1
    PROVE  Spec => OpenOnlyWhenMarked
<1>1. ASSUME MarkInv, [Next]_vars, opened' # opened
      PROVE  word.ph = opened' /\ InUse \subseteq word.marked
  <2>1. PICK t \in Tracers :
            /\ word.ph = opened' /\ Work(t) = {}
            /\ InUse \ word.marked \subseteq Reachable(UNION {Work(u) : u \in Tracers})
    BY <1>1, OpenStep
  <2>2. UNION {Work(u) : u \in Tracers} = {}
    <3>1. \A u \in Tracers : u = t
      BY DEF Tracers
    <3> QED
      BY <2>1, <3>1
  <2>3. Reachable({}) = {}
    BY ReachNothing DEF Reachable
  <2> QED
    BY <2>1, <2>2, <2>3
<1>2. MarkInv /\ [Next]_vars =>
        [opened' # opened => word.ph = opened' /\ InUse \subseteq word.marked]_vars
  BY <1>1
<1> QED
  BY <1>2, MarkInvariant, PTL DEF Spec, OpenOnlyWhenMarked
=============================================================================
