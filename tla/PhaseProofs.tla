---------------------------- MODULE PhaseProofs ----------------------------
(***************************************************************************)
(* Proofs about Phase, for any number of threads, phases, pages and caches.*)
(*                                                                         *)
(* Part 1: VersionInv (types, the order of the four places that hold a     *)
(* version, every thread's progress) is inductive, under either memory     *)
(* model.  From it follow StampComplete and Assertions.                    *)
(* Part 2: HandshakeInv is inductive relative to VersionInv if stores are  *)
(* in order (TSO = 0).  From it follow Covered and ReadsValidated.         *)
(* Part 3: HandedOutAfterTrace, and the refinement of Cycle.               *)
(* Part 4: FreshInv is inductive relative to VersionInv, under either      *)
(* memory model.  From it follow NoStaleObject and NullDiscarded.          *)
(***************************************************************************)
EXTENDS Phase, TLAPS

\* The labels the actions go to are labels.
LEMMA LabelFacts ==
    /\ "find" \in Labels /\ "walk" \in Labels /\ "clear1" \in Labels
    /\ "help" \in Labels /\ "clear2" \in Labels /\ "drop" \in Labels
    /\ "publish" \in Labels /\ "fence" \in Labels /\ "cas" \in Labels
    /\ "palloc" \in Labels /\ "pop" \in Labels /\ "triggered" \in Labels
    /\ "stampRead" \in Labels /\ "stampCas" \in Labels
    /\ "sweep" \in Labels /\ "lastPush" \in Labels
    /\ "advance" \in Labels /\ "swing" \in Labels /\ "enter" \in Labels
    /\ "saveHP" \in Labels /\ "reset" \in Labels
  BY DEF Labels, MutLabels, StampLabels, SweepLabels

\* Clearing the bit of a record leaves a record (EraseBit, the dirty=0 stores).
LEMMA EraseType ==
    ASSUME TypeOK, NEW t \in Threads, EraseBit(t)
    PROVE  dirty' \in [Threads -> Records]
<1>1. dirty[t] \in Records
  BY DEF TypeOK
<1>2. [dirty[t] EXCEPT !.bit = 0] \in Records
  BY <1>1 DEF Records
<1>3. dirty' = [dirty EXCEPT ![t] = [dirty[t] EXCEPT !.bit = 0]]
  BY DEF EraseBit
<1> QED
  BY <1>2, <1>3 DEF TypeOK

\* The CAS of a stamp leaves records (allocator.c:55).
LEMMA StampType ==
    ASSUME TypeOK, NEW t \in Threads, CasRecord(t)
    PROVE  dirty' \in [Threads -> Records]
<1>1. [ph |-> localVer[t], bit |-> 1] \in Records
  BY DEF TypeOK, Records
<1> QED
  BY <1>1 DEF TypeOK, CasRecord

\* The initial register holds a record.
LEMMA NothingType == Nothing \in Records
  BY PhaseAssumption DEF Nothing, Records, Versions

\* The stamping loop starts at a thread.
LEMMA FirstThread == 0 \in Threads
  BY PhaseAssumption DEF Threads

\* The stamping loop goes from a thread to a thread.
LEMMA NextThread ==
    ASSUME NEW i \in Threads, i + 1 < N
    PROVE  i + 1 \in Threads
  BY PhaseAssumption DEF Threads

\* Going on to the next record keeps the types of the loop's locals.
LEMMA LoopType ==
    ASSUME TypeOK, NEW t \in Threads, NextRecord(t)
    PROVE  /\ idx' \in [Threads -> Threads]
           /\ att' \in [Threads -> 1 .. 2]
           /\ reg' \in [Threads -> Records]
           /\ pc' \in [Threads -> Labels]
<1>1. idx[t] + 1 < N => idx[t] + 1 \in Threads
  BY NextThread DEF TypeOK
<1>2. idx' \in [Threads -> Threads]
  BY <1>1, FirstThread DEF TypeOK, NextRecord
<1> QED
  BY <1>2, NothingType, LabelFacts DEF TypeOK, NextRecord, Goto

\* Every step keeps the types, if no version has passed the phase.
LEMMA TypeStep ==
    ASSUME TypeOK, VersionOrder, Next
    PROVE  TypeOK'
<1> USE PhaseAssumption, LabelFacts DEF TypeOK, Goto, gcVars, mutVars, ghosts, locals, loops
<1>1. ASSUME NEW t \in Threads, StartTraversal(t) PROVE TypeOK'
  BY <1>1 DEF StartTraversal, Records, Objects, NoObj
<1>2. ASSUME NEW t \in Threads, CheckDirty(t) PROVE TypeOK'
  BY <1>2 DEF CheckDirty
<1>3. ASSUME NEW t \in Threads, CheckClean(t) PROVE TypeOK'
  BY <1>3 DEF CheckClean
<1>4. ASSUME NEW t \in Threads, EndOfList(t) PROVE TypeOK'
  BY <1>4 DEF EndOfList
<1>5. ASSUME NEW t \in Threads, PublishHPs(t) PROVE TypeOK'
  BY <1>5 DEF PublishHPs
<1>6. ASSUME NEW t \in Threads, FenceCheck(t) PROVE TypeOK'
  BY <1>6, EraseType DEF FenceCheck
<1>7. ASSUME NEW t \in Threads, DropHPs(t) PROVE TypeOK'
  BY <1>7 DEF DropHPs, ClearHPs
<1>8. ASSUME NEW t \in Threads, CasThenClear(t) PROVE TypeOK'
  BY <1>8 DEF CasThenClear, ClearHPs
<1>9. ASSUME NEW t \in Threads, ClearBeforeHelp(t) PROVE TypeOK'
  <2>1. dirty' \in [Threads -> Records] /\ wbuf' \in [Threads -> Nat]
    BY <1>9, EraseType DEF ClearBeforeHelp, StoreZero
  <2> QED
    BY <1>9, <2>1 DEF ClearBeforeHelp
<1>10. ASSUME NEW t \in Threads, Help(t) PROVE TypeOK'
  BY <1>10 DEF Help
<1>11. ASSUME NEW t \in Threads, ClearAfterHelp(t) PROVE TypeOK'
  <2>1. dirty' \in [Threads -> Records] /\ wbuf' \in [Threads -> Nat]
    BY <1>11, EraseType DEF ClearAfterHelp, StoreZero
  <2> QED
    BY <1>11, <2>1 DEF ClearAfterHelp
<1>12. ASSUME NEW t \in Threads, PallocFromCache(t) PROVE TypeOK'
  BY <1>12 DEF PallocFromCache, Fillings, NoCache, Objects
<1>13. ASSUME NEW t \in Threads, PallocCacheEmpty(t) PROVE TypeOK'
  BY <1>13 DEF PallocCacheEmpty, Fillings, NoCache
<1>14. ASSUME NEW t \in Threads, PopCache(t) PROVE TypeOK'
  BY <1>14 DEF PopCache, Fillings
<1>15. ASSUME NEW t \in Threads, PopFails(t) PROVE TypeOK'
  BY <1>15 DEF PopFails
<1>16. ASSUME NEW t \in Threads, AfterTrigger(t) PROVE TypeOK'
  BY <1>16 DEF AfterTrigger, Objects
<1>17. ASSUME NEW t \in Threads, Advance(t) PROVE TypeOK'
  BY <1>17 DEF Advance, Versions, Fillings
<1>18. ASSUME NEW t \in Threads, SwingHead(t) PROVE TypeOK'
  BY <1>18 DEF SwingHead, VersionOrder, Versions
<1>19. ASSUME NEW t \in Threads, EnterPhase(t) PROVE TypeOK'
  <2>1. localVer[t] + 1 \in Versions
    BY <1>19 DEF EnterPhase, VersionOrder, Versions
  <2>2. idx' \in [Threads -> Threads] /\ att' \in [Threads -> 1 .. 2] /\ reg' \in [Threads -> Records]
    <3>1. UNCHANGED loops \/ FirstRecord(t)
      BY <1>19 DEF EnterPhase
    <3>2. CASE UNCHANGED loops
      BY <3>2
    <3>3. CASE FirstRecord(t)
      BY <3>3, NothingType, FirstThread DEF FirstRecord
    <3> QED
      BY <3>1, <3>2, <3>3
  <2> QED
    <3>1. localVer' \in [Threads -> Versions]
      BY <1>19, <2>1 DEF EnterPhase
    <3>2. pc' \in [Threads -> Labels]
      BY <1>19 DEF EnterPhase, Return
    <3> QED
      BY <1>19, <2>2, <3>1, <3>2 DEF EnterPhase
<1>20. ASSUME NEW t \in Threads, StampRead(t) PROVE TypeOK'
  <2>1. CASE dirty[idx[t]].ph >= localVer[t]
    BY <1>20, <2>1, LoopType DEF StampRead
  <2>2. CASE ~(dirty[idx[t]].ph >= localVer[t])
    BY <1>20, <2>2 DEF StampRead
  <2> QED
    BY <2>1, <2>2
<1>21. ASSUME NEW t \in Threads, StampCas(t) PROVE TypeOK'
  <2>1. dirty' \in [Threads -> Records]
    BY <1>21, StampType DEF StampCas
  <2>2. CASE att[t] = 1
    <3>1. /\ att' \in [Threads -> 1 .. 2] /\ reg' \in [Threads -> Records]
          /\ pc' \in [Threads -> Labels]
      BY <1>21, <2>2, NothingType DEF StampCas
    <3> QED
      BY <1>21, <2>1, <2>2, <3>1 DEF StampCas
  <2>3. CASE att[t] # 1
    BY <1>21, <2>1, <2>3, LoopType DEF StampCas
  <2> QED
    BY <2>2, <2>3
<1>22. ASSUME NEW t \in Threads, SaveHP(t) PROVE TypeOK'
  <2>1. idx[t] + 1 < N => idx[t] + 1 \in Threads
    BY NextThread
  <2>2. idx' \in [Threads -> Threads]
    BY <1>22, <2>1 DEF SaveHP
  <2>3. hpSeen' \in [Threads -> SUBSET Threads]
    <3>1. idx[t] \in Threads /\ hpSeen[t] \in SUBSET Threads
      OBVIOUS
    <3> QED
      BY <1>22, <3>1 DEF SaveHP
  <2>4. pc' \in [Threads -> Labels]
    BY <1>22 DEF SaveHP
  <2> QED
    BY <1>22, <2>2, <2>3, <2>4 DEF SaveHP
<1>23. ASSUME NEW t \in Threads, ResetSweep(t) PROVE TypeOK'
  BY <1>23 DEF ResetSweep, Versions
<1>24. ASSUME NEW t \in Threads, ClaimPage(t) PROVE TypeOK'
  BY <1>24 DEF ClaimPage
<1>25. ASSUME NEW t \in Threads, FreeObject(t) PROVE TypeOK'
  <2>1. cache' \in [Threads -> Fillings]
    BY <1>25 DEF FreeObject, Fillings, NoCache
  <2>2. head' \in [ver : Versions, cnt : Nat]
    BY <1>25 DEF FreeObject, PushCache
  <2>3. left' \in [Threads -> Nat]
    BY <1>25 DEF FreeObject
  <2> QED
    BY <1>25, <2>1, <2>2, <2>3 DEF FreeObject
<1>26. ASSUME NEW t \in Threads, SweepEnds(t) PROVE TypeOK'
  BY <1>26 DEF SweepEnds
<1>27. ASSUME NEW t \in Threads, LastPush(t) PROVE TypeOK'
  BY <1>27 DEF LastPush, PushCache, Return, Fillings
<1>28. ASSUME NEW t \in Threads, Drain(t) PROVE TypeOK'
  BY <1>28, EraseType DEF Drain
<1>29. CASE AtBound
  BY <1>29 DEF AtBound, vars
<1> QED
  BY <1>1, <1>2, <1>3, <1>4, <1>5, <1>6, <1>7, <1>8, <1>9, <1>10, <1>11, <1>12, <1>13, <1>14, <1>15, <1>16, <1>17, <1>18, <1>19, <1>20, <1>21, <1>22, <1>23, <1>24, <1>25, <1>26, <1>27, <1>28, <1>29 DEF Next, Mutator, Collector

\* The versions can be compared: they are integers.
LEMMA Ints ==
    ASSUME TypeOK
    PROVE  /\ phase \in Int /\ head.ver \in Int /\ sweep.ph \in Int
           /\ \A t \in Threads : /\ dirty[t].ph \in Int /\ dirty[t].bit \in 0 .. 1
                                /\ localVer[t] \in Int
                                /\ reg[t].ph \in Int
  BY DEF TypeOK, Versions, Records

\* Clearing a bit changes no stamp, and no other record.
LEMMA EraseEffect ==
    ASSUME TypeOK, NEW t \in Threads, EraseBit(t)
    PROVE  \A j \in Threads :
              /\ dirty'[j].ph = dirty[j].ph
              /\ dirty'[j].bit = IF j = t THEN 0 ELSE dirty[j].bit
              /\ dirty[j].bit = 0 \/ j # t => dirty'[j] = dirty[j]
  BY DEF TypeOK, EraseBit, Records

\* What the CAS of a stamp does to each record: nothing, or the stamp of the
\* thread's phase with the bit set, on the record as it was read.
LEMMA StampEffect ==
    ASSUME TypeOK, NEW t \in Threads, CasRecord(t)
    PROVE  \A j \in Threads :
              /\ j = idx[t] /\ dirty[j] = reg[t]
                    => dirty'[j].ph = localVer[t] /\ dirty'[j].bit = 1
              /\ ~ (j = idx[t] /\ dirty[j] = reg[t]) => dirty'[j] = dirty[j]
<1>1. \A j \in Threads :
         dirty'[j] = IF j = idx[t] /\ dirty[j] = reg[t]
                     THEN [ph |-> localVer[t], bit |-> 1]
                     ELSE dirty[j]
  BY DEF TypeOK, CasRecord
<1> QED
  BY <1>1

\* Every step keeps the versions in order.
LEMMA OrderStep ==
    ASSUME VersionInv, TypeOK', Next
    PROVE  VersionOrder'
<1> USE Ints DEF VersionInv, VersionOrder, Goto, gcVars, mutVars, ghosts, locals, loops
<1>0. /\ dirty \in [Threads -> Records] /\ pc \in [Threads -> Labels]
      /\ localVer \in [Threads -> Versions]
      /\ head \in [ver : Versions, cnt : Nat]
      /\ sweep \in [ph : Versions, ctr : 0 .. Pages]
  BY DEF TypeOK
<1>1. ASSUME NEW t \in Threads, StartTraversal(t) PROVE VersionOrder'
  BY <1>0, <1>1 DEF StartTraversal
<1>2. ASSUME NEW t \in Threads, CheckDirty(t) PROVE VersionOrder'
  BY <1>0, <1>2 DEF CheckDirty
<1>3. ASSUME NEW t \in Threads, CheckClean(t) PROVE VersionOrder'
  BY <1>0, <1>3 DEF CheckClean
<1>4. ASSUME NEW t \in Threads, EndOfList(t) PROVE VersionOrder'
  BY <1>0, <1>4 DEF EndOfList
<1>5. ASSUME NEW t \in Threads, PublishHPs(t) PROVE VersionOrder'
  BY <1>0, <1>5 DEF PublishHPs
<1>6. ASSUME NEW t \in Threads, FenceCheck(t) PROVE VersionOrder'
  BY <1>0, <1>6, EraseEffect DEF FenceCheck
<1>7. ASSUME NEW t \in Threads, DropHPs(t) PROVE VersionOrder'
  BY <1>0, <1>7 DEF DropHPs, ClearHPs
<1>8. ASSUME NEW t \in Threads, CasThenClear(t) PROVE VersionOrder'
  BY <1>0, <1>8 DEF CasThenClear, ClearHPs
<1>9. ASSUME NEW t \in Threads, ClearBeforeHelp(t) PROVE VersionOrder'
  BY <1>0, <1>9, EraseEffect DEF ClearBeforeHelp, StoreZero
<1>10. ASSUME NEW t \in Threads, Help(t) PROVE VersionOrder'
  BY <1>0, <1>10 DEF Help
<1>11. ASSUME NEW t \in Threads, ClearAfterHelp(t) PROVE VersionOrder'
  BY <1>0, <1>11, EraseEffect DEF ClearAfterHelp, StoreZero
<1>12. ASSUME NEW t \in Threads, PallocFromCache(t) PROVE VersionOrder'
  BY <1>0, <1>12 DEF PallocFromCache
<1>13. ASSUME NEW t \in Threads, PallocCacheEmpty(t) PROVE VersionOrder'
  BY <1>0, <1>13 DEF PallocCacheEmpty
<1>14. ASSUME NEW t \in Threads, PopCache(t) PROVE VersionOrder'
  BY <1>0, <1>14 DEF PopCache
<1>15. ASSUME NEW t \in Threads, PopFails(t) PROVE VersionOrder'
  BY <1>0, <1>15 DEF PopFails
<1>16. ASSUME NEW t \in Threads, AfterTrigger(t) PROVE VersionOrder'
  BY <1>0, <1>16 DEF AfterTrigger
<1>17. ASSUME NEW t \in Threads, Advance(t) PROVE VersionOrder'
  BY <1>0, <1>17 DEF Advance, Progress, ProgressOf, StampLabels
<1>18. ASSUME NEW t \in Threads, SwingHead(t) PROVE VersionOrder'
  BY <1>0, <1>18 DEF SwingHead
<1>19. ASSUME NEW t \in Threads, EnterPhase(t) PROVE VersionOrder'
  BY <1>0, <1>19 DEF EnterPhase, Return, FirstRecord
<1>20. ASSUME NEW t \in Threads, StampRead(t) PROVE VersionOrder'
  BY <1>0, <1>20 DEF StampRead, NextRecord
<1>21. ASSUME NEW t \in Threads, StampCas(t) PROVE VersionOrder'
  <2>1. \A j \in Threads : dirty'[j].ph = dirty[j].ph \/ dirty'[j].ph = localVer[t]
    BY <1>21, StampEffect DEF StampCas
  <2>2. \A j \in Threads : dirty'[j].ph >= dirty[j].ph
    <3>1. reg[t].ph < localVer[t]
      BY <1>21 DEF StampCas, Progress, ProgressOf, Attempt, StampLabels
    <3> QED
      BY <1>21, <3>1, StampEffect DEF StampCas
  <2>3. /\ phase' = phase /\ head' = head /\ sweep' = sweep /\ localVer' = localVer
        /\ \A j \in Threads : pc'[j] = pc[j] \/ pc'[j] \in {"stampRead", "saveHP"}
    BY <1>0, <1>21 DEF StampCas, NextRecord
  <2> QED
    BY <2>1, <2>2, <2>3
<1>22. ASSUME NEW t \in Threads, SaveHP(t) PROVE VersionOrder'
  BY <1>0, <1>22 DEF SaveHP
<1>23. ASSUME NEW t \in Threads, ResetSweep(t) PROVE VersionOrder'
  BY <1>0, <1>23 DEF ResetSweep
<1>24. ASSUME NEW t \in Threads, ClaimPage(t) PROVE VersionOrder'
  BY <1>0, <1>24 DEF ClaimPage
<1>25. ASSUME NEW t \in Threads, FreeObject(t) PROVE VersionOrder'
  BY <1>0, <1>25 DEF FreeObject, PushCache
<1>26. ASSUME NEW t \in Threads, SweepEnds(t) PROVE VersionOrder'
  BY <1>0, <1>26 DEF SweepEnds
<1>27. ASSUME NEW t \in Threads, LastPush(t) PROVE VersionOrder'
  BY <1>0, <1>27 DEF LastPush, PushCache, Return
<1>28. ASSUME NEW t \in Threads, Drain(t) PROVE VersionOrder'
  BY <1>0, <1>28, EraseEffect DEF Drain
<1>29. CASE AtBound
  BY <1>29 DEF AtBound, vars
<1> QED
  BY <1>1, <1>2, <1>3, <1>4, <1>5, <1>6, <1>7, <1>8, <1>9, <1>10, <1>11, <1>12, <1>13, <1>14, <1>15, <1>16, <1>17, <1>18, <1>19, <1>20, <1>21, <1>22, <1>23, <1>24, <1>25, <1>26, <1>27, <1>28, <1>29 DEF Next, Mutator, Collector

\* How a step changes the records: not at all, the owner clears the bit, or a
\* stamp raises the phase.
RecordStep ==
    \A j \in Threads :
        \/ dirty'[j] = dirty[j]
        \/ dirty'[j].ph = dirty[j].ph /\ dirty'[j].bit = 0 /\ dirty[j].bit # 0
        \/ dirty[j].ph < dirty'[j].ph

\* Thread u does not move, and the sweep does not go back.
Still(u) ==
    /\ sweep'.ph >= sweep.ph
    /\ pc'[u] = pc[u] /\ localVer'[u] = localVer[u] /\ cache'[u] = cache[u]
    /\ idx'[u] = idx[u] /\ att'[u] = att[u] /\ reg'[u] = reg[u]

\* What every other thread sees of a step of t.
Frame(t) == RecordStep /\ \A u \in Threads \ {t} : Still(u)

\* A thread that does not move keeps its progress.
LEMMA Bystander ==
    ASSUME VersionInv, TypeOK', NEW u \in Threads, RecordStep, Still(u)
    PROVE  ProgressOf(u)'
<1> USE Ints DEF VersionInv, Still
<1>1. /\ \A j \in Threads : dirty'[j].ph \in Int /\ dirty'[j].bit \in 0 .. 1
      /\ sweep'.ph \in Int
  BY DEF TypeOK, Versions, Records
<1>2. \A j \in Threads : dirty'[j].ph >= dirty[j].ph
  BY <1>1 DEF RecordStep
<1>3. ProgressOf(u) /\ idx[u] \in Threads /\ att[u] \in 1 .. 2
  BY DEF Progress, TypeOK
<1>4. pc[u] \in StampLabels => Attempt(u)'
  <2>1. CASE dirty'[idx[u]] = dirty[idx[u]]
    BY <1>3, <2>1 DEF ProgressOf, Attempt
  <2>2. CASE dirty'[idx[u]].ph = dirty[idx[u]].ph /\ dirty'[idx[u]].bit = 0 /\ dirty[idx[u]].bit # 0
    BY <1>3, <2>2 DEF ProgressOf, Attempt
  <2>3. CASE dirty[idx[u]].ph < dirty'[idx[u]].ph
    <3>1. dirty'[idx[u]].ph >= localVer[u]
      BY <1>1, <1>3, <2>3 DEF VersionOrder
    <3> QED
      BY <1>1, <1>3, <3>1 DEF ProgressOf, Attempt
  <2> QED
    BY <1>3, <2>1, <2>2, <2>3 DEF RecordStep
<1> QED
  BY <1>1, <1>2, <1>3, <1>4 DEF ProgressOf

\* The loop goes on when record idx[t] has the stamp.
LEMMA RecordDone ==
    ASSUME TypeOK, NEW t \in Threads, NextRecord(t),
           localVer'[t] = localVer[t], cache'[t] = NoCache,
           dirty'[idx[t]].ph >= localVer[t],
           \A j \in Threads : j < idx[t] => dirty'[j].ph >= localVer[t]
    PROVE  ProgressOf(t)'
<1>0. idx[t] \in Threads
  BY DEF TypeOK
<1>1. CASE idx[t] + 1 < N
  <2>1. pc'[t] = "stampRead" /\ idx'[t] = idx[t] + 1 /\ att'[t] = 1
    BY <1>1 DEF TypeOK, NextRecord, Goto
  <2>2. \A j \in Threads : j < idx[t] + 1 => j < idx[t] \/ j = idx[t]
    BY <1>0 DEF Threads
  <2> QED
    BY <2>1, <2>2 DEF ProgressOf, Attempt, StampLabels
<1>2. CASE ~ (idx[t] + 1 < N)
  <2>1. pc'[t] = "saveHP"
    BY <1>2 DEF TypeOK, NextRecord, Goto
  <2>2. \A j \in Threads : j < idx[t] \/ j = idx[t]
    BY <1>0, <1>2, PhaseAssumption DEF Threads
  <2> QED
    BY <2>1, <2>2 DEF ProgressOf, StampLabels
<1> QED
  BY <1>1, <1>2

\* Every step keeps what each label says of its thread's progress.
LEMMA ProgressStep ==
    ASSUME VersionInv, TypeOK', Next
    PROVE  Progress'
<1> USE Ints DEF VersionInv, Goto, gcVars, mutVars, ghosts, locals, loops
<1>0. /\ pc \in [Threads -> Labels] /\ localVer \in [Threads -> Versions]
      /\ cache \in [Threads -> Fillings]
      /\ idx \in [Threads -> Threads] /\ att \in [Threads -> 1 .. 2]
      /\ reg \in [Threads -> Records] /\ dirty \in [Threads -> Records]
      /\ sweep \in [ph : Versions, ctr : 0 .. Pages]
  BY DEF TypeOK
<1>1. ASSUME NEW t \in Threads, StartTraversal(t) PROVE Frame(t) /\ ProgressOf(t)'
  <2>1. Frame(t)
    BY <1>0, <1>1 DEF StartTraversal, Frame, Still, RecordStep
  <2>2. ProgressOf(t)'
    BY <1>0, <1>1 DEF StartTraversal, Progress, ProgressOf, StampLabels
  <2> QED
    BY <2>1, <2>2
<1>2. ASSUME NEW t \in Threads, CheckDirty(t) PROVE Frame(t) /\ ProgressOf(t)'
  <2>1. Frame(t)
    BY <1>0, <1>2 DEF CheckDirty, Frame, Still, RecordStep
  <2>2. ProgressOf(t)'
    BY <1>0, <1>2 DEF CheckDirty, Progress, ProgressOf, StampLabels
  <2> QED
    BY <2>1, <2>2
<1>3. ASSUME NEW t \in Threads, CheckClean(t) PROVE Frame(t) /\ ProgressOf(t)'
  <2>1. Frame(t)
    BY <1>0, <1>3 DEF CheckClean, Frame, Still, RecordStep
  <2>2. ProgressOf(t)'
    BY <1>0, <1>3 DEF CheckClean, Progress, ProgressOf, StampLabels
  <2> QED
    BY <2>1, <2>2
<1>4. ASSUME NEW t \in Threads, EndOfList(t) PROVE Frame(t) /\ ProgressOf(t)'
  <2>1. Frame(t)
    BY <1>0, <1>4 DEF EndOfList, Frame, Still, RecordStep
  <2>2. ProgressOf(t)'
    BY <1>0, <1>4 DEF EndOfList, Progress, ProgressOf, StampLabels
  <2> QED
    BY <2>1, <2>2
<1>5. ASSUME NEW t \in Threads, PublishHPs(t) PROVE Frame(t) /\ ProgressOf(t)'
  <2>1. Frame(t)
    BY <1>0, <1>5 DEF PublishHPs, Frame, Still, RecordStep
  <2>2. ProgressOf(t)'
    BY <1>0, <1>5 DEF PublishHPs, Progress, ProgressOf, StampLabels
  <2> QED
    BY <2>1, <2>2
<1>6. ASSUME NEW t \in Threads, FenceCheck(t) PROVE Frame(t) /\ ProgressOf(t)'
  <2>1. Frame(t)
    BY <1>0, <1>6, EraseEffect DEF FenceCheck, Frame, Still, RecordStep
  <2>2. ProgressOf(t)'
    BY <1>0, <1>6, EraseEffect DEF FenceCheck, Progress, ProgressOf, StampLabels
  <2> QED
    BY <2>1, <2>2
<1>7. ASSUME NEW t \in Threads, DropHPs(t) PROVE Frame(t) /\ ProgressOf(t)'
  <2>1. Frame(t)
    BY <1>0, <1>7 DEF DropHPs, ClearHPs, Frame, Still, RecordStep
  <2>2. ProgressOf(t)'
    BY <1>0, <1>7 DEF DropHPs, ClearHPs, Progress, ProgressOf, StampLabels
  <2> QED
    BY <2>1, <2>2
<1>8. ASSUME NEW t \in Threads, CasThenClear(t) PROVE Frame(t) /\ ProgressOf(t)'
  <2>1. Frame(t)
    BY <1>0, <1>8 DEF CasThenClear, ClearHPs, Frame, Still, RecordStep
  <2>2. ProgressOf(t)'
    BY <1>0, <1>8 DEF CasThenClear, ClearHPs, Progress, ProgressOf, StampLabels
  <2> QED
    BY <2>1, <2>2
<1>9. ASSUME NEW t \in Threads, ClearBeforeHelp(t) PROVE Frame(t) /\ ProgressOf(t)'
  <2>1. Frame(t)
    BY <1>0, <1>9, EraseEffect DEF ClearBeforeHelp, StoreZero, Frame, Still, RecordStep
  <2>2. ProgressOf(t)'
    BY <1>0, <1>9, EraseEffect DEF ClearBeforeHelp, StoreZero, Progress, ProgressOf, StampLabels
  <2> QED
    BY <2>1, <2>2
<1>10. ASSUME NEW t \in Threads, Help(t) PROVE Frame(t) /\ ProgressOf(t)'
  <2>1. Frame(t)
    BY <1>0, <1>10 DEF Help, Frame, Still, RecordStep
  <2>2. ProgressOf(t)'
    BY <1>0, <1>10 DEF Help, Progress, ProgressOf, StampLabels
  <2> QED
    BY <2>1, <2>2
<1>11. ASSUME NEW t \in Threads, ClearAfterHelp(t) PROVE Frame(t) /\ ProgressOf(t)'
  <2>1. Frame(t)
    BY <1>0, <1>11, EraseEffect DEF ClearAfterHelp, StoreZero, Frame, Still, RecordStep
  <2>2. ProgressOf(t)'
    BY <1>0, <1>11, EraseEffect DEF ClearAfterHelp, StoreZero, Progress, ProgressOf, StampLabels
  <2> QED
    BY <2>1, <2>2
<1>12. ASSUME NEW t \in Threads, PallocFromCache(t) PROVE Frame(t) /\ ProgressOf(t)'
  <2>1. Frame(t)
    BY <1>0, <1>12 DEF PallocFromCache, Frame, Still, RecordStep
  <2>2. ProgressOf(t)'
    BY <1>0, <1>12 DEF PallocFromCache, Progress, ProgressOf, StampLabels
  <2> QED
    BY <2>1, <2>2
<1>13. ASSUME NEW t \in Threads, PallocCacheEmpty(t) PROVE Frame(t) /\ ProgressOf(t)'
  <2>1. Frame(t)
    BY <1>0, <1>13 DEF PallocCacheEmpty, Frame, Still, RecordStep
  <2>2. ProgressOf(t)'
    BY <1>0, <1>13 DEF PallocCacheEmpty, Progress, ProgressOf, StampLabels
  <2> QED
    BY <2>1, <2>2
<1>14. ASSUME NEW t \in Threads, PopCache(t) PROVE Frame(t) /\ ProgressOf(t)'
  <2>1. Frame(t)
    BY <1>0, <1>14 DEF PopCache, Frame, Still, RecordStep
  <2>2. ProgressOf(t)'
    BY <1>0, <1>14 DEF PopCache, Progress, ProgressOf, StampLabels
  <2> QED
    BY <2>1, <2>2
<1>15. ASSUME NEW t \in Threads, PopFails(t) PROVE Frame(t) /\ ProgressOf(t)'
  <2>1. Frame(t)
    BY <1>0, <1>15 DEF PopFails, Frame, Still, RecordStep
  <2>2. ProgressOf(t)'
    BY <1>0, <1>15 DEF PopFails, Progress, ProgressOf, StampLabels
  <2> QED
    BY <2>1, <2>2
<1>16. ASSUME NEW t \in Threads, AfterTrigger(t) PROVE Frame(t) /\ ProgressOf(t)'
  <2>1. Frame(t)
    BY <1>0, <1>16 DEF AfterTrigger, Frame, Still, RecordStep
  <2>2. ProgressOf(t)'
    BY <1>0, <1>16 DEF AfterTrigger, Progress, ProgressOf, StampLabels
  <2> QED
    BY <2>1, <2>2
<1>17. ASSUME NEW t \in Threads, Advance(t) PROVE Frame(t) /\ ProgressOf(t)'
  <2>1. Frame(t)
    BY <1>0, <1>17 DEF Advance, Frame, Still, RecordStep
  <2>2. ProgressOf(t)'
    BY <1>0, <1>17 DEF Advance, Progress, ProgressOf, StampLabels
  <2> QED
    BY <2>1, <2>2
<1>18. ASSUME NEW t \in Threads, SwingHead(t) PROVE Frame(t) /\ ProgressOf(t)'
  <2>1. Frame(t)
    BY <1>0, <1>18 DEF SwingHead, Frame, Still, RecordStep
  <2>2. ProgressOf(t)'
    BY <1>0, <1>18 DEF SwingHead, Progress, ProgressOf, StampLabels
  <2> QED
    BY <2>1, <2>2
<1>19. ASSUME NEW t \in Threads, EnterPhase(t) PROVE Frame(t) /\ ProgressOf(t)'
  <2>1. Frame(t)
    BY <1>0, <1>19 DEF EnterPhase, Return, FirstRecord, Frame, Still, RecordStep
  <2>2. ProgressOf(t)'
    <3>1. localVer[t] + 1 <= phase /\ localVer'[t] = localVer[t] + 1
      BY <1>0, <1>19 DEF EnterPhase, VersionOrder
    <3>2. pc[t] = "enter" /\ cache[t] = NoCache
      BY <1>19 DEF EnterPhase, Progress, ProgressOf
    <3>3. CASE phase # localVer[t] + 1
      <4>1. /\ sweep.ph >= localVer[t] + 1
            /\ \A j \in Threads : dirty[j].ph >= localVer[t] + 1
        BY <3>1, <3>3 DEF VersionOrder
      <4>2. pc'[t] \in {"clear2", "triggered"}
        BY <1>0, <1>19, <3>3 DEF EnterPhase, Return
      <4> QED
        BY <1>19, <3>1, <3>2, <4>1, <4>2 DEF EnterPhase, ProgressOf, StampLabels
    <3>4. CASE phase = localVer[t] + 1
      <4>1. pc'[t] = "stampRead" /\ idx'[t] = 0 /\ att'[t] = 1 /\ cache'[t] = NoCache
        BY <1>0, <1>19, <3>2, <3>4 DEF EnterPhase, FirstRecord
      <4>2. \A j \in Threads : ~ (j < 0)
        BY DEF Threads
      <4> QED
        BY <4>1, <4>2 DEF ProgressOf, Attempt, StampLabels
    <3> QED
      BY <3>3, <3>4
  <2> QED
    BY <2>1, <2>2
<1>20. ASSUME NEW t \in Threads, StampRead(t) PROVE Frame(t) /\ ProgressOf(t)'
  <2>1. Frame(t)
    BY <1>0, <1>20 DEF StampRead, NextRecord, Frame, Still, RecordStep
  <2>2. ProgressOf(t)'
    <3>1. ProgressOf(t) /\ pc[t] = "stampRead" /\ idx[t] \in Threads
      BY <1>0, <1>20 DEF StampRead, Progress
    <3>2. /\ dirty' = dirty /\ localVer' = localVer /\ cache' = cache /\ sweep' = sweep
          /\ cache[t] = NoCache
      BY <1>20, <3>1 DEF StampRead, ProgressOf, StampLabels
    <3>3. CASE dirty[idx[t]].ph >= localVer[t]
      <4>1. NextRecord(t)
        BY <1>20, <3>3 DEF StampRead
      <4>2. \A j \in Threads : j < idx[t] => dirty'[j].ph >= localVer[t]
        BY <3>1, <3>2 DEF ProgressOf, StampLabels
      <4> QED
        BY <3>2, <3>3, <4>1, <4>2, RecordDone
    <3>4. CASE ~ (dirty[idx[t]].ph >= localVer[t])
      <4>1. /\ pc'[t] = "stampCas" /\ idx' = idx /\ att' = att
            /\ reg'[t] = dirty[idx[t]]
        BY <1>0, <1>20, <3>4 DEF StampRead
      <4> QED
        BY <3>1, <3>2, <3>4, <4>1 DEF ProgressOf, Attempt, StampLabels
    <3> QED
      BY <3>3, <3>4
  <2> QED
    BY <2>1, <2>2
<1>21. ASSUME NEW t \in Threads, StampCas(t) PROVE Frame(t) /\ ProgressOf(t)'
  <2>1. Frame(t)
    <3>1. ProgressOf(t) /\ pc[t] = "stampCas"
      BY <1>21 DEF StampCas, Progress
    <3>2. reg[t].ph < localVer[t]
      BY <3>1 DEF ProgressOf, Attempt, StampLabels
    <3>3. RecordStep
      BY <1>21, <3>2, StampEffect DEF StampCas, RecordStep
    <3>4. \A u \in Threads \ {t} : Still(u)
      BY <1>0, <1>21 DEF StampCas, NextRecord, Still
    <3> QED
      BY <3>3, <3>4 DEF Frame
  <2>2. ProgressOf(t)'
    <3>1. ProgressOf(t) /\ pc[t] = "stampCas" /\ idx[t] \in Threads
      BY <1>0, <1>21 DEF StampCas, Progress
    <3>2. /\ localVer' = localVer /\ cache' = cache /\ sweep' = sweep
          /\ cache[t] = NoCache
      BY <1>21, <3>1 DEF StampCas, ProgressOf, StampLabels
    <3>3. /\ \A j \in Threads : dirty'[j].ph >= dirty[j].ph /\ dirty'[j].ph \in Int
          /\ \A j \in Threads : j < idx[t] => dirty'[j].ph >= localVer[t]
      <4>1. reg[t].ph < localVer[t]
        BY <3>1 DEF ProgressOf, Attempt, StampLabels
      <4>2. \A j \in Threads : dirty'[j].ph >= dirty[j].ph /\ dirty'[j].ph \in Int
        BY <1>21, <4>1, StampEffect DEF StampCas
      <4>3. \A j \in Threads : j < idx[t] => dirty[j].ph >= localVer[t]
        BY <3>1 DEF ProgressOf, StampLabels
      <4> QED
        BY <4>2, <4>3
    <3>4. CASE att[t] = 1
      <4>1. pc'[t] = "stampRead" /\ idx' = idx /\ att'[t] = 2
        BY <1>0, <1>21, <3>4 DEF StampCas
      <4>2. dirty'[idx[t]].ph < localVer[t] => dirty'[idx[t]].bit = 0
        BY <1>21, <3>1, <3>4, StampEffect DEF StampCas, ProgressOf, Attempt, StampLabels
      <4> QED
        BY <3>2, <3>3, <4>1, <4>2 DEF ProgressOf, Attempt, StampLabels
    <3>5. CASE att[t] # 1
      <4>1. att[t] = 2
        BY <1>0, <3>5
      <4>2. dirty'[idx[t]].ph >= localVer[t]
        BY <1>21, <3>1, <4>1, StampEffect DEF StampCas, ProgressOf, Attempt, StampLabels
      <4>3. NextRecord(t)
        BY <1>21, <3>5 DEF StampCas
      <4> QED
        BY <3>1, <3>2, <3>3, <4>2, <4>3, RecordDone
    <3> QED
      BY <3>4, <3>5
  <2> QED
    BY <2>1, <2>2
<1>22. ASSUME NEW t \in Threads, SaveHP(t) PROVE Frame(t) /\ ProgressOf(t)'
  <2>1. Frame(t)
    BY <1>0, <1>22 DEF SaveHP, Frame, Still, RecordStep
  <2>2. ProgressOf(t)'
    BY <1>0, <1>22 DEF SaveHP, Progress, ProgressOf, StampLabels
  <2> QED
    BY <2>1, <2>2
<1>23. ASSUME NEW t \in Threads, ResetSweep(t) PROVE Frame(t) /\ ProgressOf(t)'
  <2>1. Frame(t)
    BY <1>0, <1>23 DEF ResetSweep, Frame, Still, RecordStep
  <2>2. ProgressOf(t)'
    <3>1. /\ pc[t] = "reset" /\ pc'[t] = "sweep" /\ localVer' = localVer
          /\ cache' = cache /\ dirty' = dirty
      BY <1>0, <1>23 DEF ResetSweep
    <3>2. sweep'.ph >= localVer[t]
      BY <1>0, <1>23 DEF ResetSweep
    <3> QED
      BY <3>1, <3>2 DEF Progress, ProgressOf, StampLabels
  <2> QED
    BY <2>1, <2>2
<1>24. ASSUME NEW t \in Threads, ClaimPage(t) PROVE Frame(t) /\ ProgressOf(t)'
  <2>1. Frame(t)
    BY <1>0, <1>24 DEF ClaimPage, Frame, Still, RecordStep
  <2>2. ProgressOf(t)'
    BY <1>0, <1>24 DEF ClaimPage, Progress, ProgressOf, StampLabels
  <2> QED
    BY <2>1, <2>2
<1>25. ASSUME NEW t \in Threads, FreeObject(t) PROVE Frame(t) /\ ProgressOf(t)'
  <2>1. Frame(t)
    BY <1>0, <1>25 DEF FreeObject, PushCache, Frame, Still, RecordStep
  <2>2. ProgressOf(t)'
    BY <1>0, <1>25 DEF FreeObject, PushCache, Progress, ProgressOf, StampLabels
  <2> QED
    BY <2>1, <2>2
<1>26. ASSUME NEW t \in Threads, SweepEnds(t) PROVE Frame(t) /\ ProgressOf(t)'
  <2>1. Frame(t)
    BY <1>0, <1>26 DEF SweepEnds, Frame, Still, RecordStep
  <2>2. ProgressOf(t)'
    BY <1>0, <1>26 DEF SweepEnds, Progress, ProgressOf, StampLabels
  <2> QED
    BY <2>1, <2>2
<1>27. ASSUME NEW t \in Threads, LastPush(t) PROVE Frame(t) /\ ProgressOf(t)'
  <2>1. Frame(t)
    BY <1>0, <1>27 DEF LastPush, PushCache, Return, Frame, Still, RecordStep
  <2>2. ProgressOf(t)'
    BY <1>0, <1>27 DEF LastPush, PushCache, Return, Progress, ProgressOf, StampLabels
  <2> QED
    BY <2>1, <2>2
<1>28. ASSUME NEW t \in Threads, Drain(t) PROVE Frame(t) /\ ProgressOf(t)'
  <2>1. Frame(t)
    BY <1>0, <1>28, EraseEffect DEF Drain, Frame, Still, RecordStep
  <2>2. ProgressOf(t)'
    <3>1. Still(t)
      BY <1>28 DEF Drain, Still
    <3> QED
      BY <2>1, <3>1, Bystander DEF Frame
  <2> QED
    BY <2>1, <2>2
<1>29. CASE AtBound
  BY <1>29 DEF AtBound, vars, Progress, ProgressOf, Attempt
<1>30. ASSUME NEW t \in Threads, Frame(t), ProgressOf(t)' PROVE Progress'
  BY <1>30, Bystander DEF Progress, Frame
<1> QED
  BY <1>1, <1>2, <1>3, <1>4, <1>5, <1>6, <1>7, <1>8, <1>9, <1>10, <1>11, <1>12, <1>13, <1>14, <1>15, <1>16, <1>17, <1>18, <1>19, <1>20, <1>21, <1>22, <1>23, <1>24, <1>25, <1>26, <1>27, <1>28, <1>29, <1>30 DEF Next, Mutator, Collector

\* VersionInv holds initially.
LEMMA InitVersionInv == Init => VersionInv
<1> SUFFICES ASSUME Init PROVE VersionInv
  OBVIOUS
<1> USE PhaseAssumption, LabelFacts, NothingType, FirstThread DEF Init
<1>1. TypeOK
  BY DEF TypeOK, Versions, Fillings, NoCache, Objects, NoObj
<1>2. VersionOrder
  BY DEF VersionOrder, Nothing
<1>3. Progress
  BY DEF Progress, ProgressOf, StampLabels, Nothing
<1> QED
  BY <1>1, <1>2, <1>3 DEF VersionInv

\* VersionInv survives stuttering.
LEMMA StutterVersionInv ==
    ASSUME VersionInv, UNCHANGED vars
    PROVE  VersionInv'
  BY DEF VersionInv, TypeOK, VersionOrder, Progress, ProgressOf, Attempt, vars,
         gcVars, mutVars, locals, loops, ghosts

\* The versions stay in order and every thread's progress is what its label
\* says, in every reachable state and for any number of threads and phases.
THEOREM VersionInvariant == Spec => []VersionInv
<1>1. VersionInv /\ [Next]_vars => VersionInv'
  <2> SUFFICES ASSUME VersionInv, [Next]_vars PROVE VersionInv'
    OBVIOUS
  <2>1. CASE Next
    <3>1. TypeOK'
      BY <2>1, TypeStep DEF VersionInv
    <3> QED
      BY <2>1, <3>1, OrderStep, ProgressStep DEF VersionInv
  <2>2. CASE UNCHANGED vars
    BY <2>2, StutterVersionInv
  <2> QED
    BY <2>1, <2>2
<1> QED
  BY <1>1, InitVersionInv, PTL DEF Spec

\* Every variable keeps its type; in particular no version passes the bound.
THEOREM TypeCorrect == Spec => []TypeOK
<1>1. VersionInv => TypeOK
  BY DEF VersionInv
<1> QED
  BY <1>1, VersionInvariant, PTL

\* Two attempts per record suffice: a thread that goes on to save the hazard
\* pointers has left no record without the stamp of its phase.
THEOREM StampingCompletes == Spec => []StampComplete
<1>1. VersionInv => StampComplete
  BY DEF VersionInv, Progress, ProgressOf, StampComplete, StampLabels, SweepLabels
<1> QED
  BY <1>1, VersionInvariant, PTL

\* The assertions trace.c:109, allocator.c:105 and allocator.c:146 never fail.
THEOREM AssertionsHold == Spec => []Assertions
<1>1. VersionInv => Assertions
  <2> SUFFICES ASSUME VersionInv, NEW t \in Threads
               PROVE  /\ pc[t] = "reset" => sweep.ph >= localVer[t] - 1
                      /\ pc[t] \in SweepLabels => sweep.ph >= localVer[t]
                      /\ pc[t] = "pop" => cache[t] = NoCache
    BY DEF Assertions
  <2>1. sweep.ph >= localVer[t] - 1
    BY Ints DEF VersionInv, VersionOrder
  <2> QED
    BY <2>1 DEF VersionInv, Progress, ProgressOf, StampLabels, SweepLabels
<1> QED
  BY <1>1, VersionInvariant, PTL

\* t is in the stamping loop and goes on with it or starts to save.
StartsSaving(t) ==
    /\ pc[t] \in StampLabels
    /\ \/ pc'[t] \in StampLabels
       \/ pc'[t] = "saveHP" /\ idx'[t] = 0
    /\ \A u \in Threads \ {t} : pc'[u] = pc[u] /\ idx'[u] = idx[u]
    /\ localVer' = localVer /\ seen' = seen /\ hpSeen' = hpSeen

\* Going on to the next record stays in the loop or starts to save.
LEMMA NextRecordSaves ==
    ASSUME TypeOK, NEW t \in Threads, pc[t] \in StampLabels, NextRecord(t),
           localVer' = localVer, seen' = seen, hpSeen' = hpSeen
    PROVE  StartsSaving(t)
<1> USE DEF Goto
<1>1. \A u \in Threads \ {t} : pc'[u] = pc[u] /\ idx'[u] = idx[u]
  BY DEF NextRecord, TypeOK
<1>2. \/ pc'[t] = "stampRead"
      \/ pc'[t] = "saveHP" /\ idx'[t] = 0
  <2>1. CASE idx[t] + 1 < N
    BY <2>1 DEF NextRecord, TypeOK
  <2>2. CASE ~ (idx[t] + 1 < N)
    BY <2>2 DEF NextRecord, TypeOK
  <2> QED
    BY <2>1, <2>2
<1> QED
  BY <1>1, <1>2 DEF StartsSaving, StampLabels

\* A thread that starts to save hazard pointers has saved none yet, and nobody
\* else's position changes: Covered is kept.
LEMMA StampingCovers ==
    ASSUME Covered, NEW t \in Threads, StartsSaving(t)
    PROVE  Covered'
<1>1. \A v \in Threads : ~ HasSaved(t, v)'
  <2>1. \A v \in Threads : ~ (v < 0)
    BY DEF Threads
  <2> QED
    BY <2>1 DEF HasSaved, StartsSaving, StampLabels, SweepLabels
<1>2. \A u \in Threads \ {t} : \A v \in Threads : HasSaved(u, v)' <=> HasSaved(u, v)
  BY DEF HasSaved, StartsSaving
<1>3. \A v \in Threads : pc'[v] = "cas" <=> pc[v] = "cas"
  BY DEF StartsSaving, StampLabels
<1> QED
  BY <1>1, <1>2, <1>3 DEF Covered, StartsSaving

\* Every step keeps the handshake, if stores are in order.
LEMMA HandshakeStep ==
    ASSUME TSO = 0, VersionInv, TypeOK', HandshakeInv, Next
    PROVE  HandshakeInv'
<1> USE Ints DEF VersionInv, HandshakeInv, Goto, gcVars, mutVars, ghosts, locals, loops
<1>0. /\ pc \in [Threads -> Labels] /\ localVer \in [Threads -> Versions]
      /\ idx \in [Threads -> Threads] /\ dirty \in [Threads -> Records]
      /\ reg \in [Threads -> Records]
      /\ wbuf \in [Threads -> Nat] /\ hp \in [Threads -> 0 .. 1]
      /\ seen \in [Threads -> Versions] /\ ret \in [Threads -> {"macro", "palloc"}]
      /\ hpSeen \in [Threads -> SUBSET Threads]
      /\ \A t \in Threads : seen[t] \in Int
  BY DEF TypeOK, Versions
<1>1. ASSUME NEW t \in Threads, StartTraversal(t) PROVE HandshakeInv'
  <2>1. \A u \in Threads : HandshakeOf(u)'
    BY <1>0, <1>1 DEF StartTraversal, HandshakeOf, Traversing, MutLabels
  <2>2. Covered'
    BY <1>0, <1>1 DEF StartTraversal, Covered, HasSaved, SweepLabels
  <2> QED
    BY <2>1, <2>2
<1>2. ASSUME NEW t \in Threads, CheckDirty(t) PROVE HandshakeInv'
  <2>1. \A u \in Threads : HandshakeOf(u)'
    BY <1>0, <1>2 DEF CheckDirty, ReadBit, HandshakeOf, Traversing, MutLabels
  <2>2. Covered'
    BY <1>0, <1>2 DEF CheckDirty, ReadBit, Covered, HasSaved, SweepLabels
  <2> QED
    BY <2>1, <2>2
<1>3. ASSUME NEW t \in Threads, CheckClean(t) PROVE HandshakeInv'
  <2>1. \A u \in Threads : HandshakeOf(u)'
    BY <1>0, <1>3 DEF CheckClean, ReadBit, HandshakeOf, Traversing, MutLabels
  <2>2. Covered'
    BY <1>0, <1>3 DEF CheckClean, ReadBit, Covered, HasSaved, SweepLabels
  <2> QED
    BY <2>1, <2>2
<1>4. ASSUME NEW t \in Threads, EndOfList(t) PROVE HandshakeInv'
  <2>1. \A u \in Threads : HandshakeOf(u)'
    BY <1>0, <1>4 DEF EndOfList, HandshakeOf, Traversing, MutLabels
  <2>2. Covered'
    BY <1>0, <1>4 DEF EndOfList, Covered, HasSaved, SweepLabels
  <2> QED
    BY <2>1, <2>2
<1>5. ASSUME NEW t \in Threads, PublishHPs(t) PROVE HandshakeInv'
  <2>1. \A u \in Threads : HandshakeOf(u)'
    BY <1>0, <1>5 DEF PublishHPs, HandshakeOf, Traversing, MutLabels
  <2>2. Covered'
    BY <1>0, <1>5 DEF PublishHPs, Covered, HasSaved, SweepLabels
  <2> QED
    BY <2>1, <2>2
<1>6. ASSUME NEW t \in Threads, FenceCheck(t) PROVE HandshakeInv'
  <2>1. \A u \in Threads : HandshakeOf(u)'
    BY <1>0, <1>6, EraseEffect DEF FenceCheck, HandshakeOf, Traversing, MutLabels
  <2>2. Covered'
    <3>1. /\ \A u \in Threads \ {t} : pc'[u] = pc[u]
          /\ pc[t] = "fence" /\ pc'[t] \in {"drop", "cas"}
          /\ seen' = seen /\ localVer' = localVer /\ idx' = idx /\ hpSeen' = hpSeen
      BY <1>0, <1>6 DEF FenceCheck
    <3>2. pc'[t] = "cas" => seen[t] >= dirty[t].ph
      BY <1>0, <1>6 DEF FenceCheck, HandshakeOf, Traversing
    <3>3. \A u, v \in Threads : HasSaved(u, v)' <=> HasSaved(u, v)
      BY <3>1 DEF HasSaved, SweepLabels
    <3>4. \A u \in Threads : HasSaved(u, t) => dirty[t].ph >= localVer[u]
      BY DEF HasSaved, Progress, ProgressOf, StampLabels, SweepLabels
    <3> QED
      BY <1>0, <3>1, <3>2, <3>3, <3>4 DEF Covered
  <2> QED
    BY <2>1, <2>2
<1>7. ASSUME NEW t \in Threads, DropHPs(t) PROVE HandshakeInv'
  <2>1. \A u \in Threads : HandshakeOf(u)'
    BY <1>0, <1>7 DEF DropHPs, ClearHPs, HandshakeOf, Traversing, MutLabels
  <2>2. Covered'
    BY <1>0, <1>7 DEF DropHPs, ClearHPs, Covered, HasSaved, SweepLabels
  <2> QED
    BY <2>1, <2>2
<1>8. ASSUME NEW t \in Threads, CasThenClear(t) PROVE HandshakeInv'
  <2>1. \A u \in Threads : HandshakeOf(u)'
    BY <1>0, <1>8 DEF CasThenClear, ClearHPs, HandshakeOf, Traversing, MutLabels
  <2>2. Covered'
    BY <1>0, <1>8 DEF CasThenClear, ClearHPs, Covered, HasSaved, SweepLabels
  <2> QED
    BY <2>1, <2>2
<1>9. ASSUME NEW t \in Threads, ClearBeforeHelp(t) PROVE HandshakeInv'
  <2>1. \A u \in Threads : HandshakeOf(u)'
    BY <1>0, <1>9, EraseEffect DEF ClearBeforeHelp, StoreZero, HandshakeOf, Traversing, MutLabels
  <2>2. Covered'
    BY <1>0, <1>9, EraseEffect DEF ClearBeforeHelp, StoreZero, Covered, HasSaved, SweepLabels
  <2> QED
    BY <2>1, <2>2
<1>10. ASSUME NEW t \in Threads, Help(t) PROVE HandshakeInv'
  <2>1. \A u \in Threads : HandshakeOf(u)'
    BY <1>0, <1>10 DEF Help, HandshakeOf, Traversing, MutLabels
  <2>2. Covered'
    BY <1>0, <1>10 DEF Help, Covered, HasSaved, SweepLabels
  <2> QED
    BY <2>1, <2>2
<1>11. ASSUME NEW t \in Threads, ClearAfterHelp(t) PROVE HandshakeInv'
  <2>1. \A u \in Threads : HandshakeOf(u)'
    BY <1>0, <1>11, EraseEffect DEF ClearAfterHelp, StoreZero, HandshakeOf, Traversing, MutLabels
  <2>2. Covered'
    BY <1>0, <1>11, EraseEffect DEF ClearAfterHelp, StoreZero, Covered, HasSaved, SweepLabels
  <2> QED
    BY <2>1, <2>2
<1>12. ASSUME NEW t \in Threads, PallocFromCache(t) PROVE HandshakeInv'
  <2>1. \A u \in Threads : HandshakeOf(u)'
    BY <1>0, <1>12 DEF PallocFromCache, HandshakeOf, Traversing, MutLabels
  <2>2. Covered'
    BY <1>0, <1>12 DEF PallocFromCache, Covered, HasSaved, SweepLabels
  <2> QED
    BY <2>1, <2>2
<1>13. ASSUME NEW t \in Threads, PallocCacheEmpty(t) PROVE HandshakeInv'
  <2>1. \A u \in Threads : HandshakeOf(u)'
    BY <1>0, <1>13 DEF PallocCacheEmpty, HandshakeOf, Traversing, MutLabels
  <2>2. Covered'
    BY <1>0, <1>13 DEF PallocCacheEmpty, Covered, HasSaved, SweepLabels
  <2> QED
    BY <2>1, <2>2
<1>14. ASSUME NEW t \in Threads, PopCache(t) PROVE HandshakeInv'
  <2>1. \A u \in Threads : HandshakeOf(u)'
    BY <1>0, <1>14 DEF PopCache, HandshakeOf, Traversing, MutLabels
  <2>2. Covered'
    BY <1>0, <1>14 DEF PopCache, Covered, HasSaved, SweepLabels
  <2> QED
    BY <2>1, <2>2
<1>15. ASSUME NEW t \in Threads, PopFails(t) PROVE HandshakeInv'
  <2>1. \A u \in Threads : HandshakeOf(u)'
    BY <1>0, <1>15 DEF PopFails, HandshakeOf, Traversing, MutLabels
  <2>2. Covered'
    BY <1>0, <1>15 DEF PopFails, Covered, HasSaved, SweepLabels
  <2> QED
    BY <2>1, <2>2
<1>16. ASSUME NEW t \in Threads, AfterTrigger(t) PROVE HandshakeInv'
  <2>1. \A u \in Threads : HandshakeOf(u)'
    BY <1>0, <1>16 DEF AfterTrigger, ReadBit, HandshakeOf, Traversing, MutLabels
  <2>2. Covered'
    BY <1>0, <1>16 DEF AfterTrigger, ReadBit, Covered, HasSaved, SweepLabels
  <2> QED
    BY <2>1, <2>2
<1>17. ASSUME NEW t \in Threads, Advance(t) PROVE HandshakeInv'
  <2>1. \A u \in Threads : HandshakeOf(u)'
    BY <1>0, <1>17 DEF Advance, HandshakeOf, Traversing, MutLabels
  <2>2. Covered'
    BY <1>0, <1>17 DEF Advance, Covered, HasSaved, SweepLabels
  <2> QED
    BY <2>1, <2>2
<1>18. ASSUME NEW t \in Threads, SwingHead(t) PROVE HandshakeInv'
  <2>1. \A u \in Threads : HandshakeOf(u)'
    BY <1>0, <1>18 DEF SwingHead, HandshakeOf, Traversing, MutLabels
  <2>2. Covered'
    BY <1>0, <1>18 DEF SwingHead, Covered, HasSaved, SweepLabels
  <2> QED
    BY <2>1, <2>2
<1>19. ASSUME NEW t \in Threads, EnterPhase(t) PROVE HandshakeInv'
  <2>1. \A u \in Threads : HandshakeOf(u)'
    <3>1. /\ pc[t] = "enter" /\ \A u \in Threads \ {t} : pc'[u] = pc[u]
          /\ dirty' = dirty /\ wbuf' = wbuf /\ hp' = hp /\ seen' = seen /\ ret' = ret
      BY <1>0, <1>19 DEF EnterPhase, Return
    <3>2. /\ pc'[t] \in {"clear2", "triggered", "stampRead"}
          /\ pc'[t] = "triggered" => ret[t] = "palloc"
      BY <1>0, <1>19 DEF EnterPhase, Return
    <3> QED
      BY <1>0, <3>1, <3>2 DEF HandshakeOf, Traversing, MutLabels
  <2>2. Covered'
    BY <1>0, <1>19 DEF EnterPhase, Return, FirstRecord, Covered, HasSaved, SweepLabels
  <2> QED
    BY <2>1, <2>2
<1>20. ASSUME NEW t \in Threads, StampRead(t) PROVE HandshakeInv'
  <2>1. \A u \in Threads : HandshakeOf(u)'
    BY <1>0, <1>20 DEF StampRead, NextRecord, HandshakeOf, Traversing, MutLabels
  <2>2. Covered'
    <3>1. StartsSaving(t)
      <4>0. /\ pc[t] \in StampLabels
            /\ localVer' = localVer /\ seen' = seen /\ hpSeen' = hpSeen
        BY <1>20 DEF StampRead, StampLabels
      <4>1. CASE NextRecord(t)
        BY <1>0, <4>0, <4>1, NextRecordSaves
      <4>2. CASE ~ NextRecord(t)
        BY <1>0, <1>20, <4>0, <4>2 DEF StampRead, StartsSaving, StampLabels
      <4> QED
        BY <4>1, <4>2
    <3> QED
      BY <3>1, StampingCovers
  <2> QED
    BY <2>1, <2>2
<1>21. ASSUME NEW t \in Threads, StampCas(t) PROVE HandshakeInv'
  <2>1. \A u \in Threads : HandshakeOf(u)'
    <3>1. reg[t].ph < localVer[t] /\ pc[t] = "stampCas"
      BY <1>21 DEF StampCas, Progress, ProgressOf, Attempt, StampLabels
    <3>2. \A u \in Threads :
            /\ dirty'[u] = dirty[u] \/ (dirty'[u].bit = 1 /\ dirty'[u].ph >= dirty[u].ph)
            /\ dirty'[u].ph \in Int
      BY <1>21, <3>1, StampEffect DEF StampCas
    <3>3. /\ wbuf' = wbuf /\ seen' = seen /\ hp' = hp /\ ret' = ret
          /\ \A u \in Threads \ {t} : pc'[u] = pc[u]
          /\ pc'[t] \in {"stampRead", "saveHP"}
      BY <1>0, <1>21 DEF StampCas, NextRecord
    <3>4. \A u \in Threads : Traversing(u)' <=> Traversing(u)
      BY <3>1, <3>3 DEF Traversing, MutLabels
    <3> QED
      BY <1>0, <3>1, <3>2, <3>3, <3>4 DEF HandshakeOf
  <2>2. Covered'
    <3>1. StartsSaving(t)
      <4>0. /\ pc[t] \in StampLabels
            /\ localVer' = localVer /\ seen' = seen /\ hpSeen' = hpSeen
        BY <1>21 DEF StampCas, StampLabels
      <4>1. CASE NextRecord(t)
        BY <1>0, <4>0, <4>1, NextRecordSaves
      <4>2. CASE ~ NextRecord(t)
        BY <1>0, <1>21, <4>0, <4>2 DEF StampCas, StartsSaving, StampLabels
      <4> QED
        BY <4>1, <4>2
    <3> QED
      BY <3>1, StampingCovers
  <2> QED
    BY <2>1, <2>2
<1>22. ASSUME NEW t \in Threads, SaveHP(t) PROVE HandshakeInv'
  <2>1. \A u \in Threads : HandshakeOf(u)'
    BY <1>0, <1>22 DEF SaveHP, HandshakeOf, Traversing, MutLabels
  <2>2. Covered'
    <3>1. /\ pc[t] = "saveHP" /\ localVer' = localVer /\ seen' = seen
          /\ \A u \in Threads \ {t} : pc'[u] = pc[u] /\ idx'[u] = idx[u] /\ hpSeen'[u] = hpSeen[u]
          /\ \/ pc'[t] = "saveHP" /\ idx'[t] = idx[t] + 1
             \/ pc'[t] = "reset" /\ ~ (idx[t] + 1 < N)
      <4>1. CASE idx[t] + 1 < N
        BY <1>0, <1>22, <4>1 DEF SaveHP
      <4>2. CASE ~ (idx[t] + 1 < N)
        BY <1>0, <1>22, <4>2 DEF SaveHP
      <4> QED
        BY <4>1, <4>2
    <3>2. \A v \in Threads \ {idx[t]} : v \in hpSeen'[t] <=> v \in hpSeen[t]
      BY <1>0, <1>22 DEF SaveHP
    <3>3. pc[idx[t]] = "cas" => idx[t] \in hpSeen'[t]
      BY <1>0, <1>22 DEF SaveHP, HandshakeOf
    <3>4. \A v \in Threads : HasSaved(t, v)' => v < idx[t] \/ v = idx[t]
      <4>1. idx[t] \in 0 .. N - 1 /\ N \in Nat
        BY <1>0, PhaseAssumption DEF Threads
      <4> QED
        BY <3>1, <4>1 DEF HasSaved, Threads, SweepLabels
    <3>5. \A v \in Threads : pc[v] = "cas" /\ HasSaved(t, v)' /\ seen[v] < localVer[t]
                                => v \in hpSeen'[t]
      BY <1>0, <3>1, <3>2, <3>3, <3>4 DEF Covered, HasSaved
    <3>6. \A u \in Threads \ {t} : \A v \in Threads : HasSaved(u, v)' <=> HasSaved(u, v)
      BY <3>1 DEF HasSaved
    <3>7. \A v \in Threads : pc'[v] = "cas" <=> pc[v] = "cas"
      BY <3>1
    <3> QED
      BY <1>0, <3>1, <3>5, <3>6, <3>7 DEF Covered
  <2> QED
    BY <2>1, <2>2
<1>23. ASSUME NEW t \in Threads, ResetSweep(t) PROVE HandshakeInv'
  <2>1. \A u \in Threads : HandshakeOf(u)'
    BY <1>0, <1>23 DEF ResetSweep, HandshakeOf, Traversing, MutLabels
  <2>2. Covered'
    BY <1>0, <1>23 DEF ResetSweep, Covered, HasSaved, SweepLabels
  <2> QED
    BY <2>1, <2>2
<1>24. ASSUME NEW t \in Threads, ClaimPage(t) PROVE HandshakeInv'
  <2>1. \A u \in Threads : HandshakeOf(u)'
    BY <1>0, <1>24 DEF ClaimPage, HandshakeOf, Traversing, MutLabels
  <2>2. Covered'
    BY <1>0, <1>24 DEF ClaimPage, Covered, HasSaved, SweepLabels
  <2> QED
    BY <2>1, <2>2
<1>25. ASSUME NEW t \in Threads, FreeObject(t) PROVE HandshakeInv'
  <2>1. \A u \in Threads : HandshakeOf(u)'
    BY <1>0, <1>25 DEF FreeObject, PushCache, HandshakeOf, Traversing, MutLabels
  <2>2. Covered'
    BY <1>0, <1>25 DEF FreeObject, PushCache, Covered, HasSaved, SweepLabels
  <2> QED
    BY <2>1, <2>2
<1>26. ASSUME NEW t \in Threads, SweepEnds(t) PROVE HandshakeInv'
  <2>1. \A u \in Threads : HandshakeOf(u)'
    BY <1>0, <1>26 DEF SweepEnds, HandshakeOf, Traversing, MutLabels
  <2>2. Covered'
    BY <1>0, <1>26 DEF SweepEnds, Covered, HasSaved, SweepLabels
  <2> QED
    BY <2>1, <2>2
<1>27. ASSUME NEW t \in Threads, LastPush(t) PROVE HandshakeInv'
  <2>1. \A u \in Threads : HandshakeOf(u)'
    BY <1>0, <1>27 DEF LastPush, PushCache, Return, HandshakeOf, Traversing, MutLabels
  <2>2. Covered'
    BY <1>0, <1>27 DEF LastPush, PushCache, Return, Covered, HasSaved, SweepLabels
  <2> QED
    BY <2>1, <2>2
<1>28. ASSUME NEW t \in Threads, Drain(t) PROVE HandshakeInv'
  <2>1. \A u \in Threads : HandshakeOf(u)'
    BY <1>0, <1>28, EraseEffect DEF Drain, HandshakeOf, Traversing, MutLabels
  <2>2. Covered'
    BY <1>0, <1>28, EraseEffect DEF Drain, Covered, HasSaved, SweepLabels
  <2> QED
    BY <2>1, <2>2
<1>29. CASE AtBound
  BY <1>29 DEF AtBound, vars, HandshakeOf, Traversing, Covered, HasSaved
<1> QED
  BY <1>1, <1>2, <1>3, <1>4, <1>5, <1>6, <1>7, <1>8, <1>9, <1>10, <1>11, <1>12, <1>13, <1>14, <1>15, <1>16, <1>17, <1>18, <1>19, <1>20, <1>21, <1>22, <1>23, <1>24, <1>25, <1>26, <1>27, <1>28, <1>29 DEF Next, Mutator, Collector

\* The handshake holds initially.
LEMMA InitHandshake ==
    ASSUME Init
    PROVE  HandshakeInv
<1> USE PhaseAssumption DEF Init
<1>1. \A t \in Threads : HandshakeOf(t)
  BY DEF HandshakeOf, Traversing, MutLabels, Nothing
<1> QED
  BY <1>1 DEF HandshakeInv, Covered

\* The handshake survives stuttering.
LEMMA HandshakeStutter ==
    ASSUME HandshakeInv, UNCHANGED vars
    PROVE  HandshakeInv'
  BY DEF HandshakeInv, HandshakeOf, Traversing, Covered, HasSaved, vars,
         gcVars, mutVars, locals, loops, ghosts

\* With stores in program order, the stamps and the hazard pointers keep the
\* handshake's invariant.
THEOREM HandshakeInvariant ==
    ASSUME TSO = 0
    PROVE  Spec => [](VersionInv /\ HandshakeInv)
<1>1. VersionInv /\ VersionInv' /\ HandshakeInv /\ [Next]_vars => HandshakeInv'
  <2> SUFFICES ASSUME VersionInv, VersionInv', HandshakeInv, [Next]_vars
               PROVE  HandshakeInv'
    OBVIOUS
  <2>1. CASE Next
    BY <2>1, HandshakeStep DEF VersionInv
  <2>2. CASE UNCHANGED vars
    BY <2>2, HandshakeStutter
  <2> QED
    BY <2>1, <2>2
<1>2. Init => HandshakeInv
  BY InitHandshake
<1> QED
  BY <1>1, <1>2, VersionInvariant, PTL DEF Spec

\* Whoever is about to CAS on what it read before a collection notified it is
\* covered by the hazard pointers that collection traces from.
THEOREM HandshakeCovers ==
    ASSUME TSO = 0
    PROVE  Spec => []Covered
<1>1. VersionInv /\ HandshakeInv => Covered
  BY DEF HandshakeInv
<1> QED
  BY <1>1, HandshakeInvariant, PTL

\* CHECK validates the reads before it, when stores are in program order.
THEOREM ChecksValidate ==
    ASSUME TSO = 0
    PROVE  Spec => ReadsValidated
<1>1. VersionInv /\ HandshakeInv =>
        [\A t \in Threads : CheckClean(t) => dirty[t].ph = seen[t]]_vars
  <2> SUFFICES ASSUME VersionInv, HandshakeInv, NEW t \in Threads, CheckClean(t)
               PROVE  dirty[t].ph = seen[t]
    OBVIOUS
  <2>1. HandshakeOf(t) /\ pc[t] = "walk" /\ ReadBit(t) = 0
    BY DEF HandshakeInv, CheckClean
  <2>2. dirty[t].bit = 0
    BY <2>1 DEF HandshakeOf, ReadBit
  <2>3. dirty[t].ph \in Int /\ seen[t] \in Int
    BY Ints DEF VersionInv, TypeOK, Versions
  <2> QED
    BY <2>1, <2>2, <2>3 DEF HandshakeOf, Traversing
<1> QED
  BY <1>1, HandshakeInvariant, PTL DEF ReadsValidated

-----------------------------------------------------------------------------
\* Every step keeps HandedOutAfterTrace: the pool gets a cache only from a
\* sweeper of the pool's own version.
LEMMA HandOutStep ==
    ASSUME VersionInv, TypeOK', HandedOutAfterTrace, Next
    PROVE  HandedOutAfterTrace'
<1> USE Ints DEF VersionInv, HandedOutAfterTrace, gcVars, mutVars, ghosts, locals, loops
<1>0. /\ obj \in [Threads -> Objects]
      /\ head \in [ver : Versions, cnt : Nat]
      /\ sweep \in [ph : Versions, ctr : 0 .. Pages]
      /\ sweep'.ph \in Int /\ head'.ver \in Int
      /\ \A t \in Threads : obj[t] \in Int
  BY DEF TypeOK, Objects, Versions, NoObj, NullObj
<1>1. ASSUME NEW t \in Threads, StartTraversal(t) PROVE HandedOutAfterTrace'
  BY <1>0, <1>1 DEF StartTraversal, NoObj
<1>2. ASSUME NEW t \in Threads, CheckDirty(t) PROVE HandedOutAfterTrace'
  BY <1>0, <1>2 DEF CheckDirty
<1>3. ASSUME NEW t \in Threads, CheckClean(t) PROVE HandedOutAfterTrace'
  BY <1>0, <1>3 DEF CheckClean
<1>4. ASSUME NEW t \in Threads, EndOfList(t) PROVE HandedOutAfterTrace'
  BY <1>0, <1>4 DEF EndOfList
<1>5. ASSUME NEW t \in Threads, PublishHPs(t) PROVE HandedOutAfterTrace'
  BY <1>0, <1>5 DEF PublishHPs
<1>6. ASSUME NEW t \in Threads, FenceCheck(t) PROVE HandedOutAfterTrace'
  BY <1>0, <1>6 DEF FenceCheck
<1>7. ASSUME NEW t \in Threads, DropHPs(t) PROVE HandedOutAfterTrace'
  BY <1>0, <1>7 DEF DropHPs
<1>8. ASSUME NEW t \in Threads, CasThenClear(t) PROVE HandedOutAfterTrace'
  BY <1>0, <1>8 DEF CasThenClear
<1>9. ASSUME NEW t \in Threads, ClearBeforeHelp(t) PROVE HandedOutAfterTrace'
  BY <1>0, <1>9 DEF ClearBeforeHelp
<1>10. ASSUME NEW t \in Threads, Help(t) PROVE HandedOutAfterTrace'
  BY <1>0, <1>10 DEF Help
<1>11. ASSUME NEW t \in Threads, ClearAfterHelp(t) PROVE HandedOutAfterTrace'
  BY <1>0, <1>11 DEF ClearAfterHelp
<1>12. ASSUME NEW t \in Threads, PallocFromCache(t) PROVE HandedOutAfterTrace'
  <2>1. sweep.ph >= localVer[t]
    BY <1>12 DEF PallocFromCache, Progress, ProgressOf, StampLabels
  <2> QED
    BY <1>0, <1>12, <2>1 DEF PallocFromCache
<1>13. ASSUME NEW t \in Threads, PallocCacheEmpty(t) PROVE HandedOutAfterTrace'
  BY <1>0, <1>13 DEF PallocCacheEmpty
<1>14. ASSUME NEW t \in Threads, PopCache(t) PROVE HandedOutAfterTrace'
  BY <1>0, <1>14 DEF PopCache
<1>15. ASSUME NEW t \in Threads, PopFails(t) PROVE HandedOutAfterTrace'
  BY <1>0, <1>15 DEF PopFails
<1>16. ASSUME NEW t \in Threads, AfterTrigger(t) PROVE HandedOutAfterTrace'
  BY <1>0, <1>16 DEF AfterTrigger, NullObj
<1>17. ASSUME NEW t \in Threads, Advance(t) PROVE HandedOutAfterTrace'
  BY <1>0, <1>17 DEF Advance
<1>18. ASSUME NEW t \in Threads, SwingHead(t) PROVE HandedOutAfterTrace'
  BY <1>0, <1>18 DEF SwingHead
<1>19. ASSUME NEW t \in Threads, EnterPhase(t) PROVE HandedOutAfterTrace'
  BY <1>0, <1>19 DEF EnterPhase
<1>20. ASSUME NEW t \in Threads, StampRead(t) PROVE HandedOutAfterTrace'
  BY <1>0, <1>20 DEF StampRead
<1>21. ASSUME NEW t \in Threads, StampCas(t) PROVE HandedOutAfterTrace'
  BY <1>0, <1>21 DEF StampCas
<1>22. ASSUME NEW t \in Threads, SaveHP(t) PROVE HandedOutAfterTrace'
  BY <1>0, <1>22 DEF SaveHP
<1>23. ASSUME NEW t \in Threads, ResetSweep(t) PROVE HandedOutAfterTrace'
  <2>1. sweep'.ph >= sweep.ph /\ head' = head /\ obj' = obj
    BY <1>0, <1>23 DEF ResetSweep
  <2> QED
    BY <1>0, <2>1
<1>24. ASSUME NEW t \in Threads, ClaimPage(t) PROVE HandedOutAfterTrace'
  BY <1>0, <1>24 DEF ClaimPage
<1>25. ASSUME NEW t \in Threads, FreeObject(t) PROVE HandedOutAfterTrace'
  <2>1. sweep.ph >= localVer[t]
    BY <1>25 DEF FreeObject, Progress, ProgressOf, StampLabels
  <2> QED
    BY <1>0, <1>25, <2>1 DEF FreeObject, PushCache
<1>26. ASSUME NEW t \in Threads, SweepEnds(t) PROVE HandedOutAfterTrace'
  BY <1>0, <1>26 DEF SweepEnds
<1>27. ASSUME NEW t \in Threads, LastPush(t) PROVE HandedOutAfterTrace'
  <2>1. sweep.ph >= localVer[t]
    BY <1>27 DEF LastPush, Progress, ProgressOf, StampLabels
  <2> QED
    BY <1>0, <1>27, <2>1 DEF LastPush, PushCache
<1>28. ASSUME NEW t \in Threads, Drain(t) PROVE HandedOutAfterTrace'
  BY <1>0, <1>28 DEF Drain
<1>29. CASE AtBound
  BY <1>29 DEF AtBound, vars
<1> QED
  BY <1>1, <1>2, <1>3, <1>4, <1>5, <1>6, <1>7, <1>8, <1>9, <1>10, <1>11, <1>12, <1>13, <1>14, <1>15, <1>16, <1>17, <1>18, <1>19, <1>20, <1>21, <1>22, <1>23, <1>24, <1>25, <1>26, <1>27, <1>28, <1>29 DEF Next, Mutator, Collector

\* Nothing of a collection is handed out before that collection's trace ended.
THEOREM HandsOutAfterTrace == Spec => []HandedOutAfterTrace
<1>1. Init => HandedOutAfterTrace
  BY DEF Init, HandedOutAfterTrace, NoObj
<1>2. VersionInv /\ VersionInv' /\ HandedOutAfterTrace /\ [Next]_vars => HandedOutAfterTrace'
  <2>1. CASE Next
    BY <2>1, HandOutStep DEF VersionInv
  <2>2. CASE UNCHANGED vars
    BY <2>2 DEF vars, gcVars, mutVars, HandedOutAfterTrace
  <2> QED
    BY <2>1, <2>2
<1> QED
  BY <1>1, <1>2, VersionInvariant, PTL DEF Spec

-----------------------------------------------------------------------------
(* The protocol implements the collection cycle.                           *)

\* What the cycle does not see.
Invisible ==
    /\ phase' = phase /\ head' = head /\ sweep'.ph = sweep.ph
    /\ \A t \in Threads : dirty'[t].ph = dirty[t].ph

\* A step that touches no shared version is a stutter of Cycle.
LEMMA InvisibleStutters ==
    ASSUME Invisible
    PROVE  UNCHANGED C!vars
<1>1. [t \in Threads |-> dirty'[t].ph] = [t \in Threads |-> dirty[t].ph]
  BY DEF Invisible
<1> QED
  BY <1>1 DEF Invisible, C!vars

\* Every step of the protocol is a step of Cycle or a stutter.
LEMMA CycleStep ==
    ASSUME VersionInv, TypeOK', HandedOutAfterTrace, Next
    PROVE  [C!Next]_(C!vars)
<1> USE Ints DEF VersionInv, gcVars, mutVars, ghosts, locals, loops
<1>0. /\ head \in [ver : Versions, cnt : Nat]
      /\ sweep \in [ph : Versions, ctr : 0 .. Pages]
      /\ idx \in [Threads -> Threads]
      /\ dirty \in [Threads -> Records]
  BY DEF TypeOK
<1>a. ASSUME phase' = phase, head' = head, sweep' = sweep, dirty' = dirty
      PROVE  [C!Next]_(C!vars)
  BY <1>a, InvisibleStutters DEF Invisible
<1>b. ASSUME Invisible PROVE [C!Next]_(C!vars)
  BY <1>b, InvisibleStutters
<1>c. ASSUME NEW t \in Threads, PushCache(t), sweep.ph >= localVer[t],
             phase' = phase, sweep' = sweep, dirty' = dirty
      PROVE  [C!Next]_(C!vars)
  <2>1. CASE head.ver = localVer[t]
    <3>1. head.ver = sweep.ph
      BY <1>c, <2>1 DEF VersionOrder
    <3> QED
      BY <1>c, <2>1, <3>1 DEF PushCache, C!Next, C!Put, C!vars
  <2>2. CASE head.ver # localVer[t]
    BY <1>a, <1>c, <2>2 DEF PushCache
  <2> QED
    BY <2>1, <2>2
<1>1. ASSUME NEW t \in Threads, StartTraversal(t) PROVE [C!Next]_(C!vars)
  BY <1>a, <1>1 DEF StartTraversal
<1>2. ASSUME NEW t \in Threads, CheckDirty(t) PROVE [C!Next]_(C!vars)
  BY <1>a, <1>2 DEF CheckDirty
<1>3. ASSUME NEW t \in Threads, CheckClean(t) PROVE [C!Next]_(C!vars)
  BY <1>a, <1>3 DEF CheckClean
<1>4. ASSUME NEW t \in Threads, EndOfList(t) PROVE [C!Next]_(C!vars)
  BY <1>a, <1>4 DEF EndOfList
<1>5. ASSUME NEW t \in Threads, PublishHPs(t) PROVE [C!Next]_(C!vars)
  BY <1>a, <1>5 DEF PublishHPs
<1>6. ASSUME NEW t \in Threads, FenceCheck(t) PROVE [C!Next]_(C!vars)
  <2>1. Invisible
    BY <1>6, EraseEffect DEF FenceCheck, Invisible
  <2> QED
    BY <1>b, <2>1
<1>7. ASSUME NEW t \in Threads, DropHPs(t) PROVE [C!Next]_(C!vars)
  BY <1>a, <1>7 DEF DropHPs
<1>8. ASSUME NEW t \in Threads, CasThenClear(t) PROVE [C!Next]_(C!vars)
  BY <1>a, <1>8 DEF CasThenClear
<1>9. ASSUME NEW t \in Threads, ClearBeforeHelp(t) PROVE [C!Next]_(C!vars)
  <2>1. Invisible
    BY <1>9, EraseEffect DEF ClearBeforeHelp, StoreZero, Invisible
  <2> QED
    BY <1>b, <2>1
<1>10. ASSUME NEW t \in Threads, Help(t) PROVE [C!Next]_(C!vars)
  BY <1>a, <1>10 DEF Help
<1>11. ASSUME NEW t \in Threads, ClearAfterHelp(t) PROVE [C!Next]_(C!vars)
  <2>1. Invisible
    BY <1>11, EraseEffect DEF ClearAfterHelp, StoreZero, Invisible
  <2> QED
    BY <1>b, <2>1
<1>12. ASSUME NEW t \in Threads, PallocFromCache(t) PROVE [C!Next]_(C!vars)
  BY <1>a, <1>12 DEF PallocFromCache
<1>13. ASSUME NEW t \in Threads, PallocCacheEmpty(t) PROVE [C!Next]_(C!vars)
  BY <1>a, <1>13 DEF PallocCacheEmpty
<1>14. ASSUME NEW t \in Threads, PopCache(t) PROVE [C!Next]_(C!vars)
  <2>0. head.cnt > 0 /\ sweep.ph <= head.ver
    BY <1>14 DEF PopCache, VersionOrder
  <2>1. head.ver = sweep.ph
    BY <2>0 DEF HandedOutAfterTrace
  <2> QED
    BY <1>14, <2>1 DEF PopCache, C!Next, C!Take, C!vars
<1>15. ASSUME NEW t \in Threads, PopFails(t) PROVE [C!Next]_(C!vars)
  BY <1>a, <1>15 DEF PopFails
<1>16. ASSUME NEW t \in Threads, AfterTrigger(t) PROVE [C!Next]_(C!vars)
  BY <1>a, <1>16 DEF AfterTrigger
<1>17. ASSUME NEW t \in Threads, Advance(t) PROVE [C!Next]_(C!vars)
  <2>1. CASE phase = localVer[t]
    <3>1. /\ \A j \in Threads : dirty[j].ph = phase
          /\ head.ver = phase /\ sweep.ph = phase
      BY <1>17, <2>1 DEF Advance, VersionOrder, Progress, ProgressOf, StampLabels
    <3>2. C!Begin
      BY <1>17, <2>1, <3>1 DEF Advance, C!Begin, C!AllNotified
    <3> QED
      BY <3>2 DEF C!Next
  <2>2. CASE phase # localVer[t]
    BY <1>a, <1>17, <2>2 DEF Advance
  <2> QED
    BY <2>1, <2>2
<1>18. ASSUME NEW t \in Threads, SwingHead(t) PROVE [C!Next]_(C!vars)
  <2>1. CASE head.ver = localVer[t]
    <3>1. head.ver = phase - 1 /\ localVer[t] + 1 = phase
      BY <1>18, <2>1 DEF SwingHead, VersionOrder
    <3>2. C!Discard
      BY <1>18, <2>1, <3>1 DEF SwingHead, C!Discard
    <3> QED
      BY <3>2 DEF C!Next
  <2>2. CASE head.ver # localVer[t]
    BY <1>a, <1>18, <2>2 DEF SwingHead
  <2> QED
    BY <2>1, <2>2
<1>19. ASSUME NEW t \in Threads, EnterPhase(t) PROVE [C!Next]_(C!vars)
  BY <1>a, <1>19 DEF EnterPhase
<1>20. ASSUME NEW t \in Threads, StampRead(t) PROVE [C!Next]_(C!vars)
  BY <1>a, <1>20 DEF StampRead
<1>21. ASSUME NEW t \in Threads, StampCas(t) PROVE [C!Next]_(C!vars)
  <2>0. /\ phase' = phase /\ head' = head /\ sweep' = sweep
        /\ CasRecord(t) /\ reg[t].ph < localVer[t]
    BY <1>21 DEF StampCas, Progress, ProgressOf, Attempt, StampLabels
  <2>1. CASE dirty[idx[t]] = reg[t]
    <3>0. /\ idx[t] \in Threads /\ dirty[idx[t]].ph < localVer[t]
      BY <1>0, <2>0, <2>1
    <3>1. localVer[t] = phase /\ head.ver = phase /\ dirty[idx[t]].ph < phase
      BY <3>0 DEF VersionOrder
    <3>2. \A j \in Threads : dirty'[j].ph = IF j = idx[t] THEN phase ELSE dirty[j].ph
      BY <2>0, <2>1, <3>1, StampEffect
    <3>3. [j \in Threads |-> dirty'[j].ph]
            = [[j \in Threads |-> dirty[j].ph] EXCEPT ![idx[t]] = phase]
      BY <3>2
    <3>4. PICK i \in Threads : i = idx[t]
      BY <3>0
    <3>5. C!Notify(i)
      BY <2>0, <3>0, <3>1, <3>3, <3>4 DEF C!Notify
    <3> QED
      BY <3>5 DEF C!Next
  <2>2. CASE dirty[idx[t]] # reg[t]
    BY <1>a, <2>0, <2>2 DEF CasRecord
  <2> QED
    BY <2>1, <2>2
<1>22. ASSUME NEW t \in Threads, SaveHP(t) PROVE [C!Next]_(C!vars)
  BY <1>a, <1>22 DEF SaveHP
<1>23. ASSUME NEW t \in Threads, ResetSweep(t) PROVE [C!Next]_(C!vars)
  <2>0. phase' = phase /\ head' = head /\ dirty' = dirty
    BY <1>23 DEF ResetSweep
  <2>1. CASE sweep.ph < localVer[t]
    <3>1. /\ localVer[t] = phase /\ head.ver = phase
          /\ \A j \in Threads : dirty[j].ph = phase
      BY <1>23, <2>1 DEF ResetSweep, VersionOrder, Progress, ProgressOf, StampLabels
    <3>2. sweep'.ph = phase
      BY <1>23, <2>1, <3>1 DEF ResetSweep
    <3>3. C!Open
      BY <2>0, <2>1, <3>1, <3>2 DEF C!Open, C!AllNotified
    <3> QED
      BY <3>3 DEF C!Next
  <2>2. CASE ~ (sweep.ph < localVer[t])
    BY <1>a, <2>0, <1>23, <2>2 DEF ResetSweep
  <2> QED
    BY <2>1, <2>2
<1>24. ASSUME NEW t \in Threads, ClaimPage(t) PROVE [C!Next]_(C!vars)
  <2>1. Invisible
    BY <1>0, <1>24 DEF ClaimPage, Invisible
  <2> QED
    BY <1>b, <2>1
<1>25. ASSUME NEW t \in Threads, FreeObject(t) PROVE [C!Next]_(C!vars)
  <2>1. sweep.ph >= localVer[t]
    BY <1>25 DEF FreeObject, Progress, ProgressOf, StampLabels
  <2>2. CASE cache[t] = CacheSize
    BY <1>c, <1>25, <2>1, <2>2 DEF FreeObject
  <2>3. CASE cache[t] # CacheSize
    BY <1>a, <1>25, <2>3 DEF FreeObject
  <2> QED
    BY <2>2, <2>3
<1>26. ASSUME NEW t \in Threads, SweepEnds(t) PROVE [C!Next]_(C!vars)
  BY <1>a, <1>26 DEF SweepEnds
<1>27. ASSUME NEW t \in Threads, LastPush(t) PROVE [C!Next]_(C!vars)
  <2>1. sweep.ph >= localVer[t]
    BY <1>27 DEF LastPush, Progress, ProgressOf, StampLabels
  <2>2. CASE cache[t] # NoCache
    BY <1>c, <1>27, <2>1, <2>2 DEF LastPush
  <2>3. CASE cache[t] = NoCache
    BY <1>a, <1>27, <2>3 DEF LastPush
  <2> QED
    BY <2>2, <2>3
<1>28. ASSUME NEW t \in Threads, Drain(t) PROVE [C!Next]_(C!vars)
  <2>1. Invisible
    BY <1>28, EraseEffect DEF Drain, Invisible
  <2> QED
    BY <1>b, <2>1
<1>29. CASE AtBound
  BY <1>a, <1>29 DEF AtBound, vars
<1> QED
  BY <1>1, <1>2, <1>3, <1>4, <1>5, <1>6, <1>7, <1>8, <1>9, <1>10, <1>11, <1>12, <1>13, <1>14, <1>15, <1>16, <1>17, <1>18, <1>19, <1>20, <1>21, <1>22, <1>23, <1>24, <1>25, <1>26, <1>27, <1>28, <1>29 DEF Next, Mutator, Collector

\* The concurrent protocol, in which every thread may run every part of every
\* collection, implements one collection after another.
THEOREM ImplementsCycle == Spec => CycleSpec
<1>1. Init => C!Init
  BY DEF Init, C!Init, Nothing
<1>2. VersionInv /\ VersionInv' /\ HandedOutAfterTrace /\ [Next]_vars => [C!Next]_(C!vars)
  <2>1. CASE Next
    BY <2>1, CycleStep DEF VersionInv
  <2>2. CASE UNCHANGED vars
    BY <2>2 DEF vars, gcVars, C!vars
  <2> QED
    BY <2>1, <2>2
<1> QED
  BY <1>1, <1>2, VersionInvariant, HandsOutAfterTrace, PTL DEF Spec, CycleSpec, C!Spec

-----------------------------------------------------------------------------
\* A thread that starts to save hazard pointers has saved none yet, and nobody
\* else's position changes: NoStaleObject is kept.
LEMMA StampingKeepsFresh ==
    ASSUME NoStaleObject, NEW t \in Threads, StartsSaving(t), obj' = obj
    PROVE  NoStaleObject'
<1>1. \A v \in Threads : ~ HasSaved(t, v)'
  <2>1. \A v \in Threads : ~ (v < 0)
    BY DEF Threads
  <2> QED
    BY <2>1 DEF HasSaved, StartsSaving, StampLabels, SweepLabels
<1>2. \A u \in Threads \ {t} : \A v \in Threads : HasSaved(u, v)' <=> HasSaved(u, v)
  BY DEF HasSaved, StartsSaving
<1>3. \A v \in Threads : pc'[v] = "cas" <=> pc[v] = "cas"
  BY DEF StartsSaving, StampLabels
<1> QED
  BY <1>1, <1>2, <1>3 DEF NoStaleObject, StartsSaving

\* Every step keeps FreshInv: a thread with a cache that has been overtaken
\* knows it at the next check, under either memory model.
LEMMA FreshStep ==
    ASSUME VersionInv, VersionInv', FreshInv, Next
    PROVE  FreshInv'
<1> USE Ints DEF VersionInv, FreshInv, Goto, gcVars, mutVars, ghosts, locals, loops
<1>0. /\ pc \in [Threads -> Labels] /\ localVer \in [Threads -> Versions]
      /\ head \in [ver : Versions, cnt : Nat]
      /\ idx \in [Threads -> Threads] /\ dirty \in [Threads -> Records]
      /\ reg \in [Threads -> Records] /\ cache \in [Threads -> Fillings]
      /\ wbuf \in [Threads -> Nat] /\ hp \in [Threads -> 0 .. 1]
      /\ obj \in [Threads -> Objects] /\ ret \in [Threads -> {"macro", "palloc"}]
      /\ hpSeen \in [Threads -> SUBSET Threads]
      /\ \A t \in Threads : obj[t] \in Int /\ wbuf[t] \in Int
  <2>1. \A t \in Threads : obj[t] \in Int
    BY DEF TypeOK, Objects, Versions, NoObj, NullObj
  <2> QED
    BY <2>1 DEF TypeOK
<1>1. ASSUME NEW t \in Threads, StartTraversal(t) PROVE FreshInv'
  <2>1. \A u \in Threads : FreshOf(u)'
    BY <1>0, <1>1 DEF StartTraversal, NoObj, NullObj, FreshOf, Ordinary
  <2>2. NullDiscarded'
    BY <1>0, <1>1 DEF StartTraversal, NoObj, NullObj, NullDiscarded
  <2>3. NoStaleObject'
    BY <1>0, <1>1 DEF StartTraversal, NoObj, NullObj, NoStaleObject, HasSaved, SweepLabels
  <2> QED
    BY <2>1, <2>2, <2>3
<1>2. ASSUME NEW t \in Threads, CheckDirty(t) PROVE FreshInv'
  <2>1. \A u \in Threads : FreshOf(u)'
    BY <1>0, <1>2 DEF CheckDirty, ReadBit, FreshOf, Ordinary
  <2>2. NullDiscarded'
    BY <1>0, <1>2 DEF CheckDirty, ReadBit, NullDiscarded
  <2>3. NoStaleObject'
    BY <1>0, <1>2 DEF CheckDirty, ReadBit, NoStaleObject, HasSaved, SweepLabels
  <2> QED
    BY <2>1, <2>2, <2>3
<1>3. ASSUME NEW t \in Threads, CheckClean(t) PROVE FreshInv'
  <2>1. \A u \in Threads : FreshOf(u)'
    BY <1>0, <1>3 DEF CheckClean, ReadBit, NoObj, NullObj, FreshOf, Ordinary
  <2>2. NullDiscarded'
    BY <1>0, <1>3 DEF CheckClean, ReadBit, NoObj, NullObj, NullDiscarded
  <2>3. NoStaleObject'
    BY <1>0, <1>3 DEF CheckClean, ReadBit, NoObj, NullObj, NoStaleObject, HasSaved, SweepLabels
  <2> QED
    BY <2>1, <2>2, <2>3
<1>4. ASSUME NEW t \in Threads, EndOfList(t) PROVE FreshInv'
  <2>1. \A u \in Threads : FreshOf(u)'
    BY <1>0, <1>4 DEF EndOfList, FreshOf, Ordinary
  <2>2. NullDiscarded'
    BY <1>0, <1>4 DEF EndOfList, NullDiscarded
  <2>3. NoStaleObject'
    BY <1>0, <1>4 DEF EndOfList, NoStaleObject, HasSaved, SweepLabels
  <2> QED
    BY <2>1, <2>2, <2>3
<1>5. ASSUME NEW t \in Threads, PublishHPs(t) PROVE FreshInv'
  <2>1. \A u \in Threads : FreshOf(u)'
    BY <1>0, <1>5 DEF PublishHPs, FreshOf, Ordinary
  <2>2. NullDiscarded'
    BY <1>0, <1>5 DEF PublishHPs, NullDiscarded
  <2>3. NoStaleObject'
    BY <1>0, <1>5 DEF PublishHPs, NoStaleObject, HasSaved, SweepLabels
  <2> QED
    BY <2>1, <2>2, <2>3
<1>6. ASSUME NEW t \in Threads, FenceCheck(t) PROVE FreshInv'
  <2>1. \A u \in Threads : FreshOf(u)'
    BY <1>0, <1>6, EraseEffect DEF FenceCheck, FreshOf, Ordinary
  <2>2. NullDiscarded'
    BY <1>0, <1>6 DEF FenceCheck, NullDiscarded, FreshOf, NullObj
  <2>3. NoStaleObject'
    <3>1. /\ \A u \in Threads \ {t} : pc'[u] = pc[u]
          /\ pc[t] = "fence" /\ pc'[t] \in {"drop", "cas"}
          /\ obj' = obj /\ localVer' = localVer /\ idx' = idx /\ hpSeen' = hpSeen
      BY <1>0, <1>6 DEF FenceCheck
    <3>2. pc'[t] = "cas" /\ obj[t] >= 0 => obj[t] >= dirty[t].ph
      BY <1>0, <1>6 DEF FenceCheck, FreshOf, Ordinary, NullObj
    <3>3. \A u, v \in Threads : HasSaved(u, v)' <=> HasSaved(u, v)
      BY <3>1 DEF HasSaved, SweepLabels
    <3>4. \A u \in Threads : HasSaved(u, t) => dirty[t].ph >= localVer[u]
      BY DEF HasSaved, Progress, ProgressOf, StampLabels, SweepLabels
    <3> QED
      BY <1>0, <3>1, <3>2, <3>3, <3>4 DEF NoStaleObject
  <2> QED
    BY <2>1, <2>2, <2>3
<1>7. ASSUME NEW t \in Threads, DropHPs(t) PROVE FreshInv'
  <2>1. \A u \in Threads : FreshOf(u)'
    BY <1>0, <1>7 DEF DropHPs, ClearHPs, FreshOf, Ordinary
  <2>2. NullDiscarded'
    BY <1>0, <1>7 DEF DropHPs, ClearHPs, NullDiscarded
  <2>3. NoStaleObject'
    BY <1>0, <1>7 DEF DropHPs, ClearHPs, NoStaleObject, HasSaved, SweepLabels
  <2> QED
    BY <2>1, <2>2, <2>3
<1>8. ASSUME NEW t \in Threads, CasThenClear(t) PROVE FreshInv'
  <2>1. \A u \in Threads : FreshOf(u)'
    BY <1>0, <1>8 DEF CasThenClear, ClearHPs, NoObj, FreshOf, Ordinary
  <2>2. NullDiscarded'
    BY <1>0, <1>8 DEF CasThenClear, ClearHPs, NoObj, NullDiscarded
  <2>3. NoStaleObject'
    BY <1>0, <1>8 DEF CasThenClear, ClearHPs, NoObj, NoStaleObject, HasSaved, SweepLabels
  <2> QED
    BY <2>1, <2>2, <2>3
<1>9. ASSUME NEW t \in Threads, ClearBeforeHelp(t) PROVE FreshInv'
  <2>1. \A u \in Threads : FreshOf(u)'
    BY <1>0, <1>9, EraseEffect DEF ClearBeforeHelp, StoreZero, FreshOf, Ordinary
  <2>2. NullDiscarded'
    BY <1>0, <1>9 DEF ClearBeforeHelp, StoreZero, NullDiscarded
  <2>3. NoStaleObject'
    BY <1>0, <1>9 DEF ClearBeforeHelp, StoreZero, NoStaleObject, HasSaved, SweepLabels
  <2> QED
    BY <2>1, <2>2, <2>3
<1>10. ASSUME NEW t \in Threads, Help(t) PROVE FreshInv'
  <2>1. \A u \in Threads : FreshOf(u)'
    BY <1>0, <1>10 DEF Help, FreshOf, Ordinary, VersionOrder
  <2>2. NullDiscarded'
    BY <1>0, <1>10 DEF Help, NullDiscarded
  <2>3. NoStaleObject'
    BY <1>0, <1>10 DEF Help, NoStaleObject, HasSaved, SweepLabels
  <2> QED
    BY <2>1, <2>2, <2>3
<1>11. ASSUME NEW t \in Threads, ClearAfterHelp(t) PROVE FreshInv'
  <2>1. \A u \in Threads : FreshOf(u)'
    BY <1>0, <1>11, EraseEffect DEF ClearAfterHelp, StoreZero, FreshOf, Ordinary
  <2>2. NullDiscarded'
    BY <1>0, <1>11 DEF ClearAfterHelp, StoreZero, NullDiscarded
  <2>3. NoStaleObject'
    BY <1>0, <1>11 DEF ClearAfterHelp, StoreZero, NoStaleObject, HasSaved, SweepLabels
  <2> QED
    BY <2>1, <2>2, <2>3
<1>12. ASSUME NEW t \in Threads, PallocFromCache(t) PROVE FreshInv'
  <2>1. \A u \in Threads : FreshOf(u)'
    BY <1>0, <1>12 DEF PallocFromCache, NoCache, NoObj, NullObj, Versions, Fillings, FreshOf, Ordinary
  <2>2. NullDiscarded'
    BY <1>0, <1>12 DEF PallocFromCache, NoCache, NullObj, NullDiscarded
  <2>3. NoStaleObject'
    BY <1>0, <1>12 DEF PallocFromCache, NoCache, NullObj, NoStaleObject, HasSaved, SweepLabels
  <2> QED
    BY <2>1, <2>2, <2>3
<1>13. ASSUME NEW t \in Threads, PallocCacheEmpty(t) PROVE FreshInv'
  <2>1. \A u \in Threads : FreshOf(u)'
    BY <1>0, <1>13 DEF PallocCacheEmpty, FreshOf, Ordinary
  <2>2. NullDiscarded'
    BY <1>0, <1>13 DEF PallocCacheEmpty, NullDiscarded
  <2>3. NoStaleObject'
    BY <1>0, <1>13 DEF PallocCacheEmpty, NoStaleObject, HasSaved, SweepLabels
  <2> QED
    BY <2>1, <2>2, <2>3
<1>14. ASSUME NEW t \in Threads, PopCache(t) PROVE FreshInv'
  <2>1. \A u \in Threads : FreshOf(u)'
    BY <1>0, <1>14 DEF PopCache, Drained, FreshOf, Ordinary
  <2>2. NullDiscarded'
    BY <1>0, <1>14 DEF PopCache, Drained, NullDiscarded
  <2>3. NoStaleObject'
    BY <1>0, <1>14 DEF PopCache, Drained, NoStaleObject, HasSaved, SweepLabels
  <2> QED
    BY <2>1, <2>2, <2>3
<1>15. ASSUME NEW t \in Threads, PopFails(t) PROVE FreshInv'
  <2>1. \A u \in Threads : FreshOf(u)'
    BY <1>0, <1>15 DEF PopFails, FreshOf, Ordinary
  <2>2. NullDiscarded'
    BY <1>0, <1>15 DEF PopFails, NullDiscarded
  <2>3. NoStaleObject'
    BY <1>0, <1>15 DEF PopFails, NoStaleObject, HasSaved, SweepLabels
  <2> QED
    BY <2>1, <2>2, <2>3
<1>16. ASSUME NEW t \in Threads, AfterTrigger(t) PROVE FreshInv'
  <2>1. \A u \in Threads : FreshOf(u)'
    BY <1>0, <1>16 DEF AfterTrigger, ReadBit, NullObj, Progress, ProgressOf, FreshOf, Ordinary
  <2>2. NullDiscarded'
    BY <1>0, <1>16 DEF AfterTrigger, ReadBit, NullObj, NullDiscarded
  <2>3. NoStaleObject'
    BY <1>0, <1>16 DEF AfterTrigger, ReadBit, NullObj, NoStaleObject, HasSaved, SweepLabels
  <2> QED
    BY <2>1, <2>2, <2>3
<1>17. ASSUME NEW t \in Threads, Advance(t) PROVE FreshInv'
  <2>1. \A u \in Threads : FreshOf(u)'
    BY <1>0, <1>17 DEF Advance, FreshOf, Ordinary
  <2>2. NullDiscarded'
    BY <1>0, <1>17 DEF Advance, NullDiscarded
  <2>3. NoStaleObject'
    BY <1>0, <1>17 DEF Advance, NoStaleObject, HasSaved, SweepLabels
  <2> QED
    BY <2>1, <2>2, <2>3
<1>18. ASSUME NEW t \in Threads, SwingHead(t) PROVE FreshInv'
  <2>1. \A u \in Threads : FreshOf(u)'
    BY <1>0, <1>18 DEF SwingHead, FreshOf, Ordinary
  <2>2. NullDiscarded'
    BY <1>0, <1>18 DEF SwingHead, NullDiscarded
  <2>3. NoStaleObject'
    BY <1>0, <1>18 DEF SwingHead, NoStaleObject, HasSaved, SweepLabels
  <2> QED
    BY <2>1, <2>2, <2>3
<1>19. ASSUME NEW t \in Threads, EnterPhase(t) PROVE FreshInv'
  <2>1. \A u \in Threads : FreshOf(u)'
    <3>1. /\ \A u \in Threads \ {t} : pc'[u] = pc[u] /\ localVer'[u] = localVer[u]
          /\ pc[t] = "enter" /\ pc'[t] \in {"clear2", "triggered", "stampRead"}
          /\ dirty' = dirty /\ wbuf' = wbuf /\ hp' = hp /\ obj' = obj
          /\ cache' = cache /\ head' = head
      BY <1>0, <1>19 DEF EnterPhase, Return
    <3>2. cache[t] = NoCache
      BY <3>1 DEF Progress, ProgressOf
    <3> QED
      BY <1>0, <3>1, <3>2 DEF FreshOf, Ordinary
  <2>2. NullDiscarded'
    BY <1>0, <1>19 DEF EnterPhase, Return, FirstRecord, NullDiscarded
  <2>3. NoStaleObject'
    BY <1>0, <1>19 DEF EnterPhase, Return, FirstRecord, NoStaleObject, HasSaved, SweepLabels
  <2> QED
    BY <2>1, <2>2, <2>3
<1>20. ASSUME NEW t \in Threads, StampRead(t) PROVE FreshInv'
  <2>1. \A u \in Threads : FreshOf(u)'
    BY <1>0, <1>20 DEF StampRead, NextRecord, FreshOf, Ordinary
  <2>2. NullDiscarded'
    BY <1>0, <1>20 DEF StampRead, NextRecord, NullDiscarded
  <2>3. NoStaleObject'
    <3>1. StartsSaving(t)
      <4>0. /\ pc[t] \in StampLabels
            /\ localVer' = localVer /\ obj' = obj /\ seen' = seen /\ hpSeen' = hpSeen
        BY <1>20 DEF StampRead, StampLabels
      <4>1. CASE NextRecord(t)
        BY <1>0, <4>0, <4>1, NextRecordSaves
      <4>2. CASE ~ NextRecord(t)
        BY <1>0, <1>20, <4>0, <4>2 DEF StampRead, StartsSaving, StampLabels
      <4> QED
        BY <4>1, <4>2
    <3>2. obj' = obj
      BY <1>20 DEF StampRead
    <3> QED
      BY <3>1, <3>2, StampingKeepsFresh
  <2> QED
    BY <2>1, <2>2, <2>3
<1>21. ASSUME NEW t \in Threads, StampCas(t) PROVE FreshInv'
  <2>1. \A u \in Threads : FreshOf(u)'
    <3>1. reg[t].ph < localVer[t] /\ pc[t] = "stampCas" /\ localVer[t] <= head.ver
      BY <1>21 DEF StampCas, Progress, ProgressOf, Attempt, StampLabels, VersionOrder
    <3>2. \A u \in Threads :
            \/ dirty'[u] = dirty[u]
            \/ dirty'[u].bit = 1 /\ dirty'[u].ph > dirty[u].ph /\ dirty'[u].ph <= head.ver
      BY <1>21, <3>1, StampEffect DEF StampCas
    <3>3. /\ wbuf' = wbuf /\ hp' = hp /\ obj' = obj /\ cache' = cache
          /\ head' = head /\ localVer' = localVer
          /\ \A u \in Threads \ {t} : pc'[u] = pc[u]
          /\ pc'[t] \in {"stampRead", "saveHP"}
      BY <1>0, <1>21 DEF StampCas, NextRecord
    <3>4. \A u \in Threads : pc[u] \notin StampLabels => dirty[u].ph >= localVer[u]
      BY DEF Progress, ProgressOf
    <3>5. \A u \in Threads : dirty'[u].ph \in Int
      BY DEF TypeOK, Records, Versions
    <3>6. FreshOf(t)'
      BY <1>0, <3>1, <3>2, <3>3, <3>5 DEF FreshOf, Ordinary
    <3>7. ASSUME NEW u \in Threads \ {t} PROVE FreshOf(u)'
      <4>1. CASE dirty'[u] = dirty[u]
        BY <1>0, <3>3, <3>7, <4>1 DEF FreshOf, Ordinary
      <4>2. CASE dirty'[u].bit = 1 /\ dirty'[u].ph > dirty[u].ph /\ dirty'[u].ph <= head.ver
        <5>1. pc[u] \notin StampLabels => ~ (dirty'[u].ph <= localVer[u]) /\ dirty'[u].ph > localVer[u]
          BY <3>4, <3>5, <3>7, <4>2
        <5>2. pc'[u] = pc[u] /\ FreshOf(u)
          BY <3>3, <3>7
        <5> QED
          BY <3>3, <4>2, <5>1, <5>2 DEF FreshOf, Ordinary, StampLabels
      <4> QED
        BY <3>2, <3>7, <4>1, <4>2
    <3> QED
      BY <3>6, <3>7
  <2>2. NullDiscarded'
    <3>1. /\ obj' = obj /\ \A u \in Threads \ {t} : pc'[u] = pc[u]
          /\ pc'[t] \in {"stampRead", "saveHP"}
      BY <1>0, <1>21 DEF StampCas, NextRecord
    <3> QED
      BY <3>1 DEF NullDiscarded
  <2>3. NoStaleObject'
    <3>1. StartsSaving(t)
      <4>0. /\ pc[t] \in StampLabels
            /\ localVer' = localVer /\ obj' = obj /\ seen' = seen /\ hpSeen' = hpSeen
        BY <1>21 DEF StampCas, StampLabels
      <4>1. CASE NextRecord(t)
        BY <1>0, <4>0, <4>1, NextRecordSaves
      <4>2. CASE ~ NextRecord(t)
        BY <1>0, <1>21, <4>0, <4>2 DEF StampCas, StartsSaving, StampLabels
      <4> QED
        BY <4>1, <4>2
    <3>2. obj' = obj
      BY <1>21 DEF StampCas
    <3> QED
      BY <3>1, <3>2, StampingKeepsFresh
  <2> QED
    BY <2>1, <2>2, <2>3
<1>22. ASSUME NEW t \in Threads, SaveHP(t) PROVE FreshInv'
  <2>1. \A u \in Threads : FreshOf(u)'
    BY <1>0, <1>22 DEF SaveHP, FreshOf, Ordinary
  <2>2. NullDiscarded'
    BY <1>0, <1>22 DEF SaveHP, NullDiscarded
  <2>3. NoStaleObject'
    <3>1. /\ pc[t] = "saveHP" /\ localVer' = localVer /\ obj' = obj
          /\ \A u \in Threads \ {t} : pc'[u] = pc[u] /\ idx'[u] = idx[u] /\ hpSeen'[u] = hpSeen[u]
          /\ \/ pc'[t] = "saveHP" /\ idx'[t] = idx[t] + 1
             \/ pc'[t] = "reset" /\ ~ (idx[t] + 1 < N)
      <4>1. CASE idx[t] + 1 < N
        BY <1>0, <1>22, <4>1 DEF SaveHP
      <4>2. CASE ~ (idx[t] + 1 < N)
        BY <1>0, <1>22, <4>2 DEF SaveHP
      <4> QED
        BY <4>1, <4>2
    <3>2. \A v \in Threads \ {idx[t]} : v \in hpSeen'[t] <=> v \in hpSeen[t]
      BY <1>0, <1>22 DEF SaveHP
    <3>3. pc[idx[t]] = "cas" => idx[t] \in hpSeen'[t]
      BY <1>0, <1>22 DEF SaveHP, FreshOf
    <3>4. \A v \in Threads : HasSaved(t, v)' => v < idx[t] \/ v = idx[t]
      <4>1. idx[t] \in 0 .. N - 1 /\ N \in Nat
        BY <1>0, PhaseAssumption DEF Threads
      <4> QED
        BY <3>1, <4>1 DEF HasSaved, Threads, SweepLabels
    <3>5. \A v \in Threads : pc[v] = "cas" /\ HasSaved(t, v)' /\ obj[v] >= 0 /\ obj[v] < localVer[t]
                                => v \in hpSeen'[t]
      BY <1>0, <3>1, <3>2, <3>3, <3>4 DEF NoStaleObject, HasSaved
    <3>6. \A u \in Threads \ {t} : \A v \in Threads : HasSaved(u, v)' <=> HasSaved(u, v)
      BY <3>1 DEF HasSaved
    <3>7. \A v \in Threads : pc'[v] = "cas" <=> pc[v] = "cas"
      BY <3>1
    <3> QED
      BY <1>0, <3>1, <3>5, <3>6, <3>7 DEF NoStaleObject
  <2> QED
    BY <2>1, <2>2, <2>3
<1>23. ASSUME NEW t \in Threads, ResetSweep(t) PROVE FreshInv'
  <2>1. \A u \in Threads : FreshOf(u)'
    BY <1>0, <1>23 DEF ResetSweep, FreshOf, Ordinary
  <2>2. NullDiscarded'
    BY <1>0, <1>23 DEF ResetSweep, NullDiscarded
  <2>3. NoStaleObject'
    BY <1>0, <1>23 DEF ResetSweep, NoStaleObject, HasSaved, SweepLabels
  <2> QED
    BY <2>1, <2>2, <2>3
<1>24. ASSUME NEW t \in Threads, ClaimPage(t) PROVE FreshInv'
  <2>1. \A u \in Threads : FreshOf(u)'
    BY <1>0, <1>24 DEF ClaimPage, FreshOf, Ordinary
  <2>2. NullDiscarded'
    BY <1>0, <1>24 DEF ClaimPage, NullDiscarded
  <2>3. NoStaleObject'
    BY <1>0, <1>24 DEF ClaimPage, NoStaleObject, HasSaved, SweepLabels
  <2> QED
    BY <2>1, <2>2, <2>3
<1>25. ASSUME NEW t \in Threads, FreeObject(t) PROVE FreshInv'
  <2>1. \A u \in Threads : FreshOf(u)'
    BY <1>0, <1>25 DEF FreeObject, PushCache, FreshOf, Ordinary
  <2>2. NullDiscarded'
    BY <1>0, <1>25 DEF FreeObject, PushCache, NullDiscarded
  <2>3. NoStaleObject'
    BY <1>0, <1>25 DEF FreeObject, PushCache, NoStaleObject, HasSaved, SweepLabels
  <2> QED
    BY <2>1, <2>2, <2>3
<1>26. ASSUME NEW t \in Threads, SweepEnds(t) PROVE FreshInv'
  <2>1. \A u \in Threads : FreshOf(u)'
    BY <1>0, <1>26 DEF SweepEnds, FreshOf, Ordinary
  <2>2. NullDiscarded'
    BY <1>0, <1>26 DEF SweepEnds, NullDiscarded
  <2>3. NoStaleObject'
    BY <1>0, <1>26 DEF SweepEnds, NoStaleObject, HasSaved, SweepLabels
  <2> QED
    BY <2>1, <2>2, <2>3
<1>27. ASSUME NEW t \in Threads, LastPush(t) PROVE FreshInv'
  <2>1. \A u \in Threads : FreshOf(u)'
    BY <1>0, <1>27 DEF LastPush, PushCache, Return, FreshOf, Ordinary
  <2>2. NullDiscarded'
    BY <1>0, <1>27 DEF LastPush, PushCache, Return, NullDiscarded
  <2>3. NoStaleObject'
    BY <1>0, <1>27 DEF LastPush, PushCache, Return, NoStaleObject, HasSaved, SweepLabels
  <2> QED
    BY <2>1, <2>2, <2>3
<1>28. ASSUME NEW t \in Threads, Drain(t) PROVE FreshInv'
  <2>1. \A u \in Threads : FreshOf(u)'
    BY <1>0, <1>28, EraseEffect DEF Drain, FreshOf, Ordinary
  <2>2. NullDiscarded'
    BY <1>0, <1>28 DEF Drain, NullDiscarded
  <2>3. NoStaleObject'
    BY <1>0, <1>28 DEF Drain, NoStaleObject, HasSaved, SweepLabels
  <2> QED
    BY <2>1, <2>2, <2>3
<1>29. CASE AtBound
  BY <1>29 DEF AtBound, vars, FreshOf, Ordinary, NullDiscarded, NoStaleObject, HasSaved
<1> QED
  BY <1>1, <1>2, <1>3, <1>4, <1>5, <1>6, <1>7, <1>8, <1>9, <1>10, <1>11, <1>12, <1>13, <1>14, <1>15, <1>16, <1>17, <1>18, <1>19, <1>20, <1>21, <1>22, <1>23, <1>24, <1>25, <1>26, <1>27, <1>28, <1>29 DEF Next, Mutator, Collector

\* FreshInv holds initially.
LEMMA InitFresh ==
    ASSUME Init
    PROVE  FreshInv
<1> USE PhaseAssumption DEF Init
<1>1. \A t \in Threads : FreshOf(t)
  BY DEF FreshOf, Ordinary, Nothing
<1> QED
  BY <1>1 DEF FreshInv, NullDiscarded, NoStaleObject

\* FreshInv survives stuttering.
LEMMA FreshStutter ==
    ASSUME FreshInv, UNCHANGED vars
    PROVE  FreshInv'
  BY DEF FreshInv, FreshOf, Ordinary, NullDiscarded, NoStaleObject, HasSaved,
         vars, gcVars, mutVars, locals, loops, ghosts

\* FreshInv holds in every reachable state, however long stores are delayed.
THEOREM FreshInvariant == Spec => [](VersionInv /\ FreshInv)
<1>1. VersionInv /\ VersionInv' /\ FreshInv /\ [Next]_vars => FreshInv'
  <2> SUFFICES ASSUME VersionInv, VersionInv', FreshInv, [Next]_vars
               PROVE  FreshInv'
    OBVIOUS
  <2>1. CASE Next
    BY <2>1, FreshStep
  <2>2. CASE UNCHANGED vars
    BY <2>2, FreshStutter
  <2> QED
    BY <2>1, <2>2
<1>2. Init => FreshInv
  BY InitFresh
<1> QED
  BY <1>1, <1>2, VersionInvariant, PTL DEF Spec

\* The object an insert is about to link comes from the pool of the phase that
\* is being collected, or the collector traces from it (palloc, allocator.c:126,
\* and the FENCE_CHECK of an insert, lfl-RoF.c:205).
THEOREM NoStaleObjects == Spec => []NoStaleObject
<1>1. VersionInv /\ FreshInv => NoStaleObject
  BY DEF FreshInv
<1> QED
  BY <1>1, FreshInvariant, PTL

\* An insert that got NULL from palloc is stopped by the fence before its CAS
\* (allocator.c:144).
THEOREM NullIsDiscarded == Spec => []NullDiscarded
<1>1. VersionInv /\ FreshInv => NullDiscarded
  BY DEF FreshInv
<1> QED
  BY <1>1, FreshInvariant, PTL

=============================================================================
