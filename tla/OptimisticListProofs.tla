------------------------- MODULE OptimisticListProofs -------------------------
(***************************************************************************)
(* The set of hazard pointers, for every size of its table; and the list   *)
(* without counts, in its three versions, for every number of threads,     *)
(* entries, keys, calls and collections.                                   *)
(*                                                                         *)
(* The list, part 1: one lemma for every step says that it keeps the       *)
(* invariant ListInv.  Steps of a kind share a lemma: QuietStep for those  *)
(* that write nothing into the heap, OutsideStep for those that write into *)
(* the thread's own entry, CasStep for the three CASes, CollectorFrame for *)
(* the collector.  Part 2: the properties follow, and every step is a step *)
(* of KeySet.                                                              *)
(*                                                                         *)
(* The proofs need ~ Overlap: with it Protected fails (run List_lost).     *)
(***************************************************************************)
EXTENDS OptimisticList, ReachabilityProofs, TLAPS, FiniteSetTheorems

-----------------------------------------------------------------------------
(* The table of hazard pointers is a set: what was added is found, and     *)
(* nothing else, also for every width of an int.                           *)

\* hash_fun's assertion: its value is a cell (simpleSet.c:22).
LEMMA HashFunIsSlot ==
    ASSUME NEW d \in Ints, NEW try \in Ints
    PROVE  HashFun(d, try) \in Slots
<1>1. (d + try) % IntRange \in Nat
  BY PointerSetAssumption DEF Ints
<1>2. \A n \in Nat : n % SetSize \in 0 .. SetSize - 1
  BY PointerSetAssumption
<1>. QED
  BY <1>1, <1>2 DEF HashFun, Slots

\* Remainders of numbers that are small enough.
LEMMA ModAdd ==
    ASSUME NEW R \in Nat \ {0}, NEW s \in 0 .. R - 1
    PROVE  (R + s) % R = s /\ s % R = s
  OBVIOUS

\* The tries come to every cell, although their sum wraps around.
LEMMA TriesCoverSlots ==
    ASSUME NEW d \in Ints, NEW s \in Slots
    PROVE  \E try \in Ints : HashFun(d, try) = s
<1>1. IntRange \in Nat \ {0} /\ SetSize \in Nat \ {0} /\ s \in 0 .. IntRange - 1 /\ d \in 0 .. IntRange - 1
  BY PointerSetAssumption DEF Slots, Ints
<1>2. s % IntRange = s /\ (IntRange + s) % IntRange = s /\ s % SetSize = s
  BY <1>1, ModAdd DEF Slots
<1>3. CASE d <= s
  <2>1. s - d \in Ints /\ d + (s - d) = s
    BY <1>1, <1>3 DEF Ints
  <2>2. HashFun(d, s - d) = s
    BY <1>2, <2>1 DEF HashFun
  <2>. QED
    BY <2>1, <2>2
<1>4. CASE s < d
  <2>1. IntRange - d + s \in Ints /\ d + (IntRange - d + s) = IntRange + s
    BY <1>1, <1>4 DEF Ints
  <2>2. HashFun(d, IntRange - d + s) = s
    BY <1>2, <2>1 DEF HashFun
  <2>. QED
    BY <2>1, <2>2
<1>. QED
  BY <1>1, <1>3, <1>4

\* The first try that stops is the only one.
LEMMA FirstUnique ==
    ASSUME NEW table, NEW d, NEW try \in Ints,
           Stops(table, d, try), \A k \in 0 .. try - 1 : ~ Stops(table, d, k)
    PROVE  First(table, d) = try
<1> DEFINE IsFirst(n) == Stops(table, d, n) /\ \A k \in 0 .. n - 1 : ~ Stops(table, d, k)
<1>1. \A n \in Ints : IsFirst(n) => n = try
  <2>1. TAKE n \in Ints
  <2>2. ~ (n < try) \/ ~ IsFirst(n)
    BY DEF Ints
  <2>3. ~ (try < n) \/ ~ IsFirst(n)
    BY DEF Ints
  <2>. QED
    BY <2>2, <2>3 DEF Ints
<1>2. IsFirst(try)
  OBVIOUS
<1>. QED
  BY <1>1, <1>2 DEF First

\* hash_insert and hash_retrieve end if there is a cell to end at.
LEMMA FirstStops ==
    ASSUME NEW table, NEW d \in Ints, NEW s \in Slots, table[s] \in {0, d}
    PROVE  /\ First(table, d) \in Ints
           /\ Stops(table, d, First(table, d))
           /\ \A k \in 0 .. First(table, d) - 1 : ~ Stops(table, d, k)
           /\ Place(table, d) \in Slots
           /\ table[Place(table, d)] \in {0, d}
<1> DEFINE T == {n \in Ints : Stops(table, d, n)}
<1>1. T # {}
  BY TriesCoverSlots DEF Stops
<1>2. T \in SUBSET Nat
  BY DEF Ints
<1>3. PICK n \in T : \A y \in T : n <= y
  BY <1>1, <1>2, LeastExists
<1>4. n \in Ints /\ Stops(table, d, n)
  OBVIOUS
<1>5. \A k \in 0 .. n - 1 : ~ Stops(table, d, k)
  <2>1. TAKE k \in 0 .. n - 1
  <2>2. k \in Ints /\ ~ (n <= k)
    BY <1>4, PointerSetAssumption DEF Ints
  <2>. QED
    BY <1>3, <2>2
<1>6. First(table, d) = n
  BY <1>4, <1>5, FirstUnique
<1>. QED
  BY <1>4, <1>5, <1>6, HashFunIsSlot DEF Place, Stops

-----------------------------------------------------------------------------
\* hash_insert keeps the table a set of what was added: the new element is
\* found, what was found is still found (simpleSet.c 47-64).
THEOREM InsertAdds ==
    ASSUME NEW table \in Tables, NEW d \in Ints \ {0}, Room(table), NoGap(table)
    PROVE  /\ HashInsert(table, d) \in Tables
           /\ NoGap(HashInsert(table, d))
           /\ Elements(HashInsert(table, d)) = Elements(table) \cup {d}
<1> DEFINE p == Place(table, d)
           after == HashInsert(table, d)
<1>1. p \in Slots /\ table[p] \in {0, d} /\ First(table, d) \in Ints
      /\ \A k \in 0 .. First(table, d) - 1 : ~ Stops(table, d, k)
  BY FirstStops DEF Room
<1>2. after \in Tables /\ after[p] = d /\ \A s \in Slots \ {p} : after[s] = table[s]
  BY <1>1 DEF HashInsert, Tables
<1>3. Elements(after) = Elements(table) \cup {d}
  <2>1. \A s \in Slots : after[s] \in Elements(table) \cup {0, d}
    BY <1>2 DEF Elements
  <2>2. \A e \in Elements(table) : \E s \in Slots : after[s] = e
    BY <1>1, <1>2 DEF Elements
  <2>3. 0 \notin Elements(table)
    BY DEF Elements
  <2>. HIDE DEF after
  <2>. QED
    BY <1>1, <1>2, <2>1, <2>2, <2>3 DEF Elements
<1>4. ASSUME NEW e \in Elements(after)
      PROVE  HashRetrieve(after, e)
  <2>1. CASE e = d
    <3>1. Stops(after, d, First(table, d))
      BY <1>2 DEF Stops, Place
    <3>2. \A k \in 0 .. First(table, d) - 1 : ~ Stops(after, d, k)
      <4>1. TAKE k \in 0 .. First(table, d) - 1
      <4>2. k \in Ints
        BY <1>1, PointerSetAssumption DEF Ints
      <4>3. HashFun(d, k) \in Slots
        BY <4>2, HashFunIsSlot
      <4>4. table[HashFun(d, k)] \notin {0, d}
        BY <1>1 DEF Stops
      <4>. QED
        BY <1>1, <1>2, <4>3, <4>4 DEF Stops
    <3>3. First(after, d) = First(table, d)
      BY <1>1, <3>1, <3>2, FirstUnique
    <3>. QED
      BY <1>2, <2>1, <3>3 DEF HashRetrieve, Place
  <2>2. CASE e # d
    <3>1. e \in Elements(table) /\ HashRetrieve(table, e)
      BY <1>3, <2>2 DEF NoGap
    <3>2. PICK s \in Slots : table[s] = e
      BY <3>1 DEF Elements
    <3>3. e \in Ints \ {0}
      BY <3>1, <3>2 DEF Tables, Elements
    <3>4. /\ First(table, e) \in Ints
          /\ \A k \in 0 .. First(table, e) - 1 : ~ Stops(table, e, k)
          /\ Place(table, e) \in Slots
      BY <3>2, <3>3, FirstStops
    <3>5. table[Place(table, e)] = e
      BY <3>1 DEF HashRetrieve
    <3>6. after[Place(table, e)] = e
      BY <1>1, <1>2, <2>2, <3>3, <3>4, <3>5
    <3>7. Stops(after, e, First(table, e))
      BY <3>6 DEF Stops, Place
    <3>8. \A k \in 0 .. First(table, e) - 1 : ~ Stops(after, e, k)
      <4>1. TAKE k \in 0 .. First(table, e) - 1
      <4>2. k \in Ints
        BY <3>4, PointerSetAssumption DEF Ints
      <4>3. HashFun(e, k) \in Slots
        BY <3>3, <4>2, HashFunIsSlot
      <4>4. table[HashFun(e, k)] \notin {0, e}
        BY <3>4 DEF Stops
      <4>. QED
        BY <1>1, <1>2, <2>2, <4>3, <4>4 DEF Stops
    <3>9. First(after, e) = First(table, e)
      BY <3>4, <3>7, <3>8, FirstUnique
    <3>. QED
      BY <3>6, <3>9 DEF HashRetrieve, Place
  <2>. QED
    BY <2>1, <2>2
<1>. QED
  BY <1>2, <1>3, <1>4 DEF NoGap

\* hash_retrieve says whether a pointer was added (simpleSet.c 66-78).
THEOREM RetrieveIsMember ==
    ASSUME NEW table \in Tables, NEW e \in Ints \ {0}, Room(table), NoGap(table)
    PROVE  HashRetrieve(table, e) <=> e \in Elements(table)
<1>1. Place(table, e) \in Slots
  BY FirstStops DEF Room
<1>2. HashRetrieve(table, e) => e \in Elements(table)
  BY <1>1 DEF HashRetrieve, Elements
<1>. QED
  BY <1>2 DEF NoGap

\* clean_hash leaves an empty set (simpleSet.c 42-45).
THEOREM CleanIsEmpty ==
    Clean \in Tables /\ Room(Clean) /\ NoGap(Clean) /\ Elements(Clean) = {}
<1>1. 0 \in Slots /\ 0 \in Ints
  BY PointerSetAssumption DEF Slots, Ints
<1>2. \A s \in Slots : Clean[s] = 0
  BY DEF Clean
<1>3. Clean \in Tables
  BY <1>1 DEF Clean, Tables
<1>4. Elements(Clean) = {}
  BY <1>2 DEF Elements
<1>. QED
  BY <1>1, <1>2, <1>3, <1>4 DEF Room, NoGap

\* A table that is not full, as the assertion of hash_insert demands
\* (simpleSet.c:50), has a cell to end at.
THEOREM HalfFullHasRoom ==
    ASSUME NEW table \in Tables, NumElements(table) < SetSize
    PROVE  Room(table)
<1>1. SUFFICES ASSUME ~ Room(table) PROVE FALSE
  OBVIOUS
<1>2. {s \in Slots : table[s] # 0} = Slots
  BY <1>1 DEF Room
<1>3. Cardinality(Slots) = SetSize
  BY PointerSetAssumption, FS_Interval DEF Slots
<1>. QED
  BY <1>2, <1>3, PointerSetAssumption DEF NumElements

\* number_of_elements is a number.
LEMMA CountType ==
    ASSUME NEW table
    PROVE  NumElements(table) \in Nat
<1>1. IsFiniteSet(Slots)
  BY PointerSetAssumption, FS_Interval DEF Slots
<1>2. IsFiniteSet({s \in Slots : table[s] # 0})
  BY <1>1, FS_Subset
<1> QED
  BY <1>2, FS_CardinalityType DEF NumElements

\* number_of_elements counts the cells that are taken: an insert takes one at
\* most (simpleSet.c 47-64).
THEOREM InsertCounts ==
    ASSUME NEW table \in Tables, NEW d \in Ints \ {0}, Room(table)
    PROVE  /\ NumElements(table) \in Nat
           /\ NumElements(HashInsert(table, d)) \in Nat
           /\ NumElements(HashInsert(table, d)) <= NumElements(table) + 1
<1> DEFINE Taken(t) == {s \in Slots : t[s] # 0}
           p == Place(table, d)
           after == HashInsert(table, d)
<1>1. p \in Slots
  BY FirstStops DEF Room
<1>2. \A s \in Slots \ {p} : after[s] = table[s]
  BY <1>1 DEF HashInsert, Tables
<1>3. IsFiniteSet(Slots)
  BY PointerSetAssumption, FS_Interval DEF Slots
<1>4. IsFiniteSet(Taken(table)) /\ IsFiniteSet(Taken(table) \cup {p})
  BY <1>3, FS_Subset, FS_AddElement
<1>5. Taken(after) \subseteq Taken(table) \cup {p}
  BY <1>2
<1>6. /\ Cardinality(Taken(table)) \in Nat
      /\ Cardinality(Taken(after)) <= Cardinality(Taken(table) \cup {p})
      /\ Cardinality(Taken(after)) \in Nat
  BY <1>4, <1>5, FS_Subset, FS_CardinalityType
<1>7. Cardinality(Taken(table) \cup {p}) \in {Cardinality(Taken(table)), Cardinality(Taken(table)) + 1}
  BY <1>4, FS_AddElement
<1>8. NumElements(table) = Cardinality(Taken(table)) /\ NumElements(after) = Cardinality(Taken(after))
  BY DEF NumElements
<1> HIDE DEF Taken, p, after
<1>9. NumElements(after) <= NumElements(table) + 1
  BY <1>6, <1>7, <1>8
<1> QED
  BY <1>6, <1>8, <1>9 DEF after

\* After clean_hash nothing is counted.
THEOREM CleanCounts == NumElements(Clean) = 0
<1>1. {s \in Slots : Clean[s] # 0} = {}
  BY DEF Clean
<1> QED
  BY <1>1, FS_EmptySet DEF NumElements

-----------------------------------------------------------------------------
(* The list.                                                               *)

\* The labels and the calls, by name.
LEMMA LabelFacts ==
    /\ "idle" \in Labels /\ "start" \in Labels /\ "next" \in Labels
    /\ "judge" \in Labels /\ "fence" \in Labels /\ "cas" \in Labels
    /\ "found" \in Labels /\ "absent" \in Labels /\ "help" \in Labels
    /\ "restart" \in Labels
    /\ "none" \in Calls /\ "insert" \in Calls /\ "delete" \in Calls /\ "search" \in Calls
  BY DEF Labels, Calls

\* The history variable holds Booleans.
LEMMA WitnessType ==
    ASSUME Witness, saw \in [Threads -> SUBSET BOOLEAN]
    PROVE  saw' \in [Threads -> SUBSET BOOLEAN]
<1>1. \A t \in Threads : (arg'[t] \in Present') \in BOOLEAN
  OBVIOUS
<1>2. \A t \in Threads : saw[t] \cup {arg'[t] \in Present'} \in SUBSET BOOLEAN
  BY <1>1
<1> QED
  BY <1>2 DEF Witness

-----------------------------------------------------------------------------
(* What the steps do, thread by thread.                                    *)

\* The step of t leaves the other threads where they are.
Others(t) ==
    \A u \in Threads \ {t} :
        /\ dirty'[u] = dirty[u] /\ pc'[u] = pc[u] /\ op'[u] = op[u] /\ arg'[u] = arg[u]
        /\ prev'[u] = prev[u] /\ cur'[u] = cur[u] /\ nxt'[u] = nxt[u] /\ nd'[u] = nd[u]
        /\ new'[u] = new[u]

\* t has given up what it had come to.
Dropped(t) ==
    /\ pc'[t] \in {"idle", "start", "help", "restart"}
    /\ prev'[t] = Root /\ cur'[t] = Null /\ nxt'[t] = Null /\ new'[t] = Null /\ ~ nd'[t]

\* The types of the variables that a step of t changes; not of the history.
Locals ==
    /\ dirty \in [Threads -> BOOLEAN] /\ nd \in [Threads -> BOOLEAN]
    /\ prev \in [Threads -> Cells] /\ cur \in [Threads -> Pointers]
    /\ nxt \in [Threads -> Pointers] /\ new \in [Threads -> Pointers]
    /\ pc \in [Threads -> Labels] /\ op \in [Threads -> Calls]
    /\ arg \in [Threads -> Keys \cup {0}]

\* Drop leaves the thread at the place it goes to with nothing read.
LEMMA DropEffect ==
    ASSUME Types, NEW t \in Threads, Drop(t), UNCHANGED <<op, arg>>,
           NEW l \in {"start", "help", "restart"}, Goto(t, l),
           dirty' \in [Threads -> BOOLEAN],
           \A u \in Threads \ {t} : dirty'[u] = dirty[u]
    PROVE  Locals' /\ Others(t) /\ Dropped(t) /\ pc'[t] = l /\ op'[t] = op[t] /\ arg'[t] = arg[t]
<1> USE LabelFacts DEF Types, LocalTypes, Drop, Goto, Cells, Pointers
<1>1. l \in Labels
  OBVIOUS
<1>2. Locals'
  BY <1>1 DEF Locals
<1>3. Others(t)
  BY DEF Others
<1> QED
  BY <1>2, <1>3 DEF Dropped

\* GiveUp is a Drop.
LEMMA GiveUpEffect ==
    ASSUME Types, NEW t \in Threads, GiveUp(t),
           dirty' \in [Threads -> BOOLEAN],
           \A u \in Threads \ {t} : dirty'[u] = dirty[u]
    PROVE  /\ Locals' /\ Others(t) /\ Dropped(t)
           /\ pc'[t] = IF mode = "collected" /\ gc # "idle" THEN "help" ELSE "restart"
           /\ arg'[t] = arg[t]
<1> DEFINE l == IF mode = "collected" /\ gc # "idle" THEN "help" ELSE "restart"
<1>1. l \in {"start", "help", "restart"}
  OBVIOUS
<1>2. Drop(t) /\ Goto(t, l) /\ UNCHANGED <<op, arg>>
  BY DEF GiveUp, Again
<1> HIDE DEF l
<1>3. Locals' /\ Others(t) /\ Dropped(t) /\ pc'[t] = l /\ arg'[t] = arg[t]
  BY <1>1, <1>2, DropEffect
<1> QED
  BY <1>3 DEF l

\* So does starting again from the head,
LEMMA AgainEffect ==
    ASSUME Types, NEW t \in Threads, Again(t, "start"), UNCHANGED dirty
    PROVE  /\ Locals' /\ Others(t) /\ Dropped(t)
           /\ pc'[t] = "start" /\ op'[t] = op[t] /\ arg'[t] = arg[t]
  BY DropEffect DEF Again, Types, LocalTypes

\* and so does the end of an operation.
LEMMA ReturnEffect ==
    ASSUME Types, NEW t \in Threads, Return(t), UNCHANGED dirty
    PROVE  Locals' /\ Others(t) /\ Dropped(t) /\ pc'[t] = "idle"
<1> USE LabelFacts DEF Types, LocalTypes, Return, Drop, Goto, Cells, Pointers
<1>1. Locals'
  BY DEF Locals
<1>2. Others(t)
  BY DEF Others
<1> QED
  BY <1>1, <1>2 DEF Dropped

\* The control part after a step of t.
LEMMA ControlFrame ==
    ASSUME Types, NEW t \in Threads, Others(t), Dropped(t) \/ Control(t)'
    PROVE  \A u \in Threads : Control(u)'
<1>1. ASSUME NEW u \in Threads \ {t} PROVE Control(u)'
  BY <1>1 DEF Others, Types, Control, Inserts
<1>2. Dropped(t) => Control(t)'
  BY DEF Dropped, Control, Inserts
<1> QED
  BY <1>1, <1>2

-----------------------------------------------------------------------------
(* Where threads can get to.                                               *)

\* The sets Line, Young and Shared: what they contain, and that they are
\* closed under the pointers.
LEMMA SharedFacts ==
    ASSUME Types
    PROVE  /\ DOMAIN to = Cells /\ Root \in Cells /\ Null \notin Cells
           /\ Root \in Line /\ Line \subseteq Young /\ Young \subseteq Shared /\ Shared \subseteq Cells
           /\ \A x \in Line : to[x] \in Line \cup {Null}
           /\ \A x \in Young : to[x] \in Young \cup {Null}
           /\ \A x \in Shared : to[x] \in Shared \cup {Null}
           /\ \A t \in Undirty : Reads(t) \subseteq Shared \cup {Null}
           /\ \A t \in Undirty : Stamped(t) => Reads(t) \subseteq Young \cup {Null}
<1> USE DEF Types
<1>1. DOMAIN to = Cells /\ Root \in Cells /\ Null \notin Cells /\ \A x \in Cells : to[x] \in Cells \cup {Null}
  BY OptimisticListAssumption DEF HeapTypes, Cells, Pointers
<1> DEFINE R0 == {Root}
           R1 == {Root} \cup UNION {Reads(t) : t \in {u \in Undirty : Stamped(u)}}
           R2 == {Root} \cup UNION {Reads(t) : t \in Undirty}
<1>2. Line = Reach(to, R0) /\ Young = Reach(to, R1) /\ Shared = Reach(to, R2)
  BY DEF Line, Young, Shared, From
<1>3. R0 \subseteq R1 /\ R1 \subseteq R2
  OBVIOUS
<1>4. \A t \in Undirty : Reads(t) \subseteq Cells \cup {Null}
  BY DEF Reads, Undirty, LocalTypes, Pointers, Cells
<1>5. \A t \in Undirty : Reads(t) \subseteq R2 /\ (Stamped(t) => Reads(t) \subseteq R1)
  OBVIOUS
<1> HIDE DEF R0, R1, R2
<1>6. Line \subseteq Young /\ Young \subseteq Shared
  BY <1>2, <1>3, ReachMonotone
<1>7. \A x \in Line : to[x] \in DOMAIN to => to[x] \in Line
  BY <1>2, ReachClosed
<1>8. \A x \in Young : to[x] \in DOMAIN to => to[x] \in Young
  BY <1>2, ReachClosed
<1>9. \A x \in Shared : to[x] \in DOMAIN to => to[x] \in Shared
  BY <1>2, ReachClosed
<1>10. Shared \subseteq Cells /\ R0 \cap Cells \subseteq Line /\ R1 \cap Cells \subseteq Young /\ R2 \cap Cells \subseteq Shared
  BY <1>1, <1>2, ReachClosed
<1>11. Root \in Line
  BY <1>1, <1>10 DEF R0
<1> QED
  BY <1>1, <1>4, <1>5, <1>6, <1>7, <1>8, <1>9, <1>10, <1>11

\* A set that is closed under the new pointers and has what the threads that
\* are not dirty now stand on has all they can now get to.
LEMMA SharedLeast ==
    ASSUME to' \in [Cells -> Pointers], NEW C, Root \in C,
           \A x \in C \cap Cells : to'[x] \in C \cup {Null},
           \A t \in Undirty' : Reads(t)' \subseteq C \cup {Null}
    PROVE  Shared' \subseteq C
<1> DEFINE R2 == {Root} \cup UNION {Reads(t) : t \in Undirty}
<1>1. DOMAIN to' = Cells /\ Root \in Cells /\ Null \notin Cells
  BY OptimisticListAssumption DEF Cells
<1>2. R2' \cap DOMAIN to' \subseteq C
  BY <1>1
<1>3. \A x \in C \cap DOMAIN to' : to'[x] \in DOMAIN to' => to'[x] \in C
  BY <1>1
<1>4. Shared' = Reach(to', R2')
  BY DEF Shared, From
<1> HIDE DEF R2
<1>5. Reach(to', R2') \subseteq C
  BY <1>2, <1>3, ReachLeast
<1> QED
  BY <1>4, <1>5

\* The same for the threads that the collection has stamped.
LEMMA YoungLeast ==
    ASSUME to' \in [Cells -> Pointers], NEW C, Root \in C,
           \A x \in C \cap Cells : to'[x] \in C \cup {Null},
           \A t \in Undirty' : Stamped(t)' => Reads(t)' \subseteq C \cup {Null}
    PROVE  Young' \subseteq C
<1> DEFINE R1 == {Root} \cup UNION {Reads(t) : t \in {u \in Undirty : Stamped(u)}}
<1>1. DOMAIN to' = Cells /\ Root \in Cells /\ Null \notin Cells
  BY OptimisticListAssumption DEF Cells
<1>2. R1' \cap DOMAIN to' \subseteq C
  BY <1>1
<1>3. \A x \in C \cap DOMAIN to' : to'[x] \in DOMAIN to' => to'[x] \in C
  BY <1>1
<1>4. Young' = Reach(to', R1')
  BY DEF Young, From
<1> HIDE DEF R1
<1>5. Reach(to', R1') \subseteq C
  BY <1>2, <1>3, ReachLeast
<1> QED
  BY <1>4, <1>5

\* What a thread stands on, or has in its hazard pointers, are cells.
LEMMA HoldsCells ==
    ASSUME Types, NEW t \in Threads
    PROVE  Holds(t) \subseteq Cells
  BY DEF Types, LocalTypes, Holds, Reads, Cells, Pointers

\* A step of t that changes only what t has read, and leads it nowhere that
\* could not be reached before.  t may give back the entry it has allocated.
Quiet(t) ==
    /\ UNCHANGED <<to, del, key, retired, collector, mode>> /\ Witness /\ Others(t)
    /\ free' \subseteq free \cup {x \in Nodes : Owns(t) /\ x = new[t]}
    /\ dirty'[t] => dirty[t]
    /\ pc'[t] # "cas" /\ new'[t] = Null
    /\ ~ dirty'[t] => /\ Reads(t)' \subseteq Shared \cup {Null}
                      /\ Stamped(t) => Reads(t)' \subseteq Young \cup {Null}

\* The parts of the invariant that speak of t alone.
Fine(t) == Control(t) /\ HelpsOf(t) /\ PlaceOf(t) /\ SeenOf(t)

\* History only grows while an operation is under way, by what it could find.
LEMMA WitnessGrows ==
    ASSUME Witness, NEW u \in Threads, pc'[u] # "idle"
    PROVE  /\ saw[u] \subseteq saw'[u]
           /\ arg'[u] \in Present' => TRUE \in saw'[u]
           /\ arg'[u] \notin Present' => FALSE \in saw'[u]
<1>1. saw'[u] = saw[u] \cup {arg'[u] \in Present'}
  BY DEF Witness
<1>2. CASE arg'[u] \in Present'
  <2>1. (arg'[u] \in Present') = TRUE
    BY <1>2
  <2> QED
    BY <1>1, <1>2, <2>1
<1>3. CASE arg'[u] \notin Present'
  <2>1. (arg'[u] \in Present') = FALSE
    BY <1>3
  <2> QED
    BY <1>1, <1>3, <2>1
<1> QED
  BY <1>2, <1>3

\* A quiet step keeps the invariant if what it says of t alone is kept.
LEMMA QuietStep ==
    ASSUME ListInv, NEW t \in Threads, Quiet(t), Locals', Fine(t)'
    PROVE  ListInv'
<1> USE DEF ListInv
<1>0. /\ to' = to /\ del' = del /\ key' = key /\ retired' = retired
      /\ toProcess' = toProcess /\ gc' = gc /\ left' = left /\ HPlocal' = HPlocal
      /\ hps' = hps /\ mode' = mode
  BY DEF Quiet, collector
<1>a. free' \subseteq free \cup {x \in Nodes : Owns(t) /\ x = new[t]}
  BY DEF Quiet
<1>1. Types'
  <2>1. \A u \in Threads : Control(u)'
    BY ControlFrame DEF Quiet, Fine
  <2>2. saw' \in [Threads -> SUBSET BOOLEAN]
    BY WitnessType DEF Quiet, Types, LocalTypes
  <2>3. free' \subseteq Nodes
    BY <1>a DEF Types, HeapTypes
  <2> QED
    BY <1>0, <2>1, <2>2, <2>3 DEF Types, HeapTypes, LocalTypes, Locals
<1>2. Shared' \subseteq Shared /\ Young' \subseteq Young /\ Line' = Line
  <2>1. \A u \in Threads \ {t} : Reads(u)' = Reads(u)
    BY DEF Quiet, Others, Reads
  <2>2. \A u \in Threads \ {t} : u \in Undirty' => u \in Undirty
    BY DEF Quiet, Others, Undirty
  <2>3. \A u \in Threads : Stamped(u)' = Stamped(u)
    BY <1>0 DEF Stamped
  <2>4. \A u \in Undirty' : Reads(u)' \subseteq Shared \cup {Null}
    BY <2>1, <2>2, SharedFacts DEF Quiet, Undirty
  <2>5. \A u \in Undirty' : Stamped(u)' => Reads(u)' \subseteq Young \cup {Null}
    BY <2>1, <2>2, <2>3, SharedFacts DEF Quiet, Undirty
  <2>6. Shared' \subseteq Shared
    BY <1>0, <2>4, SharedLeast, SharedFacts DEF Types, HeapTypes
  <2>7. Young' \subseteq Young
    BY <1>0, <2>5, YoungLeast, SharedFacts DEF Types, HeapTypes
  <2> QED
    BY <1>0, <2>6, <2>7 DEF Line, From
<1>3. \A u \in Threads : Holds(u)' \subseteq Holds(u) \cup Shared
  <2>1. Holds(t)' \subseteq Shared
    BY DEF Quiet, Holds, Undirty
  <2>2. \A u \in Threads \ {t} : Holds(u)' = Holds(u)
    BY DEF Quiet, Others, Holds, Reads, Undirty
  <2> QED
    BY <2>1, <2>2
<1>b. \A x \in free' \ free : /\ x \notin retired \cup toProcess \cup Shared
                              /\ \A u \in Threads : x \notin Holds(u)
                              /\ \A u \in Threads \ {t} : Owns(u) => new[u] # x
  BY <1>a DEF Private
<1>4. Safe'
  BY <1>0, <1>2, <1>3, <1>b DEF Safe
<1>5. Private'
  <2>1. ~ Owns(t)'
    BY DEF Owns, Quiet
  <2>2. \A u \in Threads \ {t} : Owns(u)' = Owns(u) /\ new'[u] = new[u]
    BY DEF Quiet, Others, Owns, Undirty
  <2> QED
    BY <1>0, <1>2, <1>3, <1>b, <2>1, <2>2 DEF Private
<1>6. Unlinked'
  BY <1>0, <1>2, <1>b DEF Unlinked
<1>7. Saved'
  <2>1. SavedOf(t)'
    BY DEF SavedOf, Quiet
  <2>2. ASSUME NEW u \in Threads \ {t} PROVE SavedOf(u)'
    <3>1. HPs(u)' = HPs(u)
      BY <2>2 DEF Quiet, Others, HPs, Published
    <3> QED
      BY <1>0, <2>2, <3>1 DEF SavedOf, Quiet, Others, Saved
  <2> QED
    BY <1>0, <2>1, <2>2 DEF Saved
<1>8. Helping'
  <2>1. ASSUME NEW u \in Threads \ {t} PROVE HelpsOf(u)'
    BY <1>0, <2>1 DEF HelpsOf, Quiet, Others, Helping, Stamped
  <2> QED
    BY <1>0, <2>1 DEF Helping, Fine, Undirty, Quiet, Others
<1>9. InOrder'
  <2>1. ASSUME NEW u \in Threads \ {t} PROVE PlaceOf(u)'
    BY <1>0, <2>1 DEF PlaceOf, Sure, Inserts, Undirty, Quiet, Others, InOrder
  <2> QED
    BY <1>0, <1>2, <2>1 DEF InOrder, Sorted, Fine
<1>10. Seen'
  <2>1. ASSUME NEW u \in Threads \ {t} PROVE SeenOf(u)'
    <3>1. pc'[u] \in {"found", "absent", "judge"} => saw[u] \subseteq saw'[u]
      BY WitnessGrows DEF Quiet
    <3> QED
      BY <1>0, <2>1, <3>1 DEF SeenOf, Undirty, Quiet, Others, Seen
  <2> QED
    BY <2>1 DEF Seen, Fine
<1> QED
  BY <1>1, <1>4, <1>5, <1>6, <1>7, <1>8, <1>9, <1>10

-----------------------------------------------------------------------------
(* The order of the list.                                                  *)

\* Keys are numbers.
LEMMA KeyInts ==
    ASSUME Types
    PROVE  /\ Keys \cup {0} \subseteq Int
           /\ \A n \in Nodes : key[n] \in Int
           /\ \A t \in Threads : arg[t] \in Int
<1>1. Keys \cup {0} \subseteq Int
  BY OptimisticListAssumption
<1> QED
  BY <1>1 DEF Types, HeapTypes, LocalTypes

\* From an entry on there are only entries, of the list if it is in the list,
\* and those behind it have greater keys.
LEMMA Behind ==
    ASSUME Types, Sorted, NEW n \in Line \ {Root}
    PROVE  /\ Reach(to, {n}) \subseteq Line \ {Root}
           /\ \A x \in Reach(to, {n}) : x = n \/ key[n] < key[x]
<1>1. DOMAIN to = Cells /\ n \in Nodes /\ Line \subseteq Cells /\ Root \notin Nodes /\ Null \notin Cells
  BY SharedFacts, OptimisticListAssumption DEF Cells
<1>2. Reach(to, {n}) \subseteq Line
  BY <1>1, ReachIdempotent DEF Line, From
<1>3. Reach(to, {n}) \subseteq Nodes
  <2>1. \A x \in Nodes \cap DOMAIN to : to[x] \in DOMAIN to => to[x] \in Nodes
    BY <1>1 DEF Types, HeapTypes, Cells, Pointers
  <2> QED
    BY <1>1, <2>1, ReachLeast
<1>4. \A y \in Reach(to, {n}) : key[y] \in Int
  BY <1>3, KeyInts
<1>5. \A y \in Reach(to, {n}) : to[y] \in DOMAIN to => key[y] < key[to[y]]
  BY <1>1, <1>2, <1>3 DEF Sorted, Cells
<1>6. \A x \in Reach(to, {n}) : x = n \/ key[n] < key[x]
  BY <1>4, <1>5, ReachSorted
<1> QED
  BY <1>1, <1>2, <1>3, <1>6

\* An entry of the list is p, or before it, or behind it.
LEMMA Position ==
    ASSUME Types, Sorted, NEW p \in Line, NEW n \in Line \ {Root}
    PROVE  \/ p # Root /\ (n = p \/ key[n] < key[p])
           \/ to[p] # Null /\ (n = to[p] \/ key[to[p]] < key[n])
<1>1. DOMAIN to = Cells /\ Line \subseteq Cells /\ Root \notin Nodes /\ Null \notin Cells
  BY SharedFacts, OptimisticListAssumption DEF Cells
<1>2. p \in Reach(to, {n}) \/ n \in Reach(to, {to[p]})
  BY ReachLine DEF Line, From
<1>3. CASE p \in Reach(to, {n})
  BY <1>3, Behind
<1>4. CASE n \in Reach(to, {to[p]})
  <2>1. to[p] # Null
    BY <1>1, <1>4, ReachNothing
  <2>2. to[p] \in Line \ {Root}
    BY <1>1, <2>1, SharedFacts DEF Types, HeapTypes, Pointers
  <2> QED
    BY <1>4, <2>1, <2>2, Behind
<1> QED
  BY <1>2, <1>3, <1>4

\* Between a cell of the list and the next one there is no other key.
LEMMA Gap ==
    ASSUME Types, Sorted, NEW p \in Line, NEW k \in Int,
           p # Root => key[p] < k,
           to[p] # Null => k < key[to[p]]
    PROVE  /\ \A n \in Line \ {Root} : key[n] # k
           /\ k \notin Present
<1>1. \A n \in Line \ {Root} : key[n] # k
  <2> TAKE n \in Line \ {Root}
  <2>1. n \in Nodes /\ (p # Root => p \in Nodes) /\ (to[p] # Null => to[p] \in Nodes)
    BY SharedFacts DEF Cells, Types, HeapTypes, Pointers
  <2> QED
    BY <2>1, Position, KeyInts
<1> QED
  BY <1>1 DEF Present, InList, Line, From

\* Only one cell of the list points to a given entry, and none to itself.
LEMMA OnlyOne ==
    ASSUME Types, Sorted, NEW p \in Line, to[p] # Null
    PROVE  /\ \A x \in Line : to[x] = to[p] => x = p
           /\ to[p] # p /\ to[to[p]] # to[p]
<1>1. to[p] \in Line \ {Root} /\ to[p] \in Nodes /\ Line \subseteq Cells
  BY SharedFacts, OptimisticListAssumption DEF Types, HeapTypes, Pointers, Cells
<1>2. \A y \in Line : y # Root => y \in Nodes
  BY <1>1 DEF Cells
<1>3. \A y \in Line \ {Root} : to[y] # Null => key[y] < key[to[y]]
  BY DEF Sorted
<1>4. \A y \in Line \ {Root} : to[y] # y
  BY <1>2, <1>3, KeyInts, OptimisticListAssumption
<1>5. ASSUME NEW x \in Line, to[x] = to[p], x # p PROVE FALSE
  <2>1. CASE x # Root
    <3>1. \/ p # Root /\ key[x] < key[p]
          \/ x = to[p] \/ key[to[p]] < key[x]
      BY <1>5, <2>1, Position
    <3>2. key[x] < key[to[p]] /\ x # to[p]
      BY <1>3, <1>4, <1>5, <2>1
    <3>3. p # Root /\ key[x] < key[p]
      BY <1>1, <1>2, <2>1, <3>1, <3>2, KeyInts
    <3>4. \/ key[p] < key[x]
          \/ p = to[x] \/ key[to[x]] < key[p]
      BY <1>5, <2>1, <3>3, Position
    <3>5. key[p] < key[to[p]] /\ p # to[p]
      BY <1>3, <1>4, <3>3
    <3> QED
      BY <1>1, <1>2, <1>5, <2>1, <3>3, <3>4, <3>5, KeyInts
  <2>2. CASE x = Root
    <3>1. p # Root
      BY <1>5, <2>2
    <3>2. p = to[p] \/ key[to[p]] < key[p]
      BY <1>5, <2>2, <3>1, Position
    <3> QED
      BY <1>1, <1>2, <1>3, <1>4, <3>1, <3>2, KeyInts
  <2> QED
    BY <2>1, <2>2
<1> QED
  BY <1>1, <1>4, <1>5

-----------------------------------------------------------------------------
(* The steps that write nothing into the heap.                             *)

\* A thread that reads its dirty byte as clear is not dirty.
LEMMA NotDirty ==
    ASSUME ListInv, NEW t \in Threads, ~ Dirty(t)
    PROVE  t \in Undirty /\ ~ dirty[t]
  BY DEF ListInv, Helping, Dirty, Undirty

\* A thread reads the head of the list.
LEMMA HeadStep ==
    ASSUME ListInv, NEW t \in Threads, UNCHANGED <<heap, collector, dirty, mode>>, Witness,
           pc[t] \in {"idle", "start"}, Locals', Others(t),
           prev'[t] = prev[t], nxt'[t] = nxt[t], nd'[t] = nd[t], new'[t] = new[t],
           cur'[t] = to[Root], pc'[t] = IF to[Root] = Null THEN "absent" ELSE "next"
    PROVE  ListInv'
<1> USE DEF ListInv
<1>1. /\ prev'[t] = Root /\ nxt'[t] = Null /\ new'[t] = Null /\ ~ nd'[t] /\ dirty'[t] = dirty[t]
      /\ pc'[t] \in {"absent", "next"}
  BY DEF Types, LocalTypes, Control, Inserts
<1>2. Quiet(t)
  BY <1>1, SharedFacts DEF Quiet, Reads, heap, collector
<1>3. Fine(t)'
  <2>1. Control(t)'
    BY <1>1 DEF Control, Inserts
  <2>2. HelpsOf(t)'
    BY <1>1 DEF HelpsOf, Helping, Stamped, collector
  <2>3. PlaceOf(t)'
    BY <1>1 DEF PlaceOf, Inserts
  <2>4. SeenOf(t)'
    <3>1. pc'[t] = "absent" => FALSE \in saw'[t]
      <4>1. SUFFICES ASSUME to[Root] = Null PROVE FALSE \in saw'[t]
        OBVIOUS
      <4>2. arg'[t] \in Int
        BY KeyInts DEF Locals
      <4>3. arg'[t] \notin Present
        BY <4>1, <4>2, Gap, SharedFacts DEF InOrder
      <4>4. Present' = Present
        BY DEF Present, InList, From, heap
      <4> QED
        BY <1>1, <4>3, <4>4, WitnessGrows
    <3> QED
      BY <1>1, <3>1 DEF SeenOf
  <2> QED
    BY <2>1, <2>2, <2>3, <2>4 DEF Fine
<1> QED
  BY <1>2, <1>3, QuietStep

\* A call reads the head, and so does a search that starts again.
LEMMA StartStep ==
    ASSUME ListInv, NEW t \in Threads, Start(t), Witness, mode' = mode
    PROVE  ListInv'
<1> USE DEF ListInv
<1>1. /\ UNCHANGED <<heap, collector, dirty, prev, nxt, nd, new>>
      /\ pc[t] = "idle"
      /\ \E o \in {"insert", "delete", "search"} : op' = [op EXCEPT ![t] = o]
      /\ \E k \in Keys : arg' = [arg EXCEPT ![t] = k]
      /\ cur' = [cur EXCEPT ![t] = to[Root]]
      /\ pc' = [pc EXCEPT ![t] = IF to[Root] = Null THEN "absent" ELSE "next"]
  BY DEF Start, Arrive, Goto
<1>2. to[Root] \in Pointers
  BY SharedFacts DEF Types, HeapTypes
<1>3. Locals' /\ Others(t)
  <2>1. Locals'
    BY <1>1, <1>2, LabelFacts DEF Types, LocalTypes, Locals
  <2>2. Others(t)
    BY <1>1 DEF Others, Types, LocalTypes
  <2> QED
    BY <2>1, <2>2
<1>4. cur'[t] = to[Root] /\ pc'[t] = IF to[Root] = Null THEN "absent" ELSE "next"
  BY <1>1 DEF Types, LocalTypes
<1> QED
  BY <1>1, <1>3, <1>4, HeadStep

\* A search that starts again.
LEMMA ReadHeadStep ==
    ASSUME ListInv, NEW t \in Threads, ReadHead(t), Witness, mode' = mode
    PROVE  ListInv'
<1> USE DEF ListInv
<1>1. /\ UNCHANGED <<heap, collector, dirty, op, arg, prev, nxt, nd, new>>
      /\ pc[t] = "start"
      /\ cur' = [cur EXCEPT ![t] = to[Root]]
      /\ pc' = [pc EXCEPT ![t] = IF to[Root] = Null THEN "absent" ELSE "next"]
  BY DEF ReadHead, Arrive, Goto
<1>2. to[Root] \in Pointers
  BY SharedFacts DEF Types, HeapTypes
<1>3. Locals' /\ Others(t)
  <2>1. Locals'
    BY <1>1, <1>2, LabelFacts DEF Types, LocalTypes, Locals
  <2>2. Others(t)
    BY <1>1 DEF Others, Types, LocalTypes
  <2> QED
    BY <2>1, <2>2
<1>4. cur'[t] = to[Root] /\ pc'[t] = IF to[Root] = Null THEN "absent" ELSE "next"
  BY <1>1 DEF Types, LocalTypes
<1> QED
  BY <1>1, <1>3, <1>4, HeadStep

\* A thread that starts again, or is done, has nothing that could be wrong.
LEMMA DroppedStep ==
    ASSUME ListInv, NEW t \in Threads,
           UNCHANGED <<to, del, key, retired, collector, mode>>, Witness,
           free' \subseteq free \cup {x \in Nodes : Owns(t) /\ x = new[t]},
           Others(t), Dropped(t), Locals', dirty'[t] => dirty[t], HelpsOf(t)'
    PROVE  ListInv'
<1>1. Quiet(t)
  BY SharedFacts DEF Quiet, Dropped, Reads, ListInv
<1>2. Fine(t)'
  BY DEF Fine, Dropped, Control, Inserts, PlaceOf, SeenOf
<1> QED
  BY <1>1, <1>2, QuietStep

\* The dirty byte is cleared: nothing has been read yet.
LEMMA RestartStep ==
    ASSUME ListInv, NEW t \in Threads, Restart(t), Witness, mode' = mode
    PROVE  ListInv'
<1> USE DEF ListInv
<1>1. /\ UNCHANGED <<heap, collector, op, arg, prev, cur, nxt, nd, new>>
      /\ pc[t] = "restart" /\ pc' = [pc EXCEPT ![t] = "start"]
      /\ dirty' = [dirty EXCEPT ![t] = FALSE]
  BY DEF Restart, Goto, find
<1>2. Locals'
  BY <1>1, LabelFacts DEF Types, LocalTypes, Locals
<1>3. Others(t)
  BY <1>1 DEF Others, Types, LocalTypes
<1>4. Dropped(t) /\ ~ dirty'[t] /\ pc'[t] = "start"
  BY <1>1 DEF Dropped, Types, LocalTypes, Control, Inserts
<1>5. HelpsOf(t)'
  BY <1>1, <1>4 DEF HelpsOf, Helping, Stamped, collector
<1> QED
  BY <1>1, <1>2, <1>3, <1>4, <1>5, DroppedStep DEF heap

\* An operation that changes nothing is over.
LEMMA NothingToDoStep ==
    ASSUME ListInv, NEW t \in Threads, NothingToDo(t), Witness, mode' = mode
    PROVE  ListInv'
<1> USE DEF ListInv
<1>1. UNCHANGED <<heap, collector, dirty>> /\ pc[t] \in {"found", "absent"} /\ Return(t)
  BY DEF NothingToDo
<1>2. Locals' /\ Others(t) /\ Dropped(t) /\ pc'[t] = "idle"
  BY <1>1, ReturnEffect
<1>3. HelpsOf(t)'
  BY <1>1, <1>2 DEF HelpsOf, Helping, Stamped, collector
<1> QED
  BY <1>1, <1>2, <1>3, DroppedStep DEF heap

\* A dirty thread gives up.
LEMMA GiveUpStep ==
    ASSUME ListInv, NEW t \in Threads, UNCHANGED <<heap, collector, mode>>, Witness,
           GiveUp(t), Dirty(t), dirty' \in {dirty, [dirty EXCEPT ![t] = FALSE]}
    PROVE  ListInv'
<1> USE DEF ListInv
<1>1. /\ dirty' \in [Threads -> BOOLEAN] /\ \A u \in Threads \ {t} : dirty'[u] = dirty[u]
      /\ dirty'[t] => dirty[t]
  BY DEF Types, LocalTypes
<1>2. /\ Locals' /\ Others(t) /\ Dropped(t)
      /\ pc'[t] = IF mode = "collected" /\ gc # "idle" THEN "help" ELSE "restart"
  BY <1>1, GiveUpEffect
<1>3. HelpsOf(t)'
  BY <1>2 DEF HelpsOf, Stamped, collector, Types, HeapTypes
<1> QED
  BY <1>1, <1>2, <1>3, DroppedStep DEF heap

\* A thread whose CAS has failed starts again from the head.
LEMMA AgainStep ==
    ASSUME ListInv, NEW t \in Threads,
           UNCHANGED <<to, del, key, retired, collector, mode, dirty>>, Witness,
           free' \subseteq free \cup {x \in Nodes : Owns(t) /\ x = new[t]},
           Again(t, "start"), pc[t] # "help"
    PROVE  ListInv'
<1>1. Locals' /\ Others(t) /\ Dropped(t) /\ pc'[t] = "start"
  BY AgainEffect DEF ListInv
<1>2. HelpsOf(t)'
  BY <1>1 DEF ListInv, HelpsOf, Helping, Stamped, collector
<1> QED
  BY <1>1, <1>2, DroppedStep

\* The next pointer is read: behind the CHECK it leads to what can be reached.
LEMMA ReadNextStep ==
    ASSUME ListInv, NEW t \in Threads, ReadNext(t), Witness, mode' = mode
    PROVE  ListInv'
<1> USE DEF ListInv
<1>1. CASE Dirty(t)
  BY <1>1, GiveUpStep DEF ReadNext
<1>2. CASE ~ Dirty(t)
  <2>1. /\ UNCHANGED <<heap, collector, dirty, op, arg, prev, cur, new>>
        /\ pc[t] = "next"
        /\ nxt' = [nxt EXCEPT ![t] = to[cur[t]]]
        /\ nd' = [nd EXCEPT ![t] = del[cur[t]]]
        /\ pc' = [pc EXCEPT ![t] = IF del[cur[t]] THEN "fence" ELSE "judge"]
    BY <1>2 DEF ReadNext, Goto
  <2>2. t \in Undirty /\ ~ dirty[t]
    BY <1>2, NotDirty
  <2>3. /\ cur[t] \in Shared /\ cur[t] \in Nodes
        /\ cur[t] \in Holds(t) /\ ~ nd[t] /\ new[t] = Null
    BY <2>1, <2>2, SharedFacts DEF Types, LocalTypes, Control, Inserts, Reads, Pointers, Holds
  <2>4. to[cur[t]] \in Pointers /\ to[cur[t]] \in Shared \cup {Null}
    BY <2>3, SharedFacts DEF Types, HeapTypes, Cells
  <2>5. Stamped(t) => to[cur[t]] \in Young \cup {Null}
    BY <2>1, <2>2, <2>3, SharedFacts DEF Reads, Types, Control
  <2>6. del[cur[t]] \in BOOLEAN
    BY <2>3 DEF Types, HeapTypes, Cells
  <2>7. Locals'
    BY <2>1, <2>4, <2>6, LabelFacts DEF Types, LocalTypes, Locals
  <2>8. Others(t)
    BY <2>1 DEF Others, Types, LocalTypes
  <2>9. /\ cur'[t] = cur[t] /\ pc'[t] = IF del[cur[t]] THEN "fence" ELSE "judge"
        /\ prev'[t] = prev[t] /\ nxt'[t] = to[cur[t]] /\ new'[t] = Null /\ nd'[t] = del[cur[t]]
        /\ dirty'[t] = dirty[t] /\ arg'[t] = arg[t]
    BY <2>1, <2>3 DEF Types, LocalTypes
  <2>10. Quiet(t)
    BY <2>1, <2>2, <2>4, <2>5, <2>8, <2>9, SharedFacts DEF Quiet, Reads, heap, collector
  <2>11. Fine(t)'
    <3>1. Control(t)'
      BY <2>3, <2>6, <2>9, OptimisticListAssumption DEF Control, Inserts
    <3>2. HelpsOf(t)'
      BY <2>1, <2>2, <2>9 DEF HelpsOf, Helping, Stamped, collector
    <3>3. PlaceOf(t)'
      <4>1. prev[t] # Root => key[prev[t]] < arg[t]
        BY <2>2 DEF InOrder, PlaceOf, Sure
      <4> QED
        BY <2>1, <2>6, <2>9, <4>1 DEF PlaceOf, Inserts, heap
    <3>4. SeenOf(t)'
      <4>1. SUFFICES ASSUME pc'[t] = "judge", ~ del[cur[t]]
                     PROVE  /\ key[cur[t]] = arg[t] => TRUE \in saw'[t]
                            /\ key[cur[t]] < arg[t] /\ to[cur[t]] = Null => FALSE \in saw'[t]
        <5>1. pc'[t] = "judge" => ~ del[cur[t]]
          BY <2>9
        <5>2. pc'[t] \notin {"found", "absent"}
          BY <2>9
        <5>3. key' = key /\ arg'[t] = arg[t] /\ cur'[t] = cur[t] /\ nxt'[t] = to[cur[t]]
          BY <2>1, <2>9 DEF heap
        <5> QED
          BY <5>1, <5>2, <5>3 DEF SeenOf
      <4>2. cur[t] \in Line
        BY <2>3, <4>1 DEF Safe
      <4>3. Present' = Present /\ arg'[t] = arg[t]
        BY <2>1 DEF Present, InList, From, heap
      <4>4. key[cur[t]] = arg[t] => arg[t] \in Present
        BY <2>3, <4>1, <4>2, OptimisticListAssumption DEF Present, InList, Line, From
      <4>5. key[cur[t]] < arg[t] /\ to[cur[t]] = Null => arg[t] \notin Present
        BY <4>2, Gap, KeyInts DEF InOrder
      <4> QED
        BY <4>1, <4>3, <4>4, <4>5, WitnessGrows
    <3> QED
      BY <3>1, <3>2, <3>3, <3>4 DEF Fine
  <2> QED
    BY <2>7, <2>10, <2>11, QuietStep
<1> QED
  BY <1>1, <1>2

\* prev has been seen intact: it is in the list, and so is cur, next to it.
LEMMA JudgeStep ==
    ASSUME ListInv, NEW t \in Threads, Judge(t), Witness, mode' = mode
    PROVE  ListInv'
<1> USE DEF ListInv
<1>0. UNCHANGED <<heap, collector, dirty, op, arg>> /\ pc[t] = "judge"
  BY DEF Judge
<1>1. CASE Dirty(t)
  BY <1>1, GiveUpStep DEF Judge
<1>2. CASE ~ Dirty(t) /\ ~ PrevIntact(t)
  BY <1>0, <1>2, AgainStep DEF Judge, heap
<1>3. CASE ~ Dirty(t) /\ PrevIntact(t)
  <2>1. t \in Undirty /\ ~ dirty[t] /\ ~ del[prev[t]] /\ to[prev[t]] = cur[t]
    BY <1>3, NotDirty DEF PrevIntact
  <2>2. /\ prev[t] \in Cells /\ cur[t] \in Nodes /\ ~ nd[t] /\ new[t] = Null /\ nxt[t] \in Pointers
        /\ prev[t] \in Holds(t)
    BY <1>0, <2>1, SharedFacts DEF Types, LocalTypes, Control, Inserts, Reads, Pointers, Holds
  <2>3. prev[t] \in Line /\ cur[t] \in Line \ {Root}
    <3>1. prev[t] \in Line
      BY <2>1, <2>2 DEF Safe
    <3> QED
      BY <2>1, <2>2, <3>1, SharedFacts, OptimisticListAssumption DEF Pointers, Cells
  <2>4. key[cur[t]] \in Int /\ arg[t] \in Int
    BY <2>2, KeyInts
  <2>5. prev[t] # Root => key[prev[t]] < arg[t]
    BY <2>1 DEF InOrder, PlaceOf, Sure
  <2>6. Present' = Present /\ arg'[t] = arg[t]
    BY <1>0 DEF Present, InList, From, heap
  <2>7. CASE key[cur[t]] >= arg[t]
    <3>1. /\ pc' = [pc EXCEPT ![t] = Result(t, key[cur[t]] = arg[t])]
          /\ UNCHANGED <<prev, cur, nxt, nd, new>>
      BY <1>3, <2>7 DEF Judge, Goto, find
    <3> DEFINE res == Result(t, key[cur[t]] = arg[t])
    <3>2. /\ res \in {"fence", "found", "absent"}
          /\ res = "fence" => op[t] = "delete" /\ key[cur[t]] = arg[t]
          /\ res = "found" => key[cur[t]] = arg[t]
          /\ res = "absent" => arg[t] < key[cur[t]]
      BY <2>4, <2>7 DEF Result
    <3>3. Locals'
      BY <1>0, <3>1, <3>2, LabelFacts DEF Types, LocalTypes, Locals
    <3>4. Others(t)
      BY <1>0, <3>1 DEF Others, Types, LocalTypes
    <3>5. pc'[t] = res /\ prev'[t] = prev[t] /\ cur'[t] = cur[t] /\ nxt'[t] = nxt[t]
          /\ ~ nd'[t] /\ new'[t] = Null /\ dirty'[t] = dirty[t] /\ op'[t] = op[t]
      BY <1>0, <2>2, <3>1 DEF Types, LocalTypes
    <3> HIDE DEF res
    <3>6. Quiet(t)
      <4>1. Reads(t)' = Reads(t)
        BY <3>5 DEF Reads
      <4> QED
        BY <1>0, <2>1, <3>2, <3>4, <3>5, <4>1, SharedFacts DEF Quiet, heap, collector
    <3>7. Control(t)'
      BY <2>2, <3>2, <3>5, OptimisticListAssumption DEF Control, Inserts
    <3>8. HelpsOf(t)'
      BY <1>0, <2>1, <3>2, <3>5 DEF HelpsOf, Helping, Stamped, collector
    <3>9. PlaceOf(t)'
      BY <1>0, <2>5, <3>2, <3>5 DEF PlaceOf, Inserts, heap
    <3>10. SeenOf(t)'
      <4>1. pc'[t] = "found" => TRUE \in saw[t]
        BY <1>0, <2>1, <3>2, <3>5 DEF Seen, SeenOf
      <4>2. pc'[t] = "absent" => arg[t] \notin Present
        BY <2>1, <2>3, <2>4, <2>5, <3>2, <3>5, Gap DEF InOrder
      <4>3. pc'[t] # "idle" /\ pc'[t] # "judge"
        BY <3>2, <3>5
      <4> QED
        BY <2>6, <4>1, <4>2, <4>3, WitnessGrows DEF SeenOf
    <3> QED
      BY <3>3, <3>6, <3>7, <3>8, <3>9, <3>10, QuietStep DEF Fine
  <2>8. CASE ~ (key[cur[t]] >= arg[t])
    <3>1. /\ prev' = [prev EXCEPT ![t] = cur[t]]
          /\ cur' = [cur EXCEPT ![t] = nxt[t]]
          /\ nxt' = [nxt EXCEPT ![t] = Null]
          /\ pc' = [pc EXCEPT ![t] = IF nxt[t] = Null THEN "absent" ELSE "next"]
          /\ UNCHANGED <<nd, new>>
      BY <1>3, <2>8 DEF Judge, Goto, Arrive
    <3>2. key[cur[t]] < arg[t]
      BY <2>4, <2>8
    <3>3. Locals'
      BY <1>0, <2>2, <3>1, LabelFacts DEF Types, LocalTypes, Locals, Cells, Pointers
    <3>4. Others(t)
      BY <1>0, <3>1 DEF Others, Types, LocalTypes
    <3>5. pc'[t] = (IF nxt[t] = Null THEN "absent" ELSE "next")
          /\ prev'[t] = cur[t] /\ cur'[t] = nxt[t] /\ nxt'[t] = Null
          /\ ~ nd'[t] /\ new'[t] = Null /\ dirty'[t] = dirty[t] /\ op'[t] = op[t]
      BY <1>0, <2>2, <3>1 DEF Types, LocalTypes
    <3>6. Quiet(t)
      <4>1. Reads(t)' \subseteq Reads(t) \cup {Null}
        BY <3>5 DEF Reads
      <4> QED
        BY <1>0, <2>1, <3>4, <3>5, <4>1, SharedFacts DEF Quiet, heap, collector
    <3>7. Control(t)'
      BY <2>2, <3>5, OptimisticListAssumption DEF Control, Inserts
    <3>8. HelpsOf(t)'
      BY <1>0, <2>1, <3>5 DEF HelpsOf, Helping, Stamped, collector
    <3>9. PlaceOf(t)'
      BY <1>0, <3>2, <3>5 DEF PlaceOf, Inserts, heap
    <3>10. SeenOf(t)'
      <4>1. pc'[t] = "absent" => FALSE \in saw[t]
        BY <1>0, <2>1, <3>2, <3>5 DEF Seen, SeenOf
      <4> QED
        BY <3>5, <4>1, WitnessGrows DEF SeenOf
    <3> QED
      BY <3>3, <3>6, <3>7, <3>8, <3>9, <3>10, QuietStep DEF Fine
  <2> QED
    BY <2>7, <2>8
<1> QED
  BY <1>1, <1>2, <1>3

-----------------------------------------------------------------------------
(* The steps that write into an entry of the thread's own.                 *)

\* The place u has found stays its place if another thread changes no key of
\* what u holds, nothing of what is marked there, and nothing of u's own entry.
LEMMA PlaceFrame ==
    ASSUME Types, NEW t \in Threads, Others(t), NEW u \in Threads \ {t}, PlaceOf(u),
           \A x \in Holds(u) \ {Root} : key'[x] = key[x],
           \A x \in Holds(u) : del[x] => del'[x] /\ to'[x] = to[x],
           Owns(u) => /\ to'[new[u]] = to[new[u]] /\ key'[new[u]] = key[new[u]]
                      /\ del'[new[u]] = del[new[u]]
    PROVE  PlaceOf(u)'
<1>1. /\ Sure(u)' = Sure(u) /\ Inserts(u)' = Inserts(u) /\ pc'[u] = pc[u] /\ arg'[u] = arg[u]
      /\ prev'[u] = prev[u] /\ cur'[u] = cur[u] /\ nxt'[u] = nxt[u] /\ nd'[u] = nd[u]
      /\ new'[u] = new[u]
  BY DEF Others, Sure, Inserts, Undirty
<1>2. Control(u) /\ prev[u] \in Cells /\ cur[u] \in Pointers
  BY DEF Types, LocalTypes
<1>3. Sure(u) => prev[u] \in Holds(u) /\ (cur[u] # Null => cur[u] \in Holds(u) \ {Root})
  BY <1>2, OptimisticListAssumption DEF Sure, Holds, Reads, Cells, Pointers
<1>4. Inserts(u) /\ pc[u] = "cas" => Owns(u)
  BY <1>2 DEF Inserts, Owns, Control
<1>5. Sure(u)' /\ prev'[u] # Root => key'[prev'[u]] < arg'[u]
  BY <1>1, <1>3 DEF PlaceOf
<1>6. Sure(u)' /\ (pc'[u] = "absent" \/ Inserts(u)') /\ cur'[u] # Null => arg'[u] < key'[cur'[u]]
  BY <1>1, <1>3 DEF PlaceOf
<1>7. Sure(u)' /\ nd'[u] => del'[cur'[u]] /\ to'[cur'[u]] = nxt'[u]
  BY <1>1, <1>2, <1>3 DEF PlaceOf, Control
<1>8. Inserts(u)' /\ pc'[u] = "cas" =>
        to'[new'[u]] = cur'[u] /\ ~ del'[new'[u]] /\ key'[new'[u]] = arg'[u]
  BY <1>1, <1>4 DEF PlaceOf
<1> QED
  BY <1>5, <1>6, <1>7, <1>8 DEF PlaceOf

\* And what u has seen stays seen.
LEMMA SeenFrame ==
    ASSUME Types, NEW t \in Threads, Others(t), Witness, NEW u \in Threads \ {t}, SeenOf(u),
           \A x \in Holds(u) \ {Root} : key'[x] = key[x]
    PROVE  SeenOf(u)'
<1>1. /\ pc'[u] = pc[u] /\ arg'[u] = arg[u] /\ cur'[u] = cur[u] /\ nxt'[u] = nxt[u]
      /\ (u \in Undirty' <=> u \in Undirty)
  BY DEF Others, Undirty
<1>2. pc'[u] \in {"found", "absent", "judge"} => saw[u] \subseteq saw'[u]
  BY WitnessGrows
<1>3. u \in Undirty /\ pc[u] = "judge" => key'[cur[u]] = key[cur[u]]
  <2>1. cur[u] \in Pointers /\ (pc[u] = "judge" => cur[u] # Null)
    BY DEF Types, LocalTypes, Control
  <2> QED
    BY <2>1, OptimisticListAssumption DEF Holds, Reads, Pointers
<1> QED
  BY <1>1, <1>2, <1>3 DEF SeenOf

\* The parts of the other threads, when t changes nothing that they hold.
LEMMA HoldsFrame ==
    ASSUME Types, NEW t \in Threads, Others(t), NEW u \in Threads \ {t}
    PROVE  /\ Reads(u)' = Reads(u) /\ Holds(u)' = Holds(u) /\ HPs(u)' = HPs(u)
           /\ Owns(u)' = Owns(u) /\ new'[u] = new[u]
           /\ (u \in Undirty' <=> u \in Undirty)
<1>1. /\ dirty'[u] = dirty[u] /\ pc'[u] = pc[u] /\ op'[u] = op[u] /\ prev'[u] = prev[u]
      /\ cur'[u] = cur[u] /\ nxt'[u] = nxt[u] /\ nd'[u] = nd[u] /\ new'[u] = new[u]
  BY DEF Others
<1>2. Reads(u)' = Reads(u) /\ (u \in Undirty' <=> u \in Undirty)
  BY <1>1 DEF Reads, Undirty
<1>3. Holds(u)' = Holds(u)
  BY <1>1, <1>2 DEF Holds
<1>4. HPs(u)' = HPs(u)
  BY <1>1 DEF HPs, Published
<1> QED
  BY <1>1, <1>2, <1>3, <1>4 DEF Owns

\* Nothing that a thread can come to is written: t writes only into entries W
\* that are nobody else's.
LEMMA OutsideStep ==
    ASSUME ListInv, NEW t \in Threads, NEW W \in SUBSET Nodes,
           to' \in [Cells -> Pointers], del' \in [Cells -> BOOLEAN], key' \in [Nodes -> Keys \cup {0}],
           \A x \in Cells \ W : to'[x] = to[x] /\ del'[x] = del[x],
           \A x \in Nodes \ W : key'[x] = key[x],
           W \cap (Shared \cup retired \cup toProcess) = {},
           \A u \in Threads : W \cap Holds(u) = {},
           \A u \in Threads \ {t} : Owns(u) => new[u] \notin W,
           free' \subseteq free, W \cap free' = {},
           UNCHANGED <<retired, collector, mode>>, Witness, Others(t), Locals',
           dirty'[t] = dirty[t], Reads(t)' = Reads(t), Holds(t)' \subseteq Holds(t),
           pc'[t] = "cas" => ~ dirty'[t], Owns(t)' => new'[t] \in W, Fine(t)'
    PROVE  ListInv'
<1> USE DEF ListInv
<1>0. /\ retired' = retired /\ toProcess' = toProcess /\ gc' = gc /\ left' = left
      /\ HPlocal' = HPlocal /\ hps' = hps /\ mode' = mode
      /\ DOMAIN to = Cells /\ DOMAIN to' = Cells /\ Root \notin W
  BY SharedFacts, OptimisticListAssumption DEF collector
<1>1. Types'
  <2>1. \A u \in Threads : Control(u)'
    BY ControlFrame DEF Fine
  <2>2. saw' \in [Threads -> SUBSET BOOLEAN]
    BY WitnessType DEF Types, LocalTypes
  <2> QED
    BY <1>0, <2>1, <2>2 DEF Types, HeapTypes, LocalTypes, Locals
<1>2. /\ \A u \in Threads : Reads(u)' = Reads(u) /\ Holds(u)' \subseteq Holds(u)
                            /\ Stamped(u)' = Stamped(u)
      /\ Undirty' = Undirty
  <2>1. \A u \in Threads \ {t} : Reads(u)' = Reads(u) /\ Holds(u)' = Holds(u) /\ dirty'[u] = dirty[u]
    BY HoldsFrame DEF Others
  <2> QED
    BY <1>0, <2>1 DEF Undirty, Stamped
<1>3. Line' = Line /\ Young' = Young /\ Shared' = Shared
  <2> DEFINE R0 == {Root}
             R1 == {Root} \cup UNION {Reads(u) : u \in {v \in Undirty : Stamped(v)}}
             R2 == {Root} \cup UNION {Reads(u) : u \in Undirty}
  <2>1. R1' = R1 /\ R2' = R2
    <3>1. {v \in Undirty : Stamped(v)}' = {v \in Undirty : Stamped(v)}
      BY <1>2 DEF Undirty
    <3>2. \A u \in Undirty : Reads(u)' = Reads(u)
      BY <1>2 DEF Undirty
    <3> QED
      BY <1>2, <3>1, <3>2
  <2>2. /\ Line = Reach(to, R0) /\ Young = Reach(to, R1) /\ Shared = Reach(to, R2)
        /\ Line' = Reach(to', R0) /\ Young' = Reach(to', R1') /\ Shared' = Reach(to', R2')
    BY DEF Line, Young, Shared, From
  <2> HIDE DEF R0, R1, R2
  <2>3. W \cap Reach(to, R0) = {} /\ W \cap Reach(to, R1) = {} /\ W \cap Reach(to, R2) = {}
    BY <2>2, SharedFacts
  <2>4. Reach(to', R0) = Reach(to, R0)
    BY <1>0, <2>3, ReachOutside
  <2>5. Reach(to', R1) = Reach(to, R1)
    BY <1>0, <2>3, ReachOutside
  <2>6. Reach(to', R2) = Reach(to, R2)
    <3>1. W \cap Reach(to, R2) = {} /\ DOMAIN to = DOMAIN to' /\ \A x \in DOMAIN to \ W : to'[x] = to[x]
      BY <1>0, <2>3
    <3> QED
      BY <3>1, ReachOutside
  <2> QED
    BY <2>1, <2>2, <2>4, <2>5, <2>6
<1>4. Safe'
  <2>1. \A x \in Shared \ Line : del'[x]
    BY SharedFacts DEF Safe
  <2>2. \A u \in Threads : \A x \in Holds(u)' \ Line : del'[x]
    BY <1>2, HoldsCells DEF Safe
  <2>3. ~ del'[Root]
    BY <1>0, SharedFacts DEF Safe
  <2> QED
    BY <1>2, <1>3, <2>1, <2>2, <2>3 DEF Safe
<1>5. Private'
  <2>1. ASSUME NEW u \in Threads, Owns(u)'
        PROVE  /\ new'[u] \notin free' \cup retired' \cup toProcess' \cup Shared'
               /\ \A v \in Threads : new'[u] \notin Holds(v)'
               /\ \A v \in Threads \ {u} : Owns(v)' => new'[v] # new'[u]
    <3>1. CASE u = t
      <4>1. new'[u] \in W
        BY <2>1, <3>1
      <4>2. \A v \in Threads \ {u} : Owns(v)' => new'[v] \notin W
        BY <3>1, HoldsFrame
      <4> QED
        BY <1>0, <1>2, <1>3, <4>1, <4>2
    <3>2. CASE u # t
      <4>1. Owns(u) /\ new'[u] = new[u] /\ new[u] \notin W
        BY <2>1, <3>2, HoldsFrame
      <4>2. \A v \in Threads \ {u} : Owns(v)' => new'[v] # new[u]
        BY <4>1, HoldsFrame DEF Private
      <4> QED
        BY <1>0, <1>2, <1>3, <4>1, <4>2 DEF Private
    <3> QED
      BY <3>1, <3>2
  <2> QED
    BY <2>1 DEF Private
<1>6. Unlinked'
  <2>1. \A x \in retired \cup toProcess : x \in Cells /\ del'[x] = del[x]
    BY DEF Types, HeapTypes, Cells
  <2> QED
    BY <1>0, <1>3, <2>1 DEF Unlinked
<1>7. Saved'
  <2>1. ASSUME NEW u \in Threads PROVE SavedOf(u)'
    BY <1>0, HoldsFrame DEF SavedOf, Saved, Others
  <2> QED
    BY <1>0, <2>1 DEF Saved
<1>8. Helping'
  <2>1. ASSUME NEW u \in Threads \ {t} PROVE HelpsOf(u)'
    BY <1>0, <2>1 DEF HelpsOf, Others, Helping, Stamped
  <2> QED
    BY <1>0, <1>2, <2>1 DEF Helping, Fine
<1>9. InOrder'
  <2>1. Sorted'
    <3>1. ASSUME NEW x \in Line \ {Root}, to'[x] # Null PROVE key'[x] < key'[to'[x]]
      <4>1. to'[x] = to[x] /\ x \in Nodes \ W /\ x \notin W
        BY SharedFacts DEF Cells
      <4>2. to[x] \in Nodes \ W
        BY <3>1, <4>1, SharedFacts DEF Types, HeapTypes, Pointers
      <4> QED
        BY <3>1, <4>1, <4>2 DEF InOrder, Sorted
    <3> QED
      BY <1>3, <3>1 DEF Sorted
  <2>2. ASSUME NEW u \in Threads \ {t} PROVE PlaceOf(u)'
    <3>1. /\ \A x \in Holds(u) \ {Root} : key'[x] = key[x]
          /\ \A x \in Holds(u) : to'[x] = to[x] /\ del'[x] = del[x]
      <4>1. \A x \in Holds(u) : x \in Cells \ W
        BY HoldsCells
      <4>2. \A x \in Holds(u) \ {Root} : x \in Nodes \ W
        BY <4>1 DEF Cells
      <4> QED
        BY <4>1, <4>2
    <3>2. Owns(u) => /\ to'[new[u]] = to[new[u]] /\ key'[new[u]] = key[new[u]]
                     /\ del'[new[u]] = del[new[u]]
      BY DEF Owns, Types, LocalTypes, Pointers, Cells
    <3> QED
      BY <3>1, <3>2, PlaceFrame DEF InOrder
  <2> QED
    BY <2>1, <2>2 DEF InOrder, Fine
<1>10. Seen'
  <2>1. ASSUME NEW u \in Threads \ {t} PROVE SeenOf(u)'
    <3>1. \A x \in Holds(u) \ {Root} : x \in Nodes \ W
      BY HoldsCells DEF Cells
    <3> QED
      BY <3>1, SeenFrame DEF Seen
  <2> QED
    BY <2>1 DEF Seen, Fine
<1> QED
  BY <1>1, <1>4, <1>5, <1>6, <1>7, <1>8, <1>9, <1>10

\* palloc takes an entry that nobody can come to.
LEMMA PallocStep ==
    ASSUME ListInv, NEW t \in Threads, Palloc(t), Witness, mode' = mode
    PROVE  ListInv'
<1> USE DEF ListInv
<1>1. PICK n \in free :
        /\ new' = [new EXCEPT ![t] = n]
        /\ free' = free \ {n}
        /\ IF mode = "manual"
           THEN /\ key' = [key EXCEPT ![n] = 0]
                /\ to' = [to EXCEPT ![n] = Null]
                /\ del' = [del EXCEPT ![n] = FALSE]
           ELSE UNCHANGED <<key, to, del>>
  BY DEF Palloc
<1>2. /\ pc[t] = "absent" /\ op[t] = "insert" /\ pc' = [pc EXCEPT ![t] = "fence"]
      /\ UNCHANGED <<retired, collector, dirty, op, arg, prev, cur, nxt, nd>>
  BY DEF Palloc, Goto, find
<1>3. n \in Nodes /\ n \in Pointers /\ n # Null
  BY OptimisticListAssumption DEF Types, HeapTypes, Pointers
<1> DEFINE W == {n}
<1>4. /\ to' \in [Cells -> Pointers] /\ del' \in [Cells -> BOOLEAN] /\ key' \in [Nodes -> Keys \cup {0}]
      /\ \A x \in Cells \ W : to'[x] = to[x] /\ del'[x] = del[x]
      /\ \A x \in Nodes \ W : key'[x] = key[x]
  BY <1>1, <1>3 DEF Types, HeapTypes, Pointers, Cells
<1>5. W \cap (Shared \cup retired \cup toProcess) = {}
  BY DEF Safe, Unlinked
<1>6. \A u \in Threads : W \cap Holds(u) = {}
  BY DEF Safe
<1>7. \A u \in Threads \ {t} : Owns(u) => new[u] \notin W
  BY DEF Private
<1>8. Locals'
  BY <1>1, <1>2, <1>3, LabelFacts DEF Types, LocalTypes, Locals
<1>9. Others(t)
  BY <1>1, <1>2 DEF Others, Types, LocalTypes
<1>10. /\ dirty'[t] = dirty[t] /\ pc'[t] = "fence" /\ op'[t] = "insert" /\ arg'[t] = arg[t]
       /\ prev'[t] = prev[t] /\ cur'[t] = cur[t] /\ nxt'[t] = nxt[t] /\ nd'[t] = nd[t]
       /\ ~ nd[t] /\ new'[t] = n
  BY <1>1, <1>2, <1>3 DEF Types, LocalTypes, Control
<1>11. Reads(t)' = Reads(t) /\ (t \in Undirty' <=> t \in Undirty)
  BY <1>10 DEF Reads, Undirty
<1>12. Holds(t)' \subseteq Holds(t)
  BY <1>10, <1>11 DEF Holds
<1>13. Control(t)'
  BY <1>3, <1>10 DEF Control, Inserts
<1>14. HelpsOf(t)'
  BY <1>2, <1>10 DEF HelpsOf, Helping, Stamped, collector
<1>15. PlaceOf(t)'
  <2>1. CASE t \in Undirty
    <3>1. /\ prev[t] # Root => prev[t] \in Nodes \ W
          /\ cur[t] # Null => cur[t] \in Nodes \ W
      BY <1>6, <2>1, OptimisticListAssumption DEF Holds, Reads, Types, LocalTypes, Cells, Pointers
    <3>2. /\ prev[t] # Root => key[prev[t]] < arg[t]
          /\ cur[t] # Null => arg[t] < key[cur[t]]
      BY <1>2, <2>1 DEF InOrder, PlaceOf, Sure
    <3> QED
      BY <1>4, <1>10, <3>1, <3>2 DEF PlaceOf
  <2>2. CASE t \notin Undirty
    BY <1>10, <1>11, <2>2 DEF PlaceOf, Sure
  <2> QED
    BY <2>1, <2>2
<1>16. SeenOf(t)'
  BY <1>10 DEF SeenOf
<1>17. free' \subseteq free /\ W \cap free' = {} /\ W \in SUBSET Nodes
  BY <1>1, <1>3
<1>18. Owns(t)' => new'[t] \in W
  BY <1>10
<1>19. pc'[t] = "cas" => ~ dirty'[t]
  BY <1>10
<1>20. UNCHANGED <<retired, collector, mode>> /\ Fine(t)'
  BY <1>2, <1>13, <1>14, <1>15, <1>16 DEF Fine
<1> HIDE DEF W, ListInv
<1> QED
  BY <1>4, <1>5, <1>6, <1>7, <1>8, <1>9, <1>10, <1>11, <1>12, <1>17, <1>18, <1>19, <1>20, OutsideStep

\* The exchange of a thread that is not dirty, and what an insert writes into
\* its entry behind it.
LEMMA FenceStep ==
    ASSUME ListInv, NEW t \in Threads, Fence(t), Witness, mode' = mode
    PROVE  ListInv'
<1> USE DEF ListInv
<1>0. /\ pc[t] = "fence" /\ dirty' = [dirty EXCEPT ![t] = FALSE]
      /\ UNCHANGED <<free, retired, collector>>
  BY DEF Fence
<1>1. CASE Dirty(t)
  BY <1>0, <1>1, GiveUpStep DEF Fence, heap
<1>2. CASE ~ Dirty(t)
  <2>1. t \in Undirty /\ ~ dirty[t]
    BY <1>2, NotDirty
  <2>2. FillIn(t) /\ pc' = [pc EXCEPT ![t] = "cas"] /\ UNCHANGED <<op, arg, prev, cur, nxt, nd, new>>
    BY <1>2 DEF Fence, Goto, find
  <2>3. /\ ~ dirty'[t] /\ dirty'[t] = dirty[t] /\ pc'[t] = "cas" /\ op'[t] = op[t] /\ arg'[t] = arg[t]
        /\ prev'[t] = prev[t] /\ cur'[t] = cur[t] /\ nxt'[t] = nxt[t] /\ nd'[t] = nd[t]
        /\ new'[t] = new[t]
    BY <1>0, <2>1, <2>2 DEF Types, LocalTypes
  <2> DEFINE W == {new[t]} \cap Nodes
  <2>4. Inserts(t) <=> (op[t] = "insert" /\ ~ nd[t])
    BY <1>0 DEF Inserts
  <2>5. /\ Inserts(t) => /\ new[t] \in Nodes /\ W = {new[t]} /\ Owns(t)
                         /\ key' = [key EXCEPT ![new[t]] = arg[t]]
                         /\ to' = [to EXCEPT ![new[t]] = cur[t]]
                         /\ del' = [del EXCEPT ![new[t]] = FALSE]
        /\ ~ Inserts(t) => W = {} /\ ~ Owns(t) /\ UNCHANGED <<to, del, key>>
    <3>1. (Inserts(t) <=> new[t] # Null) /\ new[t] \in Pointers
      BY DEF Types, LocalTypes, Control
    <3>2. Null \notin Nodes
      BY OptimisticListAssumption
    <3> QED
      BY <2>1, <2>2, <2>4, <3>1, <3>2 DEF FillIn, Pointers, Owns
  <2>6. cur[t] \in Pointers /\ arg[t] \in Keys \cup {0}
    BY DEF Types, LocalTypes
  <2>7. /\ to' \in [Cells -> Pointers] /\ del' \in [Cells -> BOOLEAN] /\ key' \in [Nodes -> Keys \cup {0}]
        /\ \A x \in Cells \ W : to'[x] = to[x] /\ del'[x] = del[x]
        /\ \A x \in Nodes \ W : key'[x] = key[x]
    <3>1. CASE Inserts(t)
      <4> HIDE DEF W
      <4>1. new[t] \in Nodes /\ new[t] \in Cells /\ W = {new[t]}
        BY <2>5, <3>1 DEF Cells
      <4>2. to' = [to EXCEPT ![new[t]] = cur[t]] /\ to \in [Cells -> Pointers]
        BY <2>5, <3>1 DEF Types, HeapTypes
      <4>3. del' = [del EXCEPT ![new[t]] = FALSE] /\ del \in [Cells -> BOOLEAN]
        BY <2>5, <3>1 DEF Types, HeapTypes
      <4>4. key' = [key EXCEPT ![new[t]] = arg[t]] /\ key \in [Nodes -> Keys \cup {0}]
        BY <2>5, <3>1 DEF Types, HeapTypes
      <4> QED
        BY <2>6, <4>1, <4>2, <4>3, <4>4
    <3>2. CASE ~ Inserts(t)
      BY <2>5, <3>2 DEF Types, HeapTypes
    <3> QED
      BY <3>1, <3>2
  <2>8. /\ W \cap (Shared \cup retired \cup toProcess) = {} /\ W \cap free = {}
        /\ \A u \in Threads : W \cap Holds(u) = {}
        /\ \A u \in Threads \ {t} : Owns(u) => new[u] \notin W
    <3> HIDE DEF W
    <3>1. W = {} \/ (Owns(t) /\ W = {new[t]})
      BY <2>5
    <3> QED
      BY <3>1 DEF Private
  <2>9. Locals'
    BY <1>0, <2>2, LabelFacts DEF Types, LocalTypes, Locals
  <2>10. Others(t)
    BY <1>0, <2>2 DEF Others, Types, LocalTypes
  <2>11. Reads(t)' = Reads(t) /\ t \in Undirty'
    BY <2>3 DEF Reads, Undirty
  <2>12. Holds(t)' \subseteq Holds(t)
    BY <2>1, <2>11 DEF Holds
  <2>13. Control(t)'
    BY <1>0, <2>3 DEF Control, Inserts, Types
  <2>14. HelpsOf(t)'
    BY <1>0, <2>1, <2>3 DEF HelpsOf, Helping, Stamped, collector
  <2>15. PlaceOf(t)'
    <3>1. prev[t] \in Cells /\ (prev[t] # Root => prev[t] \in Nodes \ W)
      BY <2>1, <2>8, OptimisticListAssumption DEF Holds, Reads, Types, LocalTypes, Cells
    <3>2. cur[t] # Null => cur[t] \in Nodes \ W /\ cur[t] \in Cells \ W
      BY <2>1, <2>6, <2>8 DEF Holds, Reads, Pointers, Cells
    <3>3. prev[t] # Root => key[prev[t]] < arg[t]
      BY <2>1 DEF InOrder, PlaceOf, Sure
    <3>4. Inserts(t) /\ cur[t] # Null => arg[t] < key[cur[t]]
      BY <2>1 DEF InOrder, PlaceOf, Sure
    <3>5. nd[t] => cur[t] # Null /\ del[cur[t]] /\ to[cur[t]] = nxt[t]
      BY <2>1 DEF InOrder, PlaceOf, Sure, Types, Control
    <3>6. Inserts(t)' = Inserts(t)
      BY <1>0, <2>3 DEF Inserts
    <3>7. Inserts(t) => to'[new[t]] = cur[t] /\ ~ del'[new[t]] /\ key'[new[t]] = arg[t]
      BY <2>5 DEF Types, HeapTypes, Cells
    <3> HIDE DEF W
    <3> QED
      BY <2>3, <2>7, <3>1, <3>2, <3>3, <3>4, <3>5, <3>6, <3>7 DEF PlaceOf
  <2>16. SeenOf(t)'
    BY <2>3 DEF SeenOf
  <2>17. free' \subseteq free /\ W \cap free' = {} /\ W \in SUBSET Nodes
    BY <1>0, <2>8
  <2>18. Owns(t)' => new'[t] \in W
    BY <2>1, <2>3, <2>5 DEF Owns
  <2>19. UNCHANGED <<retired, collector, mode>> /\ Fine(t)'
    BY <1>0, <2>13, <2>14, <2>15, <2>16 DEF Fine
  <2> HIDE DEF W, ListInv
  <2> QED
    BY <2>3, <2>7, <2>8, <2>9, <2>10, <2>11, <2>12, <2>17, <2>18, <2>19, OutsideStep
<1> QED
  BY <1>1, <1>2

-----------------------------------------------------------------------------
(* The steps that change the list.                                         *)

\* A CAS has succeeded: entries N come into the list, others leave it marked,
\* and nothing that is marked is written.
LEMMA CasStep ==
    ASSUME ListInv, NEW t \in Threads, NEW N \in SUBSET Nodes,
           to' \in [Cells -> Pointers], del' \in [Cells -> BOOLEAN],
           UNCHANGED <<key, free, collector, dirty, mode>>, Witness, Others(t), Locals',
           Root \in Line', Shared' \subseteq Shared \cup N, Young' \subseteq Young \cup N,
           N \subseteq Line', Line' \subseteq Line \cup N, N \cap (free \cup retired \cup toProcess) = {},
           \A x \in Cells : del[x] => del'[x] /\ to'[x] = to[x],
           ~ del'[Root], \A x \in Line \ Line' : del'[x],
           retired \subseteq retired',
           \A x \in retired' \ retired : x \in Line \ Line' /\ x \in Nodes /\ mode = "manual",
           \A u \in Threads \ {t} : Owns(u) => /\ new[u] \notin N /\ to'[new[u]] = to[new[u]]
                                               /\ del'[new[u]] = del[new[u]],
           Holds(t)' \subseteq Holds(t) \cup {Root},
           pc'[t] # "cas", new'[t] = Null, Sorted', Fine(t)'
    PROVE  ListInv'
<1> USE DEF ListInv
<1>0. /\ key' = key /\ free' = free /\ toProcess' = toProcess /\ gc' = gc /\ left' = left
      /\ HPlocal' = HPlocal /\ hps' = hps /\ mode' = mode /\ dirty' = dirty
  BY DEF collector
<1>1. Types'
  <2>1. \A u \in Threads : Control(u)'
    BY ControlFrame DEF Fine
  <2>2. saw' \in [Threads -> SUBSET BOOLEAN]
    BY WitnessType DEF Types, LocalTypes
  <2>3. retired' \subseteq Nodes
    BY DEF Types, HeapTypes
  <2> QED
    BY <1>0, <2>1, <2>2, <2>3 DEF Types, HeapTypes, LocalTypes, Locals
<1>2. \A u \in Threads : Holds(u)' \subseteq Holds(u) \cup {Root}
  BY HoldsFrame
<1>3. \A x \in retired' \ retired : x \in Line /\ x \in Shared /\ x \notin Line' /\ del'[x] /\ x \notin free
  BY SharedFacts DEF Safe
<1>4. Safe'
  <2>1. \A x \in Shared' \ Line' : del'[x]
    BY SharedFacts DEF Safe
  <2>2. \A u \in Threads : \A x \in Holds(u)' \ Line' : del'[x]
    BY <1>2, HoldsCells DEF Safe
  <2>3. Root \notin free
    BY OptimisticListAssumption DEF Types, HeapTypes
  <2>4. Shared' \cap free' = {}
    BY <1>0 DEF Safe
  <2>5. \A u \in Threads : Holds(u)' \cap free' = {}
    BY <1>0, <1>2, <2>3 DEF Safe
  <2> QED
    BY <2>1, <2>2, <2>4, <2>5 DEF Safe
<1>5. Private'
  <2>1. \A u \in Threads : Owns(u)' => u # t /\ Owns(u) /\ new'[u] = new[u]
    BY HoldsFrame DEF Owns
  <2>2. ASSUME NEW u \in Threads, Owns(u)'
        PROVE  /\ new'[u] \notin free' \cup retired' \cup toProcess' \cup Shared'
               /\ \A v \in Threads : new'[u] \notin Holds(v)'
               /\ \A v \in Threads \ {u} : Owns(v)' => new'[v] # new'[u]
    <3>1. u # t /\ Owns(u) /\ new'[u] = new[u] /\ new[u] \notin N
      BY <2>1, <2>2
    <3>2. new[u] # Root
      BY OptimisticListAssumption DEF Types, LocalTypes, Pointers
    <3>3. new[u] \notin free' \cup retired' \cup toProcess' \cup Shared'
      BY <1>0, <1>3, <3>1 DEF Private
    <3>4. \A v \in Threads : new[u] \notin Holds(v)'
      BY <1>2, <3>1, <3>2 DEF Private
    <3>5. \A v \in Threads \ {u} : Owns(v)' => new'[v] # new[u]
      BY <2>1, <3>1 DEF Private
    <3> QED
      BY <3>1, <3>3, <3>4, <3>5
  <2> QED
    BY <2>2 DEF Private
<1>6. Unlinked'
  <2>1. \A x \in retired \cup toProcess : x \in Cells /\ del'[x] /\ x \notin Line' /\ x \notin free
    BY DEF Types, HeapTypes, Cells, Unlinked
  <2>2. retired' \cap toProcess = {}
    BY <1>3 DEF Unlinked
  <2>3. gc # "idle" => Young' \cap toProcess = {}
    BY DEF Unlinked
  <2> QED
    BY <1>0, <1>3, <2>1, <2>2, <2>3 DEF Unlinked
<1>7. Saved'
  <2>1. ASSUME NEW u \in Threads \ {t} PROVE SavedOf(u)'
    BY <1>0, HoldsFrame DEF SavedOf, Saved, Others
  <2>2. SavedOf(t)'
    BY DEF SavedOf
  <2> QED
    BY <1>0, <2>1, <2>2 DEF Saved
<1>8. Helping'
  <2>1. ASSUME NEW u \in Threads \ {t} PROVE HelpsOf(u)'
    BY <1>0, <2>1 DEF HelpsOf, Others, Helping, Stamped
  <2> QED
    BY <1>0, <2>1 DEF Helping, Fine, Undirty
<1>9. InOrder'
  <2>2. ASSUME NEW u \in Threads \ {t} PROVE PlaceOf(u)'
    <3>1. \A x \in Holds(u) : del[x] => del'[x] /\ to'[x] = to[x]
      BY HoldsCells
    <3>2. key'[new[u]] = key[new[u]]
      BY <1>0
    <3>3. \A x \in Holds(u) \ {Root} : key'[x] = key[x]
      BY <1>0
    <3> QED
      BY <3>1, <3>2, <3>3, PlaceFrame DEF InOrder
  <2> QED
    BY <2>2 DEF InOrder, Fine
<1>10. Seen'
  <2>1. ASSUME NEW u \in Threads \ {t} PROVE SeenOf(u)'
    BY <1>0, SeenFrame DEF Seen
  <2> QED
    BY <2>1 DEF Seen, Fine
<1> QED
  BY <1>1, <1>4, <1>5, <1>6, <1>7, <1>8, <1>9, <1>10

\* The set of keys, from the cells of the list.
LEMMA PresentIs ==
    /\ Present = {key[n] : n \in {m \in Line \ {Root} : ~ del[m]}}
    /\ Present' = {key'[n] : n \in {m \in Line' \ {Root} : ~ del'[m]}}
  BY DEF Present, InList, Line

\* The CAS of Unlink succeeds only at a cell of the list, whose next entry is
\* the marked one, and takes that entry alone from the list.
LEMMA UnlinkEffect ==
    ASSUME Types, Safe, InOrder, NEW t \in Threads, Unlink(t), PrevIntact(t)
    PROVE  /\ prev[t] \in Line /\ cur[t] \in Line \ {Root} /\ cur[t] \in Nodes
           /\ to[prev[t]] = cur[t] /\ to[cur[t]] = nxt[t] /\ del[cur[t]] /\ ~ del[prev[t]]
           /\ to' = [to EXCEPT ![prev[t]] = to[cur[t]]]
           /\ Line' = Line \ {cur[t]}
<1>1. /\ pc[t] = "cas" /\ nd[t] /\ to[prev[t]] = cur[t] /\ ~ del[prev[t]]
      /\ to' = [to EXCEPT ![prev[t]] = nxt[t]]
  BY DEF Unlink, PrevIntact
<1>2. prev[t] \in Cells /\ cur[t] \in Nodes
  BY <1>1 DEF Types, LocalTypes, Control, Pointers
<1>3. prev[t] \in Line
  <2>1. prev[t] \in Holds(t)
    BY <1>1, <1>2, OptimisticListAssumption DEF Holds, Reads, Cells
  <2> QED
    BY <1>1, <2>1 DEF Safe
<1>4. cur[t] \in Line \ {Root}
  BY <1>1, <1>2, <1>3, SharedFacts, OptimisticListAssumption
<1>5. del[cur[t]] /\ to[cur[t]] = nxt[t]
  BY <1>1 DEF InOrder, PlaceOf, Sure
<1>6. /\ \A x \in Line : to[x] = cur[t] => x = prev[t]
      /\ to[cur[t]] # cur[t]
  BY <1>1, <1>2, <1>3, OnlyOne, OptimisticListAssumption DEF InOrder
<1> DEFINE R0 == {Root}
<1>7. Line = Reach(to, R0) /\ Line' = Reach(to', R0) /\ cur[t] \notin R0
  BY <1>4 DEF Line, From
<1> HIDE DEF R0
<1>8. DOMAIN to = Cells /\ cur[t] \in Cells
  BY <1>2, SharedFacts DEF Cells
<1>9. to' = [to EXCEPT ![prev[t]] = to[cur[t]]]
  BY <1>1, <1>5
<1>10. Line' = Line \ {cur[t]}
  <2>1. /\ prev[t] \in DOMAIN to /\ cur[t] \in DOMAIN to /\ prev[t] \in Reach(to, R0)
        /\ \A x \in Reach(to, R0) : to[x] = cur[t] => x = prev[t]
    BY <1>2, <1>3, <1>6, <1>7, <1>8
  <2>2. Reach([to EXCEPT ![prev[t]] = to[cur[t]]], R0) = Reach(to, R0) \ {cur[t]}
    BY <1>1, <1>6, <1>7, <2>1, ReachSkip
  <2> QED
    BY <1>7, <1>9, <2>2
<1> QED
  BY <1>1, <1>2, <1>3, <1>4, <1>5, <1>9, <1>10

\* Unlink: who stands on the entry that leaves the list stands on a marked one.
LEMMA UnlinkStep ==
    ASSUME ListInv, NEW t \in Threads, Unlink(t), Witness, mode' = mode
    PROVE  ListInv'
<1> USE DEF ListInv
<1>0. /\ pc[t] = "cas" /\ nd[t] /\ UNCHANGED <<del, key, free, collector, dirty, op, arg>>
  BY DEF Unlink
<1>1. CASE ~ PrevIntact(t)
  BY <1>0, <1>1, AgainStep DEF Unlink
<1>2. CASE PrevIntact(t)
  <2>1. /\ prev[t] \in Line /\ cur[t] \in Line \ {Root} /\ cur[t] \in Nodes
        /\ to[prev[t]] = cur[t] /\ to[cur[t]] = nxt[t] /\ del[cur[t]] /\ ~ del[prev[t]]
        /\ to' = [to EXCEPT ![prev[t]] = to[cur[t]]]
        /\ Line' = Line \ {cur[t]}
    BY <1>2, UnlinkEffect
  <2>2. /\ retired' = (IF mode = "manual" THEN retired \cup {cur[t]} ELSE retired)
        /\ cur' = [cur EXCEPT ![t] = nxt[t]]
        /\ pc' = [pc EXCEPT ![t] = IF nxt[t] = Null THEN "absent" ELSE "next"]
        /\ nxt' = [nxt EXCEPT ![t] = Null] /\ nd' = [nd EXCEPT ![t] = FALSE]
        /\ prev' = prev /\ new' = new
    BY <1>2 DEF Unlink, Arrive, Goto
  <2>3. Line \subseteq Cells /\ Line \subseteq Shared /\ prev[t] \in Cells /\ cur[t] \in Cells
    BY <2>1, SharedFacts
  <2>4. to[cur[t]] \in Pointers
    BY <2>3 DEF Types, HeapTypes
  <2>5. to' \in [Cells -> Pointers] /\ del' \in [Cells -> BOOLEAN]
    BY <1>0, <2>1, <2>3, <2>4 DEF Types, HeapTypes
  <2>6. nxt[t] \in Pointers /\ new[t] = Null
    BY <1>0 DEF Types, LocalTypes, Control, Inserts
  <2>7. Locals'
    BY <1>0, <2>2, <2>6, LabelFacts, OptimisticListAssumption DEF Types, LocalTypes, Locals, Pointers
  <2>8. Others(t)
    BY <1>0, <2>2 DEF Others, Types, LocalTypes
  <2>9. /\ dirty'[t] = dirty[t] /\ pc'[t] = (IF nxt[t] = Null THEN "absent" ELSE "next")
        /\ arg'[t] = arg[t] /\ prev'[t] = prev[t] /\ cur'[t] = nxt[t] /\ nxt'[t] = Null
        /\ ~ nd'[t] /\ new'[t] = Null
    BY <1>0, <2>2, <2>6 DEF Types, LocalTypes
  <2>10. Reads(t)' \subseteq Reads(t) \cup {Null} /\ (t \in Undirty' <=> t \in Undirty)
    BY <2>9 DEF Reads, Undirty
  <2>11. \A u \in Undirty' : Reads(u)' \subseteq Reads(u) \cup {Null} /\ u \in Undirty
    BY <2>8, <2>10, HoldsFrame DEF Undirty
  <2>12. \A u \in Threads : Stamped(u)' = Stamped(u)
    BY <1>0 DEF Stamped, collector
  <2>13. Shared' \subseteq Shared
    <3>1. \A x \in Shared \cap Cells : to'[x] \in Shared \cup {Null}
      BY <2>1, <2>3, SharedFacts
    <3> QED
      BY <2>5, <2>11, <3>1, SharedFacts, SharedLeast
  <2>14. Young' \subseteq Young
    <3>1. \A x \in Young \cap Cells : to'[x] \in Young \cup {Null}
      BY <2>1, <2>3, SharedFacts
    <3>2. \A u \in Undirty' : Stamped(u)' => Reads(u)' \subseteq Young \cup {Null}
      BY <2>11, <2>12, SharedFacts DEF Undirty
    <3> QED
      BY <2>5, <3>1, <3>2, SharedFacts, YoungLeast
  <2>15. \A x \in Cells : del[x] => del'[x] /\ to'[x] = to[x]
    BY <1>0, <2>1
  <2>16. ~ del'[Root] /\ (\A x \in Line \ Line' : del'[x]) /\ Root \in Line'
    BY <1>0, <2>1, SharedFacts DEF Safe
  <2>17. /\ retired \subseteq retired'
         /\ \A x \in retired' \ retired : x \in Line \ Line' /\ x \in Nodes /\ mode = "manual"
    BY <2>1, <2>2
  <2>18. \A u \in Threads \ {t} : Owns(u) => to'[new[u]] = to[new[u]] /\ del'[new[u]] = del[new[u]]
    BY <1>0, <2>1, <2>3 DEF Private
  <2>19. Holds(t)' \subseteq Holds(t) \cup {Root}
    BY <2>9, <2>10 DEF Holds
  <2>20. Sorted'
    <3>1. ASSUME NEW x \in Line \ {Root, cur[t]}, to'[x] # Null PROVE key[x] < key[to'[x]]
      <4>1. CASE x = prev[t]
        <5>1. to'[x] = to[cur[t]] /\ to[x] = cur[t]
          BY <2>1, <2>3, <4>1 DEF Types, HeapTypes
        <5>2. x \in Nodes /\ to[cur[t]] \in Nodes /\ cur[t] # Null
          BY <2>1, <2>3, <2>4, <3>1, <5>1, OptimisticListAssumption DEF Cells, Pointers
        <5>3. key[x] < key[cur[t]] /\ key[cur[t]] < key[to[cur[t]]]
          BY <2>1, <3>1, <5>1, <5>2 DEF InOrder, Sorted
        <5> QED
          BY <2>1, <5>1, <5>2, <5>3, KeyInts
      <4>2. CASE x # prev[t]
        BY <2>1, <2>3, <3>1, <4>2 DEF InOrder, Sorted
      <4> QED
        BY <4>1, <4>2
    <3> QED
      BY <1>0, <2>1, <3>1 DEF Sorted
  <2>21. Control(t)'
    BY <2>9, OptimisticListAssumption DEF Control, Inserts
  <2>22. HelpsOf(t)'
    BY <1>0, <2>9 DEF HelpsOf, Helping, Stamped, collector
  <2>23. PlaceOf(t)'
    <3>1. prev[t] # Root => key[prev[t]] < arg[t]
      BY <1>0 DEF InOrder, PlaceOf, Sure
    <3> QED
      BY <1>0, <2>9, <3>1 DEF PlaceOf, Inserts
  <2>24. SeenOf(t)'
    <3>1. SUFFICES ASSUME nxt[t] = Null PROVE arg[t] \notin Present'
      BY <2>9, WitnessGrows DEF SeenOf
    <3>2. SUFFICES ASSUME NEW n \in Line \ {Root}, ~ del[n], key[n] = arg[t] PROVE FALSE
      BY <1>0, <2>1, PresentIs
    <3>3. n \in Nodes /\ n # cur[t] /\ (prev[t] # Root => prev[t] \in Nodes)
      BY <2>1, <2>3, <3>2 DEF Cells
    <3>4. \/ n = cur[t] \/ key[n] < key[cur[t]]
      BY <2>1, <3>1, Position DEF InOrder
    <3>5. \/ prev[t] # Root /\ (n = prev[t] \/ key[n] < key[prev[t]])
          \/ n = cur[t] \/ key[cur[t]] < key[n]
      BY <2>1, Position DEF InOrder
    <3>6. prev[t] # Root => key[prev[t]] < arg[t]
      BY <1>0 DEF InOrder, PlaceOf, Sure
    <3> QED
      BY <2>1, <3>2, <3>3, <3>4, <3>5, <3>6, KeyInts
  <2>25. UNCHANGED <<key, free, collector, dirty, mode>> /\ Fine(t)' /\ pc'[t] # "cas"
    BY <1>0, <2>9, <2>21, <2>22, <2>23, <2>24 DEF Fine
  <2> DEFINE N == {}
  <2>26. /\ N \in SUBSET Nodes /\ Shared' \subseteq Shared \cup N /\ Young' \subseteq Young \cup N
         /\ N \subseteq Line' /\ Line' \subseteq Line \cup N
         /\ N \cap (free \cup retired \cup toProcess) = {}
         /\ \A u \in Threads \ {t} : new[u] \notin N
    BY <2>1, <2>13, <2>14
  <2>27. \A u \in Threads \ {t} : Owns(u) => /\ new[u] \notin N /\ to'[new[u]] = to[new[u]]
                                            /\ del'[new[u]] = del[new[u]]
    BY <2>18, <2>26
  <2> HIDE DEF N, ListInv
  <2> QED
    BY <2>5, <2>7, <2>8, <2>9, <2>15, <2>16, <2>17, <2>19, <2>20, <2>25, <2>26, <2>27, CasStep
<1> QED
  BY <1>1, <1>2

\* The CAS of Link succeeds only at the place of the list where the key
\* belongs, and brings the new entry alone into the list.
LEMMA LinkEffect ==
    ASSUME Types, Safe, Private, InOrder, NEW t \in Threads, Link(t), PrevIntact(t)
    PROVE  /\ prev[t] \in Line /\ to[prev[t]] = cur[t] /\ ~ del[prev[t]]
           /\ Owns(t) /\ new[t] \in Nodes /\ new[t] \notin Shared
           /\ to[new[t]] = cur[t] /\ ~ del[new[t]] /\ key[new[t]] = arg[t]
           /\ prev[t] # Root => key[prev[t]] < arg[t]
           /\ cur[t] # Null => arg[t] < key[cur[t]]
           /\ to' = [to EXCEPT ![prev[t]] = new[t]]
           /\ Line' = Line \cup {new[t]}
<1>1. /\ pc[t] = "cas" /\ ~ nd[t] /\ op[t] = "insert" /\ to[prev[t]] = cur[t] /\ ~ del[prev[t]]
      /\ to' = [to EXCEPT ![prev[t]] = new[t]]
  BY DEF Link, PrevIntact
<1>2. Inserts(t) /\ Sure(t) /\ prev[t] \in Cells
  BY <1>1 DEF Inserts, Sure, Types, LocalTypes
<1>3. new[t] \in Nodes /\ Owns(t)
  BY <1>1, <1>2 DEF Types, LocalTypes, Control, Pointers, Owns
<1>4. new[t] \notin Shared
  BY <1>3 DEF Private
<1>5. prev[t] \in Line
  <2>1. prev[t] \in Holds(t)
    BY <1>1, <1>2, OptimisticListAssumption DEF Holds, Reads, Cells
  <2> QED
    BY <1>1, <2>1 DEF Safe
<1>6. /\ to[new[t]] = cur[t] /\ ~ del[new[t]] /\ key[new[t]] = arg[t]
      /\ prev[t] # Root => key[prev[t]] < arg[t]
      /\ cur[t] # Null => arg[t] < key[cur[t]]
  BY <1>1, <1>2 DEF InOrder, PlaceOf
<1> DEFINE R0 == {Root}
<1>7. Line = Reach(to, R0) /\ Line' = Reach(to', R0)
  BY DEF Line, From
<1> HIDE DEF R0
<1>8. /\ prev[t] \in DOMAIN to /\ new[t] \in DOMAIN to /\ new[t] \notin Reach(to, R0)
      /\ prev[t] \in Reach(to, R0) /\ to[new[t]] = to[prev[t]]
  BY <1>1, <1>2, <1>3, <1>4, <1>5, <1>6, <1>7, SharedFacts DEF Cells
<1>9. Reach([to EXCEPT ![prev[t]] = new[t]], R0) = Reach(to, R0) \cup {new[t]}
  BY <1>8, ReachSplice
<1> QED
  BY <1>1, <1>3, <1>4, <1>5, <1>6, <1>7, <1>9

\* Link: nobody else can have come to the new entry.
LEMMA LinkStep ==
    ASSUME ListInv, NEW t \in Threads, Link(t), Witness, mode' = mode
    PROVE  ListInv'
<1> USE DEF ListInv
<1>0. /\ pc[t] = "cas" /\ ~ nd[t] /\ op[t] = "insert"
      /\ UNCHANGED <<del, key, retired, collector, dirty>>
  BY DEF Link
<1>1. CASE ~ PrevIntact(t)
  <2>1. Again(t, "start") /\ to' = to
    BY <1>1 DEF Link
  <2>2. free' \subseteq free \cup {x \in Nodes : Owns(t) /\ x = new[t]}
    <3>1. free' \subseteq free \cup {new[t]}
      BY <1>1 DEF Link
    <3>2. Owns(t) /\ new[t] \in Nodes
      BY <1>0 DEF Types, LocalTypes, Control, Pointers, Owns, Inserts
    <3> QED
      BY <3>1, <3>2
  <2> QED
    BY <1>0, <2>1, <2>2, AgainStep
<1>2. CASE PrevIntact(t)
  <2>1. /\ prev[t] \in Line /\ to[prev[t]] = cur[t] /\ ~ del[prev[t]]
        /\ Owns(t) /\ new[t] \in Nodes /\ new[t] \notin Shared
        /\ to[new[t]] = cur[t] /\ ~ del[new[t]] /\ key[new[t]] = arg[t]
        /\ prev[t] # Root => key[prev[t]] < arg[t]
        /\ cur[t] # Null => arg[t] < key[cur[t]]
        /\ to' = [to EXCEPT ![prev[t]] = new[t]]
        /\ Line' = Line \cup {new[t]}
    BY <1>2, LinkEffect
  <2>2. Return(t) /\ free' = free
    BY <1>2 DEF Link
  <2>3. Locals' /\ Others(t) /\ Dropped(t) /\ pc'[t] = "idle"
    BY <1>0, <2>2, ReturnEffect
  <2>4. /\ Line \subseteq Cells /\ Line \subseteq Young /\ Young \subseteq Shared /\ prev[t] \in Cells
        /\ new[t] \in Cells /\ new[t] # prev[t]
    BY <2>1, SharedFacts DEF Cells
  <2>5. to' \in [Cells -> Pointers] /\ del' \in [Cells -> BOOLEAN]
    BY <1>0, <2>1, <2>4 DEF Types, HeapTypes, Pointers
  <2> DEFINE N == {new[t]}
  <2>6. /\ to'[prev[t]] = new[t] /\ to'[new[t]] = cur[t]
        /\ \A x \in Cells \ {prev[t]} : to'[x] = to[x]
    BY <2>1, <2>4 DEF Types, HeapTypes
  <2>7. cur[t] \in Line \cup {Null}
    BY <2>1, SharedFacts
  <2>8. \A u \in Undirty' : Reads(u)' \subseteq Reads(u) \cup {Root, Null} /\ u \in Undirty
    <3>1. Reads(t)' = {Root, Null} /\ (t \in Undirty' => t \in Undirty)
      BY <1>0, <2>3 DEF Dropped, Reads, Undirty
    <3> QED
      BY <2>3, <3>1, HoldsFrame DEF Undirty
  <2>9. Shared' \subseteq Shared \cup N
    <3> DEFINE C == Shared \cup N
    <3>1. \A x \in C \cap Cells : to'[x] \in C \cup {Null}
      BY <2>4, <2>6, <2>7, SharedFacts
    <3>2. \A u \in Undirty' : Reads(u)' \subseteq C \cup {Null}
      BY <2>8, SharedFacts
    <3>3. Root \in C
      BY SharedFacts
    <3> HIDE DEF C
    <3>4. Shared' \subseteq C
      BY <2>5, <3>1, <3>2, <3>3, SharedLeast
    <3> QED
      BY <3>4 DEF C
  <2>10. Young' \subseteq Young \cup N
    <3> DEFINE C == Young \cup N
    <3>1. \A x \in C \cap Cells : to'[x] \in C \cup {Null}
      BY <2>4, <2>6, <2>7, SharedFacts
    <3>2. \A u \in Undirty' : Stamped(u)' => Reads(u)' \subseteq C \cup {Null}
      <4>1. \A u \in Threads : Stamped(u)' = Stamped(u)
        BY <1>0 DEF Stamped, collector
      <4> QED
        BY <2>8, <4>1, SharedFacts DEF Undirty
    <3>3. Root \in C
      BY SharedFacts
    <3> HIDE DEF C
    <3>4. Young' \subseteq C
      BY <2>5, <3>1, <3>2, <3>3, YoungLeast
    <3> QED
      BY <3>4 DEF C
  <2>11. N \in SUBSET Nodes /\ N \subseteq Line' /\ Line' \subseteq Line \cup N
         /\ N \cap (free \cup retired \cup toProcess) = {} /\ Root \in Line'
    BY <2>1, SharedFacts DEF Private
  <2>12. \A x \in Cells : del[x] => del'[x] /\ to'[x] = to[x]
    BY <1>0, <2>1, <2>6
  <2>13. ~ del'[Root] /\ (\A x \in Line \ Line' : del'[x]) /\ retired' = retired
    BY <1>0, <2>1 DEF Safe
  <2>14. \A u \in Threads \ {t} : Owns(u) => /\ new[u] \notin N /\ to'[new[u]] = to[new[u]]
                                            /\ del'[new[u]] = del[new[u]]
    <3> TAKE u \in Threads \ {t}
    <3>1. SUFFICES ASSUME Owns(u) PROVE new[u] \notin N /\ to'[new[u]] = to[new[u]]
      BY <1>0
    <3>2. new[u] \notin N /\ new[u] # prev[t] /\ new[u] \in Cells
      BY <2>1, <2>4, <3>1 DEF Private, Owns, Types, LocalTypes, Pointers, Cells
    <3> QED
      BY <2>6, <3>2
  <2>15. Holds(t)' \subseteq Holds(t) \cup {Root}
    BY <2>3 DEF Holds, Reads, Dropped
  <2>16. Sorted'
    <3>1. ASSUME NEW x \in Line' \ {Root}, to'[x] # Null PROVE key[x] < key[to'[x]]
      <4>1. CASE x = new[t]
        BY <2>1, <2>6, <3>1, <4>1
      <4>2. CASE x = prev[t]
        BY <2>1, <2>6, <3>1, <4>2
      <4>3. CASE x \notin {new[t], prev[t]}
        <5>1. x \in Line /\ to'[x] = to[x]
          BY <2>1, <2>4, <2>6, <4>3
        <5> QED
          BY <3>1, <5>1 DEF InOrder, Sorted
      <4> QED
        BY <4>1, <4>2, <4>3
    <3> QED
      BY <1>0, <3>1 DEF Sorted
  <2>17. HelpsOf(t)'
    BY <1>0, <2>3 DEF HelpsOf, Helping, Stamped, collector
  <2>18. Fine(t)'
    BY <2>3, <2>17 DEF Fine, Dropped, Control, Inserts, PlaceOf, SeenOf
  <2>19. new'[t] = Null /\ pc'[t] # "cas"
    BY <2>3 DEF Dropped
  <2> HIDE DEF N, ListInv
  <2> QED
    BY <1>0, <2>2, <2>3, <2>5, <2>9, <2>10, <2>11, <2>12, <2>13, <2>14, <2>15, <2>16, <2>18, <2>19, CasStep
<1> QED
  BY <1>1, <1>2

\* The CAS of Mark succeeds only at an entry of the list.
LEMMA MarkEffect ==
    ASSUME Types, Safe, NEW t \in Threads, Mark(t), to[cur[t]] = nxt[t], ~ del[cur[t]]
    PROVE  cur[t] \in Line \ {Root} /\ cur[t] \in Nodes /\ Line' = Line
<1>1. pc[t] = "cas" /\ ~ nd[t] /\ op[t] = "delete" /\ to' = to
  BY DEF Mark
<1>2. cur[t] \in Nodes
  BY <1>1 DEF Types, LocalTypes, Control, Pointers
<1>3. cur[t] \in Holds(t)
  BY <1>1, <1>2, OptimisticListAssumption DEF Holds, Reads
<1> QED
  BY <1>1, <1>2, <1>3, OptimisticListAssumption DEF Safe, Line, From

\* Mark: the list stays what it is.
LEMMA MarkStep ==
    ASSUME ListInv, NEW t \in Threads, Mark(t), Witness, mode' = mode
    PROVE  ListInv'
<1> USE DEF ListInv
<1>0. /\ pc[t] = "cas" /\ ~ nd[t] /\ op[t] = "delete"
      /\ UNCHANGED <<to, key, free, retired, collector, dirty>>
  BY DEF Mark
<1>1. CASE ~ (to[cur[t]] = nxt[t] /\ ~ del[cur[t]])
  BY <1>0, <1>1, AgainStep DEF Mark
<1>2. CASE to[cur[t]] = nxt[t] /\ ~ del[cur[t]]
  <2>1. cur[t] \in Line \ {Root} /\ cur[t] \in Nodes /\ Line' = Line
    BY <1>2, MarkEffect
  <2>2. Return(t) /\ del' = [del EXCEPT ![cur[t]] = TRUE]
    BY <1>2 DEF Mark
  <2>3. Locals' /\ Others(t) /\ Dropped(t) /\ pc'[t] = "idle"
    BY <1>0, <2>2, ReturnEffect
  <2>4. to' \in [Cells -> Pointers] /\ del' \in [Cells -> BOOLEAN]
    BY <1>0, <2>2 DEF Types, HeapTypes
  <2>5. \A u \in Undirty' : Reads(u)' \subseteq Reads(u) \cup {Root, Null} /\ u \in Undirty
    <3>1. Reads(t)' = {Root, Null} /\ (t \in Undirty' => t \in Undirty)
      BY <1>0, <2>3 DEF Dropped, Reads, Undirty
    <3> QED
      BY <2>3, <3>1, HoldsFrame DEF Undirty
  <2>6. Shared' \subseteq Shared
    BY <1>0, <2>4, <2>5, SharedFacts, SharedLeast
  <2>7. Young' \subseteq Young
    <3>1. \A u \in Threads : Stamped(u)' = Stamped(u)
      BY <1>0 DEF Stamped, collector
    <3>2. \A u \in Undirty' : Stamped(u)' => Reads(u)' \subseteq Young \cup {Null}
      BY <2>5, <3>1, SharedFacts DEF Undirty
    <3> QED
      BY <1>0, <2>4, <3>2, SharedFacts, YoungLeast
  <2>8. \A x \in Cells : (del[x] => del'[x] /\ to'[x] = to[x]) /\ (x # cur[t] => del'[x] = del[x])
    BY <1>0, <2>2 DEF Types, HeapTypes
  <2>9. ~ del'[Root] /\ Root \in Line'
    BY <2>1, <2>8, SharedFacts DEF Safe
  <2>10. \A u \in Threads \ {t} : Owns(u) => /\ to'[new[u]] = to[new[u]]
                                            /\ del'[new[u]] = del[new[u]]
    <3> TAKE u \in Threads \ {t}
    <3>1. SUFFICES ASSUME Owns(u) PROVE del'[new[u]] = del[new[u]]
      BY <1>0
    <3>2. new[u] \in Cells /\ new[u] # cur[t]
      BY <2>1, <3>1, SharedFacts DEF Private, Owns, Types, LocalTypes, Pointers, Cells
    <3> QED
      BY <2>8, <3>2
  <2>11. Holds(t)' \subseteq Holds(t) \cup {Root}
    BY <2>3 DEF Holds, Reads, Dropped
  <2>12. Sorted'
    BY <1>0, <2>1 DEF InOrder, Sorted
  <2>13. HelpsOf(t)'
    BY <1>0, <2>3 DEF HelpsOf, Helping, Stamped, collector
  <2>14. Fine(t)'
    BY <2>3, <2>13 DEF Fine, Dropped, Control, Inserts, PlaceOf, SeenOf
  <2>15. new'[t] = Null /\ pc'[t] # "cas"
    BY <2>3 DEF Dropped
  <2> DEFINE N == {}
  <2>16. /\ N \in SUBSET Nodes /\ Shared' \subseteq Shared \cup N /\ Young' \subseteq Young \cup N
         /\ N \subseteq Line' /\ Line' \subseteq Line \cup N
         /\ N \cap (free \cup retired \cup toProcess) = {}
         /\ \A u \in Threads \ {t} : Owns(u) => /\ new[u] \notin N /\ to'[new[u]] = to[new[u]]
                                                /\ del'[new[u]] = del[new[u]]
    BY <2>1, <2>6, <2>7, <2>10
  <2>17. \A x \in Line \ Line' : del'[x]
    BY <2>1
  <2> HIDE DEF N, ListInv
  <2> QED
    BY <1>0, <2>3, <2>4, <2>8, <2>9, <2>11, <2>12, <2>14, <2>15, <2>16, <2>17, CasStep
<1> QED
  BY <1>1, <1>2

-----------------------------------------------------------------------------
(* The steps of the collector.                                             *)

\* What a step of the collector leaves as it is: it writes nothing that
\* threads read but their dirty bytes, and those who helped start again.
LEMMA CollectorFrame ==
    ASSUME ListInv, UNCHANGED <<to, del, key, op, arg, find, new, mode>>, Witness,
           dirty' \in [Threads -> BOOLEAN], pc' \in [Threads -> Labels],
           \A u \in Threads : dirty[u] => dirty'[u],
           \A u \in Threads : pc'[u] = pc[u] \/ (pc[u] = "help" /\ pc'[u] = "restart")
    PROVE  /\ LocalTypes' /\ (\A u \in Threads : Control(u)')
           /\ Shared' \subseteq Shared /\ Line' = Line /\ Undirty' \subseteq Undirty
           /\ \A u \in Threads : /\ Holds(u)' \subseteq Holds(u) /\ HPs(u)' = HPs(u)
                                 /\ Reads(u)' = Reads(u) /\ (Owns(u)' => Owns(u))
           /\ InOrder' /\ Seen'
           /\ ~ del'[Root] /\ (\A x \in Shared' \ Line' : del'[x])
           /\ \A u \in Threads : \A x \in Holds(u)' \ Line' : del'[x]
<1> USE DEF ListInv
<1>0. /\ to' = to /\ del' = del /\ key' = key /\ op' = op /\ arg' = arg /\ new' = new
      /\ prev' = prev /\ cur' = cur /\ nxt' = nxt /\ nd' = nd /\ mode' = mode
  BY DEF find
<1>1. LocalTypes'
  BY <1>0, WitnessType DEF Types, LocalTypes
<1>2. ASSUME NEW u \in Threads PROVE Control(u)'
  BY <1>0, <1>2 DEF Control, Types, Inserts
<1>3. Undirty' \subseteq Undirty /\ \A u \in Threads : Reads(u)' = Reads(u)
  BY <1>0 DEF Undirty, Reads
<1>4. Line' = Line
  BY <1>0 DEF Line, From
<1>5. Shared' \subseteq Shared
  <2>1. \A u \in Undirty' : Reads(u)' \subseteq Shared \cup {Null}
    BY <1>3, SharedFacts DEF Undirty
  <2> QED
    BY <1>0, <2>1, SharedFacts, SharedLeast DEF Types, HeapTypes
<1>6. ASSUME NEW u \in Threads
      PROVE  Holds(u)' \subseteq Holds(u) /\ HPs(u)' = HPs(u) /\ (Owns(u)' => Owns(u))
  <2>1. pc'[u] = "cas" <=> pc[u] = "cas"
    OBVIOUS
  <2>2. pc'[u] = "fence" <=> pc[u] = "fence"
    OBVIOUS
  <2>3. HPs(u)' = HPs(u)
    BY <1>0, <2>1, <2>2 DEF HPs, Published
  <2>4. u \in Undirty' => u \in Undirty
    BY <1>3
  <2>5. Holds(u)' \subseteq Holds(u)
    BY <1>0, <1>3, <2>1, <2>4 DEF Holds, Reads
  <2> QED
    BY <1>0, <2>1, <2>3, <2>4, <2>5 DEF Owns
<1>7. InOrder'
  <2>1. ASSUME NEW u \in Threads PROVE PlaceOf(u)'
    <3>1. Sure(u)' => Sure(u)
      BY <1>0, <1>3 DEF Sure
    <3>2. Inserts(u)' = Inserts(u)
      BY <1>0 DEF Inserts
    <3> QED
      BY <1>0, <3>1, <3>2 DEF PlaceOf, InOrder
  <2> QED
    BY <1>0, <1>4, <2>1 DEF InOrder, Sorted
<1>8. Seen'
  <2>1. ASSUME NEW u \in Threads PROVE SeenOf(u)'
    <3>1. pc'[u] \in {"found", "absent", "judge"} => saw[u] \subseteq saw'[u] /\ pc'[u] = pc[u]
      BY WitnessGrows
    <3>2. u \in Undirty' => u \in Undirty
      BY <1>3
    <3> QED
      BY <1>0, <3>1, <3>2 DEF SeenOf, Seen
  <2> QED
    BY <2>1 DEF Seen
<1>9. /\ ~ del'[Root] /\ (\A x \in Shared' \ Line' : del'[x])
      /\ \A u \in Threads : \A x \in Holds(u)' \ Line' : del'[x]
  BY <1>0, <1>4, <1>5, <1>6 DEF Safe
<1> QED
  BY <1>1, <1>2, <1>3, <1>4, <1>5, <1>6, <1>7, <1>8, <1>9

\* The threads are finitely many; who has been visited can be counted.
LEMMA VisitedCount ==
    /\ Cardinality(Threads) \in Nat
    /\ \A S \in SUBSET Threads : Cardinality(Threads \ S) \in Nat /\ Cardinality(Threads \ S) <= Cardinality(Threads)
    /\ \A S \in SUBSET Threads : \A t \in S :
        /\ Cardinality(Threads \ (S \ {t})) = Cardinality(Threads \ S) + 1
        /\ Cardinality(Threads \ S) + 1 <= Cardinality(Threads)
<1>1. IsFiniteSet(Threads)
  BY OptimisticListAssumption
<1>2. \A S \in SUBSET Threads : /\ IsFiniteSet(Threads \ S) /\ Cardinality(Threads \ S) \in Nat
                                /\ Cardinality(Threads \ S) <= Cardinality(Threads)
  BY <1>1, FS_Subset, FS_CardinalityType
<1>3. ASSUME NEW S \in SUBSET Threads, NEW t \in S
      PROVE  Cardinality(Threads \ (S \ {t})) = Cardinality(Threads \ S) + 1
  <2>1. Threads \ (S \ {t}) = (Threads \ S) \cup {t} /\ t \notin Threads \ S
    OBVIOUS
  <2>2. Cardinality((Threads \ S) \cup {t}) = Cardinality(Threads \ S) + 1
    BY <1>2, <2>1, FS_AddElement
  <2> QED
    BY <2>1, <2>2
<1>4. ASSUME NEW S \in SUBSET Threads, NEW t \in S
      PROVE  Cardinality(Threads \ S) + 1 <= Cardinality(Threads)
  <2>1. S \ {t} \in SUBSET Threads
    OBVIOUS
  <2> QED
    BY <1>2, <1>3, <2>1
<1> QED
  BY <1>1, <1>2, <1>3, <1>4, FS_CardinalityType

\* A phase begins when no thread still has to clear its dirty byte.
LEMMA BeginStep ==
    ASSUME ListInv, ~ Overlap, Begin, Witness, mode' = mode
    PROVE  ListInv'
<1> USE DEF ListInv
<1>1. /\ mode # "none" /\ gc = "idle" /\ gc' = "stamp" /\ left' = Threads
      /\ mode = "manual" \/ \A t \in Threads : pc[t] # "restart"
      /\ UNCHANGED <<to, del, key, free, HPlocal, hps, dirty, op, arg, find, new, pc>>
  BY DEF Begin
<1>2. PICK s \in SUBSET retired : toProcess' = s /\ retired' = retired \ s
  BY DEF Begin
<1>3. /\ LocalTypes' /\ (\A u \in Threads : Control(u)')
      /\ Shared' \subseteq Shared /\ Line' = Line
      /\ \A u \in Threads : /\ Holds(u)' \subseteq Holds(u) /\ HPs(u)' = HPs(u)
                            /\ Reads(u)' = Reads(u) /\ (Owns(u)' => Owns(u))
      /\ InOrder' /\ Seen'
      /\ ~ del'[Root] /\ (\A x \in Shared' \ Line' : del'[x])
      /\ \A u \in Threads : \A x \in Holds(u)' \ Line' : del'[x]
  BY <1>1, CollectorFrame DEF Types, LocalTypes
<1>4. Types'
  BY <1>1, <1>2, <1>3 DEF Types, HeapTypes
<1>5. Safe'
  BY <1>1, <1>3 DEF Safe
<1>6. Private'
  BY <1>1, <1>2, <1>3 DEF Private
<1>7. Unlinked'
  <2>1. \A u \in Threads : ~ Stamped(u)'
    BY <1>1 DEF Stamped
  <2>2. Young' \subseteq Line
    BY <1>1, <2>1, SharedFacts, YoungLeast DEF Types, HeapTypes, Undirty
  <2>3. retired' \cup toProcess' = retired /\ retired' \cap toProcess' = {}
    BY <1>2
  <2> QED
    BY <1>1, <1>3, <2>2, <2>3 DEF Unlinked
<1>8. Saved'
  <2>1. \A u \in Threads : SavedOf(u)'
    BY <1>1 DEF SavedOf
  <2>2. NumElements(Clean) <= 3 * Cardinality(Threads \ left')
    BY <1>1, CleanCounts, VisitedCount
  <2> QED
    BY <1>1, <2>1, <2>2, CleanIsEmpty DEF Saved
<1>9. Helping'
  <2>1. ASSUME NEW u \in Threads PROVE HelpsOf(u)'
    BY <1>1 DEF HelpsOf, Helping, Stamped
  <2> QED
    BY <1>1, <2>1 DEF Helping
<1> QED
  BY <1>3, <1>4, <1>5, <1>6, <1>7, <1>8, <1>9

\* The dirty byte of a thread is set.
LEMMA StampStep ==
    ASSUME ListInv, NEW t \in Threads, Stamp(t), Witness, mode' = mode
    PROVE  ListInv'
<1> USE DEF ListInv
<1>1. /\ gc = "stamp" /\ t \in left /\ dirty' = [dirty EXCEPT ![t] = TRUE]
      /\ \/ left = {t} /\ gc' = "save" /\ left' = Threads
         \/ left' = left \ {t} /\ gc' = gc
      /\ UNCHANGED <<to, del, key, free, retired, toProcess, HPlocal, hps, op, arg, find, new, pc>>
  BY DEF Stamp, heap
<1>2. dirty' \in [Threads -> BOOLEAN] /\ dirty'[t] /\ \A u \in Threads \ {t} : dirty'[u] = dirty[u]
  BY <1>1 DEF Types, LocalTypes
<1>3. /\ LocalTypes' /\ (\A u \in Threads : Control(u)')
      /\ Shared' \subseteq Shared /\ Line' = Line /\ Undirty' \subseteq Undirty
      /\ \A u \in Threads : /\ Holds(u)' \subseteq Holds(u) /\ HPs(u)' = HPs(u)
                            /\ Reads(u)' = Reads(u) /\ (Owns(u)' => Owns(u))
      /\ InOrder' /\ Seen'
      /\ ~ del'[Root] /\ (\A x \in Shared' \ Line' : del'[x])
      /\ \A u \in Threads : \A x \in Holds(u)' \ Line' : del'[x]
  BY <1>1, <1>2, CollectorFrame DEF Types, LocalTypes
<1>4. Types'
  BY <1>1, <1>3 DEF Types, HeapTypes
<1>5. Safe'
  BY <1>1, <1>3 DEF Safe
<1>6. Private'
  BY <1>1, <1>3 DEF Private
<1>7. \A u \in Threads \ {t} : Stamped(u)' => Stamped(u)
  BY <1>1 DEF Stamped
<1>8. Unlinked'
  <2>1. \A u \in Undirty' : Stamped(u)' => Reads(u)' \subseteq Young \cup {Null}
    BY <1>2, <1>3, <1>7, SharedFacts DEF Undirty
  <2>2. Young' \subseteq Young
    BY <1>1, <2>1, SharedFacts, YoungLeast DEF Types, HeapTypes
  <2> QED
    BY <1>1, <1>3, <2>2 DEF Unlinked
<1>9. Saved'
  <2>1. \A u \in Threads : SavedOf(u)'
    BY <1>1 DEF SavedOf
  <2>2. left' \in SUBSET Threads
    BY <1>4 DEF Types, HeapTypes
  <2>3. Cardinality(Threads \ left') \in Nat
    BY <2>2, VisitedCount
  <2>4. NumElements(Clean) <= 3 * Cardinality(Threads \ left')
    BY <2>3, CleanCounts
  <2> QED
    BY <1>1, <2>1, <2>4, CleanIsEmpty DEF Saved
<1>10. Helping'
  <2>1. ASSUME NEW u \in Threads PROVE HelpsOf(u)'
    BY <1>1, <1>2, <1>7 DEF HelpsOf, Helping, Stamped
  <2> QED
    BY <1>1, <2>1 DEF Helping
<1> QED
  BY <1>3, <1>4, <1>5, <1>6, <1>8, <1>9, <1>10

\* setAddP puts a hazard pointer that is not NULL into the table, if fewer cells
\* are taken than the table has, and takes one cell at most.
LEMMA SetAddAdds ==
    ASSUME NEW table \in Tables, NoGap(table), NEW k \in Nat, NumElements(table) <= k, k < SetSize, NEW n
    PROVE  /\ SetAddP(table, n) \in Tables /\ NoGap(SetAddP(table, n))
           /\ NumElements(SetAddP(table, n)) <= k + 1
           /\ Elements(table) \subseteq Elements(SetAddP(table, n))
           /\ n \in Nodes => Truncated(Address[n]) \in Elements(SetAddP(table, n))
<1> DEFINE d == Truncated(Address[n])
<1>1. NumElements(table) \in Nat
  BY CountType
<1>2. CASE n \notin Nodes
  BY <1>1, <1>2 DEF SetAddP
<1>3. CASE n \in Nodes
  <2>1. d \in Ints \ {0}
    <3>1. Address[n] \in Nat /\ d # 0
      BY <1>3, OptimisticListAssumption
    <3> QED
      BY <3>1, PointerSetAssumption DEF Truncated, Ints
  <2>2. Room(table)
    BY <1>1, PointerSetAssumption, HalfFullHasRoom
  <2>3. SetAddP(table, n) = HashInsert(table, d)
    BY <1>3 DEF SetAddP
  <2> HIDE DEF d
  <2>4. /\ HashInsert(table, d) \in Tables /\ NoGap(HashInsert(table, d))
        /\ Elements(HashInsert(table, d)) = Elements(table) \cup {d}
    BY <2>1, <2>2, InsertAdds
  <2>5. /\ NumElements(HashInsert(table, d)) \in Nat
        /\ NumElements(HashInsert(table, d)) <= NumElements(table) + 1
    BY <2>1, <2>2, InsertCounts
  <2> QED
    BY <1>1, <2>3, <2>4, <2>5 DEF d
<1> QED
  BY <1>2, <1>3

\* The three hazard pointers of a thread.
LEMMA InsertedAdds ==
    ASSUME NEW t \in Threads, NEW table \in Tables, NoGap(table), NEW k \in Nat,
           NumElements(table) <= k, k + 2 < SetSize
    PROVE  /\ Inserted(table, t) \in Tables /\ NoGap(Inserted(table, t))
           /\ NumElements(Inserted(table, t)) <= k + 3
           /\ Elements(table) \subseteq Elements(Inserted(table, t))
           /\ \A n \in HPs(t) : Truncated(Address[n]) \in Elements(Inserted(table, t))
<1> DEFINE a == SetAddP(table, Published(t)[1])
           b == SetAddP(a, Published(t)[2])
           c == SetAddP(b, Published(t)[3])
<1>0. k + 1 \in Nat /\ k + 2 \in Nat /\ k < SetSize /\ k + 1 < SetSize /\ k + 1 + 1 = k + 2 /\ k + 2 + 1 = k + 3
  BY PointerSetAssumption
<1>1. /\ a \in Tables /\ NoGap(a) /\ NumElements(a) <= k + 1 /\ Elements(table) \subseteq Elements(a)
      /\ Published(t)[1] \in Nodes => Truncated(Address[Published(t)[1]]) \in Elements(a)
  BY <1>0, SetAddAdds
<1> HIDE DEF a
<1>2. /\ b \in Tables /\ NoGap(b) /\ NumElements(b) <= k + 2 /\ Elements(a) \subseteq Elements(b)
      /\ Published(t)[2] \in Nodes => Truncated(Address[Published(t)[2]]) \in Elements(b)
  BY <1>0, <1>1, SetAddAdds
<1> HIDE DEF b
<1>3. /\ c \in Tables /\ NoGap(c) /\ NumElements(c) <= k + 3 /\ Elements(b) \subseteq Elements(c)
      /\ Published(t)[3] \in Nodes => Truncated(Address[Published(t)[3]]) \in Elements(c)
  BY <1>0, <1>2, SetAddAdds
<1>4. Inserted(table, t) = c
  BY DEF Inserted, a, b
<1> HIDE DEF c
<1>5. \A n \in HPs(t) : n \in Nodes /\ n \in {Published(t)[1], Published(t)[2], Published(t)[3]}
  BY DEF HPs
<1> QED
  BY <1>1, <1>2, <1>3, <1>4, <1>5

\* The hazard pointers of a thread are read: the table of the version with
\* manual retirement stays half empty, however many threads there are.
LEMMA SaveStep ==
    ASSUME ListInv, NEW t \in Threads, Save(t), Witness, mode' = mode
    PROVE  ListInv'
<1> USE DEF ListInv
<1>1. /\ gc = "save" /\ t \in left /\ left' = left \ {t} /\ HPlocal' = HPlocal \cup HPs(t)
      /\ hps' = (IF mode = "manual" THEN Inserted(hps, t) ELSE hps)
      /\ UNCHANGED <<to, del, key, free, retired, toProcess, gc, dirty, op, arg, find, new, pc>>
  BY DEF Save, heap
<1>3. /\ LocalTypes' /\ (\A u \in Threads : Control(u)')
      /\ Shared' \subseteq Shared /\ Line' = Line /\ Undirty' \subseteq Undirty
      /\ \A u \in Threads : /\ Holds(u)' \subseteq Holds(u) /\ HPs(u)' = HPs(u)
                            /\ Reads(u)' = Reads(u) /\ (Owns(u)' => Owns(u))
      /\ InOrder' /\ Seen'
      /\ ~ del'[Root] /\ (\A x \in Shared' \ Line' : del'[x])
      /\ \A u \in Threads : \A x \in Holds(u)' \ Line' : del'[x]
  BY <1>1, CollectorFrame DEF Types, LocalTypes
<1>4. Types'
  BY <1>1, <1>3 DEF Types, HeapTypes, HPs
<1>5. Safe'
  BY <1>1, <1>3 DEF Safe
<1>6. Private'
  BY <1>1, <1>3 DEF Private
<1>7. Unlinked'
  <2>1. \A u \in Undirty' : Stamped(u)' => Reads(u)' \subseteq Young \cup {Null}
    BY <1>1, <1>3, SharedFacts DEF Undirty, Stamped
  <2>2. Young' \subseteq Young
    BY <1>1, <2>1, SharedFacts, YoungLeast DEF Types, HeapTypes
  <2> QED
    BY <1>1, <1>3, <2>2 DEF Unlinked
<1>8. Saved'
  <2>1. ASSUME NEW u \in Threads PROVE SavedOf(u)'
    BY <1>1, <1>3 DEF SavedOf, Saved
  <2> DEFINE k == Cardinality(Threads \ left)
  <2>2. k \in Nat /\ Cardinality(Threads \ left') = k + 1 /\ k + 1 <= Cardinality(Threads)
    BY <1>1, VisitedCount DEF Types, HeapTypes
  <2>3. SetSize = 6 * Cardinality(Threads) /\ Cardinality(Threads) \in Nat
    BY OptimisticListAssumption, VisitedCount
  <2> HIDE DEF k
  <2>4. NumElements(hps) <= 3 * k /\ hps \in Tables /\ NoGap(hps)
    BY DEF Saved, k
  <2>5. 3 * k \in Nat /\ 3 * k + 2 < SetSize /\ 3 * (k + 1) = 3 * k + 3
    BY <2>2, <2>3
  <2>6. CASE mode = "manual"
    <3>1. /\ Inserted(hps, t) \in Tables /\ NoGap(Inserted(hps, t))
          /\ NumElements(Inserted(hps, t)) <= 3 * k + 3
          /\ Elements(hps) \subseteq Elements(Inserted(hps, t))
          /\ \A n \in HPs(t) : Truncated(Address[n]) \in Elements(Inserted(hps, t))
      BY <2>4, <2>5, InsertedAdds
    <3>2. \A n \in HPlocal : Truncated(Address[n]) \in Elements(hps)
      BY <2>6 DEF Saved
    <3> QED
      BY <1>1, <2>1, <2>2, <2>5, <2>6, <3>1, <3>2 DEF Saved
  <2>7. CASE mode # "manual"
    <3>1. NumElements(hps) <= 3 * k + 3
      <4>1. NumElements(hps) \in Nat
        BY CountType
      <4> QED
        BY <2>4, <2>5, <4>1
    <3> QED
      BY <1>1, <2>1, <2>2, <2>4, <2>5, <2>7, <3>1 DEF Saved
  <2> QED
    BY <2>6, <2>7
<1>9. Helping'
  <2>1. ASSUME NEW u \in Threads PROVE HelpsOf(u)'
    BY <1>1 DEF HelpsOf, Helping, Stamped
  <2> QED
    BY <1>1, <2>1 DEF Helping
<1> QED
  BY <1>3, <1>4, <1>5, <1>6, <1>7, <1>8, <1>9

\* The entries that a thread's CAS touches, and the one that it is linking, are
\* under its hazard pointers.
LEMMA CasPublished ==
    ASSUME Types, NEW t \in Threads, pc[t] = "cas"
    PROVE  /\ t \notin Undirty => Holds(t) \subseteq HPs(t) \cup {Root}
           /\ Owns(t) => new[t] \in HPs(t)
<1>1. /\ prev[t] \in Cells /\ cur[t] \in Pointers /\ nxt[t] \in Pointers /\ new[t] \in Pointers
      /\ Control(t)
  BY DEF Types, LocalTypes
<1>2. \A x : x \in {Published(t)[1], Published(t)[2], Published(t)[3]} /\ x \in Nodes => x \in HPs(t)
  BY DEF HPs
<1>3. CASE nd[t]
  <2>1. Published(t)[1] = prev[t] /\ Published(t)[2] = cur[t] /\ Published(t)[3] = nxt[t]
    BY <1>3 DEF Published
  <2> QED
    BY <1>1, <1>2, <1>3, <2>1 DEF Holds, Reads, Cells, Pointers, Owns, Control, Inserts
<1>4. CASE ~ nd[t] /\ op[t] = "insert"
  <2>1. Published(t)[1] = prev[t] /\ Published(t)[2] = cur[t] /\ Published(t)[3] = new[t]
    BY <1>4 DEF Published
  <2> QED
    BY <1>1, <1>2, <1>4, <2>1 DEF Holds, Reads, Cells, Pointers, Owns
<1>5. CASE ~ nd[t] /\ op[t] # "insert"
  <2>1. Published(t)[1] = cur[t] /\ Published(t)[2] = nxt[t]
    BY <1>5 DEF Published
  <2> QED
    BY <1>1, <1>2, <1>5, <2>1 DEF Holds, Reads, Cells, Pointers, Owns, Control, Inserts
<1> QED
  BY <1>3, <1>4, <1>5

\* What is reclaimed is nobody's: manual retirement has asked the table, the
\* optimistic collector has marked from the head and the hazard pointers while
\* every thread was dirty or helped.
LEMMA SweepStep ==
    ASSUME ListInv, Sweep, Witness, mode' = mode
    PROVE  ListInv'
<1> USE DEF ListInv
<1>1. /\ gc = "save" /\ left = {} /\ toProcess' = {} /\ gc' = "idle" /\ HPlocal' = {} /\ hps' = Clean
      /\ pc' = [t \in Threads |-> IF pc[t] = "help" THEN "restart" ELSE pc[t]]
      /\ UNCHANGED <<to, del, key, left, dirty, op, arg, find, new>>
  BY DEF Sweep
<1>2. pc' \in [Threads -> Labels]
  BY <1>1, LabelFacts DEF Types, LocalTypes
<1>3. /\ LocalTypes' /\ (\A u \in Threads : Control(u)')
      /\ Shared' \subseteq Shared /\ Line' = Line /\ Undirty' \subseteq Undirty
      /\ \A u \in Threads : /\ Holds(u)' \subseteq Holds(u) /\ HPs(u)' = HPs(u)
                            /\ Reads(u)' = Reads(u) /\ (Owns(u)' => Owns(u))
      /\ InOrder' /\ Seen'
      /\ ~ del'[Root] /\ (\A x \in Shared' \ Line' : del'[x])
      /\ \A u \in Threads : \A x \in Holds(u)' \ Line' : del'[x]
  BY <1>1, <1>2, CollectorFrame DEF Types, LocalTypes
<1>4. Saved'
  <2>1. \A u \in Threads : SavedOf(u)'
    BY <1>1 DEF SavedOf
  <2>2. Cardinality(Threads \ left') \in Nat
    BY <1>1, VisitedCount DEF Types, HeapTypes
  <2>3. NumElements(Clean) <= 3 * Cardinality(Threads \ left')
    BY <2>2, CleanCounts
  <2> QED
    BY <1>1, <2>1, <2>3, CleanIsEmpty DEF Saved
<1>5. Helping'
  <2>1. ASSUME NEW u \in Threads PROVE HelpsOf(u)'
    BY <1>1 DEF HelpsOf, Helping, Stamped
  <2>2. mode # "none"
    BY <1>1 DEF Helping
  <2> QED
    BY <2>1, <2>2 DEF Helping
<1>6. \A u \in Threads : u \notin Undirty /\ pc[u] = "cas" => HPs(u) \subseteq HPlocal
  BY <1>1 DEF Undirty, Types, LocalTypes, Saved, SavedOf
<1>7. \A u \in Threads : u \notin Undirty => Holds(u) \subseteq HPlocal \cup {Root}
  <2> TAKE u \in Threads
  <2>1. CASE pc[u] = "cas"
    BY <1>6, <2>1, CasPublished
  <2>2. CASE pc[u] # "cas"
    BY <2>2 DEF Holds
  <2> QED
    BY <2>1, <2>2
<1>8. CASE mode = "manual"
  <2> DEFINE F == {n \in toProcess : ~ Protects(n)}
             P == {n \in toProcess : Protects(n)}
  <2>1. free' = free \cup F /\ retired' = retired \cup P /\ toProcess = F \cup P /\ F \cap P = {}
    BY <1>8 DEF Sweep
  <2>2. \A n \in HPlocal : n \notin F
    <3>1. \A n \in HPlocal : n \in Nodes /\ Truncated(Address[n]) \in Elements(hps)
      BY <1>8 DEF Saved, Types, HeapTypes
    <3>2. NoGap(hps)
      BY DEF Saved
    <3> QED
      BY <3>1, <3>2 DEF NoGap, Protects
  <2>3. Shared \subseteq Young
    <3>1. \A u \in Threads : Stamped(u)
      BY <1>1 DEF Stamped
    <3>2. {u \in Undirty : Stamped(u)} = Undirty
      BY <3>1 DEF Undirty
    <3> QED
      BY <3>2 DEF Shared, Young
  <2>4. Shared \cap toProcess = {}
    BY <1>1, <2>3 DEF Unlinked
  <2>5. Root \notin toProcess
    BY OptimisticListAssumption DEF Types, HeapTypes
  <2>6. \A u \in Threads : Holds(u) \cap F = {}
    <3> TAKE u \in Threads
    <3>1. CASE u \in Undirty
      BY <2>1, <2>4, <3>1, SharedFacts DEF Holds
    <3>2. CASE u \notin Undirty
      BY <1>7, <2>1, <2>2, <2>5, <3>2
    <3> QED
      BY <3>1, <3>2
  <2>7. F \subseteq toProcess /\ P \subseteq toProcess
    OBVIOUS
  <2> HIDE DEF F, P
  <2>8. Types'
    BY <1>1, <1>3, <2>1, <2>7 DEF Types, HeapTypes
  <2>9. Safe'
    <3>1. Shared' \cap free' = {}
      BY <1>3, <2>1, <2>4, <2>7 DEF Safe
    <3>2. \A u \in Threads : Holds(u)' \cap free' = {}
      BY <1>3, <2>1, <2>6 DEF Safe
    <3> QED
      BY <1>3, <3>1, <3>2 DEF Safe
  <2>10. Private'
    BY <1>1, <1>3, <2>1, <2>7 DEF Private
  <2>11. Unlinked'
    <3>1. \A x \in retired \cup P : del[x] /\ x \notin Line /\ x \notin free /\ x \notin F
      BY <2>1, <2>7 DEF Unlinked
    <3> QED
      BY <1>1, <1>3, <1>8, <2>1, <3>1 DEF Unlinked
  <2> QED
    BY <1>3, <1>4, <1>5, <2>8, <2>9, <2>10, <2>11
<1>9. CASE mode = "collected"
  <2> DEFINE S == {Root} \cup HPlocal
  <2>1. free' = Nodes \ Reach(to, S) /\ retired' = retired
    BY <1>9 DEF Sweep, From
  <2>2. Line \subseteq Reach(to, S) /\ HPlocal \subseteq Reach(to, S)
    <3>1. {Root} \cap DOMAIN to \subseteq S /\ HPlocal \subseteq S \cap DOMAIN to
      BY SharedFacts DEF Types, HeapTypes, Cells
    <3> HIDE DEF S
    <3> QED
      BY <3>1, ReachMonotone, ReachClosed DEF Line, From
  <2> HIDE DEF S
  <2>3. \A u \in Undirty : pc[u] = "help" /\ Reads(u) \subseteq {Root, Null} /\ new[u] = Null
    <3> TAKE u \in Undirty
    <3>1. u \in Threads /\ ~ dirty[u] /\ HelpsOf(u) /\ Control(u)
      BY DEF Undirty, Helping, Types
    <3>2. pc[u] = "help"
      BY <1>1, <1>9, <3>1 DEF HelpsOf, Stamped
    <3> QED
      BY <3>1, <3>2 DEF Control, Inserts, Reads
  <2>4. Shared' \subseteq Line
    <3>1. \A u \in Undirty' : Reads(u)' \subseteq Line \cup {Null}
      BY <1>3, <2>3, SharedFacts DEF Undirty
    <3> QED
      BY <1>1, <3>1, SharedFacts, SharedLeast DEF Types, HeapTypes
  <2>5. \A u \in Threads : Holds(u) \subseteq HPlocal \cup {Root}
    <3> TAKE u \in Threads
    <3>1. u \in Undirty => Holds(u) \subseteq {Root}
      BY <2>3 DEF Holds
    <3> QED
      BY <1>7, <3>1
  <2>6. \A u \in Threads : Owns(u) => new[u] \in HPlocal
    <3> TAKE u \in Threads
    <3>1. CASE u \in Undirty
      BY <2>3, <3>1 DEF Owns
    <3>2. CASE u \notin Undirty
      BY <1>6, <3>2, CasPublished DEF Owns
    <3> QED
      BY <3>1, <3>2
  <2>7. Types'
    BY <1>1, <1>3, <2>1 DEF Types, HeapTypes
  <2>8. Safe'
    <3>1. Shared' \cap free' = {}
      BY <2>1, <2>2, <2>4
    <3>2. \A u \in Threads : Holds(u)' \cap free' = {}
      BY <1>3, <2>1, <2>2, <2>5, OptimisticListAssumption
    <3> QED
      BY <1>3, <3>1, <3>2 DEF Safe
  <2>9. Private'
    <3>1. \A u \in Threads : Owns(u)' => new[u] \notin free'
      BY <1>3, <2>1, <2>2, <2>6
    <3> QED
      BY <1>1, <1>3, <2>1, <3>1 DEF Private
  <2>10. Unlinked'
    <3>1. retired = {}
      BY <1>9 DEF Unlinked
    <3> QED
      BY <1>1, <2>1, <3>1 DEF Unlinked
  <2> QED
    BY <1>3, <1>4, <1>5, <2>7, <2>8, <2>9, <2>10
<1>10. mode \in {"manual", "collected"}
  BY <1>1 DEF Types, HeapTypes, Helping
<1> QED
  BY <1>8, <1>9, <1>10

-----------------------------------------------------------------------------
(* The invariant and the properties.                                       *)

\* The list at the start.
LEMMA InitListInv == Init => ListInv
<1> SUFFICES ASSUME Init PROVE ListInv
  OBVIOUS
<1>1. PICK b \in Bounds : mode = b.mode /\ Initially(b.list)
  BY DEF Init
<1>2. /\ del = [n \in Cells |-> FALSE] /\ retired = {} /\ toProcess = {}
      /\ gc = "idle" /\ left = {} /\ HPlocal = {} /\ hps = Clean
      /\ dirty = [t \in Threads |-> FALSE]
      /\ op = [t \in Threads |-> "none"] /\ arg = [t \in Threads |-> 0]
      /\ prev = [t \in Threads |-> Root] /\ cur = [t \in Threads |-> Null]
      /\ nxt = [t \in Threads |-> Null] /\ nd = [t \in Threads |-> FALSE]
      /\ new = [t \in Threads |-> Null] /\ pc = [t \in Threads |-> "idle"]
      /\ saw = [t \in Threads |-> {}]
  BY DEF Init
<1> DEFINE list == b.list
           linked == {list[i] : i \in DOMAIN list}
           at(n) == CHOOSE i \in DOMAIN list : list[i] = n
           follows(i) == IF i < Len(list) THEN list[i + 1] ELSE Null
<1>3. /\ to = [n \in Cells |-> IF n = Root THEN follows(0)
                               ELSE IF n \in linked THEN follows(at(n)) ELSE Null]
      /\ key = [n \in Nodes |-> IF n \in linked THEN at(n) ELSE 0]
      /\ free = Nodes \ linked
  BY <1>1 DEF Initially
<1>4. /\ list \in Seq(Nodes) /\ \A i, j \in DOMAIN list : list[i] = list[j] => i = j
      /\ DOMAIN list \subseteq Keys /\ b.mode \in {"collected", "manual", "none"}
      /\ Root \notin Nodes /\ Null \notin Nodes \cup {Root}
  BY OptimisticListAssumption
<1> HIDE DEF list
<1>5. DOMAIN list = 1 .. Len(list) /\ Len(list) \in Nat
  BY <1>4
<1>6. \A i \in DOMAIN list : list[i] \in Nodes /\ list[i] \in linked /\ at(list[i]) = i
  <2> TAKE i \in DOMAIN list
  <2>1. list[i] \in Nodes
    BY <1>4, <1>5
  <2>2. \A j \in DOMAIN list : list[j] = list[i] <=> j = i
    BY <1>4
  <2> QED
    BY <2>1, <2>2
<1>7. \A n \in linked : at(n) \in DOMAIN list /\ list[at(n)] = n /\ n \in Nodes
  BY <1>6
<1>8. \A i \in {0} \cup DOMAIN list :
        \/ follows(i) = Null
        \/ i + 1 \in DOMAIN list /\ follows(i) = list[i + 1] /\ follows(i) \in linked /\ at(follows(i)) = i + 1
  <2> TAKE i \in {0} \cup DOMAIN list
  <2>1. i < Len(list) => i + 1 \in DOMAIN list
    BY <1>5
  <2> QED
    BY <1>6, <2>1
<1> HIDE DEF linked, at, follows
<1>9. \A n \in linked : to[n] = follows(at(n)) /\ key[n] = at(n)
  BY <1>3, <1>4, <1>7 DEF Cells
<1>10. to[Root] = follows(0)
  BY <1>3 DEF Cells
<1>11. \A n \in linked \cup {Root} : to[n] \in linked \cup {Null}
  BY <1>7, <1>8, <1>9, <1>10
<1>12. HeapTypes
  <2>1. \A n \in Cells : to[n] \in Pointers
    BY <1>3, <1>7, <1>11 DEF Cells, Pointers
  <2>2. \A n \in Nodes : key[n] \in Keys \cup {0}
    BY <1>3, <1>4, <1>7
  <2>3. to \in [Cells -> Pointers] /\ key \in [Nodes -> Keys \cup {0}]
    BY <1>3, <2>1, <2>2
  <2> QED
    BY <1>1, <1>2, <1>3, <1>4, <2>3 DEF HeapTypes
<1>13. LocalTypes
  BY <1>2, LabelFacts DEF LocalTypes, Cells, Pointers
<1>14. \A t \in Threads : /\ Reads(t) = {Root, Null} /\ t \in Undirty /\ pc[t] = "idle" /\ ~ nd[t]
                          /\ new[t] = Null /\ ~ Inserts(t) /\ prev[t] = Root /\ cur[t] = Null
                          /\ Holds(t) \subseteq {Root}
  BY <1>2 DEF Reads, Undirty, Inserts, Holds
<1>15. \A t \in Threads : Control(t)
  BY <1>2, <1>14 DEF Control
<1>16. Types
  BY <1>12, <1>13, <1>15 DEF Types
<1>17. Shared \subseteq linked \cup {Root}
  <2> DEFINE R2 == {Root} \cup UNION {Reads(t) : t \in Undirty}
             C == linked \cup {Root}
  <2>1. DOMAIN to = Cells /\ Null \notin Cells
    BY <1>3, <1>4 DEF Cells
  <2>2. R2 \cap DOMAIN to \subseteq C
    BY <1>14, <2>1 DEF Undirty
  <2>3. \A x \in C \cap DOMAIN to : to[x] \in DOMAIN to => to[x] \in C
    BY <1>11, <2>1
  <2>4. Shared = Reach(to, R2)
    BY DEF Shared, From
  <2> HIDE DEF R2, C
  <2>5. Shared \subseteq C
    BY <2>2, <2>3, <2>4, ReachLeast
  <2> QED
    BY <2>5 DEF C
<1>18. Line = Shared
  <2> DEFINE R0 == {Root}
             R2 == {Root} \cup UNION {Reads(t) : t \in Undirty}
  <2>1. R2 \cap DOMAIN to \subseteq R0
    BY <1>3, <1>4, <1>14 DEF Undirty, Cells
  <2>2. Shared = Reach(to, R2) /\ Line = Reach(to, R0)
    BY DEF Shared, Line, From
  <2> HIDE DEF R0, R2
  <2>3. Shared \subseteq Line
    BY <2>1, <2>2, ReachMonotone
  <2> QED
    BY <1>16, <2>3, SharedFacts
<1>19. Safe
  <2>1. ~ del[Root]
    BY <1>2 DEF Cells
  <2>2. Shared \cap free = {} /\ Root \notin free
    BY <1>3, <1>4, <1>17
  <2> QED
    BY <1>14, <1>18, <2>1, <2>2, SharedFacts, <1>16 DEF Safe
<1>20. Private
  BY <1>14 DEF Private, Owns
<1>21. Unlinked
  BY <1>2 DEF Unlinked
<1>22. Saved
  <2>1. \A t \in Threads : SavedOf(t)
    BY <1>2 DEF SavedOf
  <2>2. Cardinality(Threads \ left) \in Nat
    BY <1>2, VisitedCount
  <2>3. NumElements(Clean) <= 3 * Cardinality(Threads \ left)
    BY <2>2, CleanCounts
  <2> QED
    BY <1>2, <2>1, <2>3, CleanIsEmpty DEF Saved
<1>23. Helping
  BY <1>2, <1>14 DEF Helping, HelpsOf, Stamped, Undirty
<1>24. InOrder
  <2>1. Sorted
    <3>1. ASSUME NEW x \in Line \ {Root}, to[x] # Null PROVE key[x] < key[to[x]]
      <4>1. x \in linked /\ at(x) \in DOMAIN list
        BY <1>7, <1>17, <1>18, <3>1
      <4>2. to[x] \in linked /\ at(to[x]) = at(x) + 1
        BY <1>8, <1>9, <3>1, <4>1
      <4>3. at(x) \in Int
        BY <1>5, <4>1
      <4> QED
        BY <1>9, <4>1, <4>2, <4>3
    <3> QED
      BY <3>1 DEF Sorted
  <2>2. \A t \in Threads : PlaceOf(t)
    BY <1>14 DEF PlaceOf
  <2> QED
    BY <2>1, <2>2 DEF InOrder
<1>25. Seen
  BY <1>2 DEF Seen, SeenOf
<1> QED
  BY <1>16, <1>19, <1>20, <1>21, <1>22, <1>23, <1>24, <1>25 DEF ListInv

\* Every step keeps the invariant.
LEMMA NextListInv ==
    ASSUME ~ Overlap, ListInv, [Next]_vars
    PROVE  ListInv'
<1>1. CASE Begin /\ Witness /\ mode' = mode
  BY <1>1, BeginStep
<1>2. ASSUME NEW t \in Threads, Start(t), Witness, mode' = mode PROVE ListInv'
  BY <1>2, StartStep
<1>3. CASE Sweep /\ Witness /\ mode' = mode
  BY <1>3, SweepStep
<1>4. ASSUME NEW t \in Threads, Thread(t), Witness, mode' = mode PROVE ListInv'
  <2>1. CASE Stamp(t)
    BY <1>4, <2>1, StampStep
  <2>2. CASE Save(t)
    BY <1>4, <2>2, SaveStep
  <2>3. CASE Restart(t)
    BY <1>4, <2>3, RestartStep
  <2>4. CASE ReadHead(t)
    BY <1>4, <2>4, ReadHeadStep
  <2>5. CASE ReadNext(t)
    BY <1>4, <2>5, ReadNextStep
  <2>6. CASE Judge(t)
    BY <1>4, <2>6, JudgeStep
  <2>7. CASE Fence(t)
    BY <1>4, <2>7, FenceStep
  <2>8. CASE Unlink(t)
    BY <1>4, <2>8, UnlinkStep
  <2>9. CASE NothingToDo(t)
    BY <1>4, <2>9, NothingToDoStep
  <2>10. CASE Palloc(t)
    BY <1>4, <2>10, PallocStep
  <2>11. CASE Link(t)
    BY <1>4, <2>11, LinkStep
  <2>12. CASE Mark(t)
    BY <1>4, <2>12, MarkStep
  <2> QED
    BY <1>4, <2>1, <2>2, <2>3, <2>4, <2>5, <2>6, <2>7, <2>8, <2>9, <2>10, <2>11, <2>12 DEF Thread
<1>5. CASE UNCHANGED vars
  <2>1. /\ UNCHANGED <<mode, to, del, key, free, retired, toProcess, gc, left, HPlocal, hps, dirty, op>>
        /\ UNCHANGED <<arg, prev, cur, nxt, nd, new, pc, saw>>
    BY <1>5 DEF vars, heap, collector, find
  <2>2. /\ Line' = Line /\ Young' = Young /\ Shared' = Shared /\ Undirty' = Undirty
        /\ \A t \in Threads : /\ Holds(t)' = Holds(t) /\ Owns(t)' = Owns(t) /\ HPs(t)' = HPs(t)
                              /\ Stamped(t)' = Stamped(t) /\ Inserts(t)' = Inserts(t)
                              /\ Sure(t)' = Sure(t)
    BY <2>1 DEF Line, Young, Shared, From, Undirty, Reads, Holds, Owns, HPs, Published, Stamped,
                Inserts, Sure
  <2>3. Types'
    BY <2>1, <2>2 DEF ListInv, Types, HeapTypes, LocalTypes, Control
  <2>4. Safe' /\ Private' /\ Unlinked'
    BY <2>1, <2>2 DEF ListInv, Safe, Private, Unlinked
  <2>5. Saved' /\ Helping'
    BY <2>1, <2>2 DEF ListInv, Saved, SavedOf, Helping, HelpsOf
  <2>6. InOrder' /\ Seen'
    BY <2>1, <2>2 DEF ListInv, InOrder, Sorted, PlaceOf, Seen, SeenOf
  <2> QED
    BY <2>3, <2>4, <2>5, <2>6 DEF ListInv
<1> QED
  BY <1>1, <1>2, <1>3, <1>4, <1>5 DEF Next

\* The invariant of the list, for every number of threads, nodes and keys, if
\* no phase begins while a dirty byte of the phase before is still to be
\* cleared.
THEOREM ListInvariant ==
    ASSUME ~ Overlap
    PROVE  Spec => []ListInv
<1>1. ListInv /\ [Next]_vars => ListInv'
  BY NextListInv
<1> QED
  BY <1>1, InitListInv, PTL DEF Spec

\* The variables keep their types, and the table of hazard pointers is half
\* empty at most: 3 of the 6 cells per thread are taken (allocatorOA.c:79, 313).
THEOREM TypesOK ==
    ASSUME ~ Overlap
    PROVE  Spec => []TypeOK
<1>1. ListInv => TypeOK
  <2> SUFFICES ASSUME ListInv PROVE TypeOK
    OBVIOUS
  <2>1. hps \in Tables /\ NumElements(hps) <= SetSize \div 2
    <3> DEFINE c == Cardinality(Threads)
               d == Cardinality(Threads \ left)
    <3>1. c \in Nat /\ d \in Nat /\ d <= c
      BY VisitedCount DEF ListInv, Types, HeapTypes
    <3>2. SetSize = 6 * c
      BY OptimisticListAssumption
    <3>3. NumElements(hps) \in Nat /\ NumElements(hps) <= 3 * d
      BY CountType DEF ListInv, Saved
    <3> HIDE DEF c, d
    <3>4. SetSize \div 2 = 3 * c
      BY <3>1, <3>2
    <3>5. NumElements(hps) <= 3 * c
      BY <3>1, <3>3
    <3> QED
      BY <3>4, <3>5 DEF ListInv, Saved
  <2>2. \A t \in Threads : pc[t] \in {"next", "judge"} => cur[t] # Null
    BY DEF ListInv, Types, Control
  <2> QED
    BY <2>1, <2>2 DEF TypeOK, ListInv, Types, HeapTypes, LocalTypes
<1> QED
  BY <1>1, ListInvariant, PTL

\* No thread that is not dirty has come to an entry that has been reclaimed,
\* and no CAS touches one, if no phase begins while a dirty byte of the phase
\* before is still to be cleared.
THEOREM NobodyReadsReclaimed ==
    ASSUME ~ Overlap
    PROVE  Spec => []Protected
<1>1. ListInv => Protected
  <2> SUFFICES ASSUME ListInv, NEW t \in Threads
               PROVE  /\ ~ dirty[t] => Uses(t) \cap free = {}
                      /\ pc[t] = "cas" => HPs(t) \cap free = {}
    BY DEF Protected
  <2> USE DEF ListInv
  <2>1. Null \notin free /\ Holds(t) \cap free = {} /\ (Owns(t) => new[t] \notin free)
    BY OptimisticListAssumption DEF Safe, Private, Types, HeapTypes
  <2>2. ~ dirty[t] => Uses(t) \cap free = {}
    BY <2>1 DEF Uses, Holds, Reads, Undirty, Owns
  <2>3. ASSUME pc[t] = "cas" PROVE HPs(t) \subseteq Holds(t) \cup {Null, new[t]}
    <3>1. HPs(t) \subseteq {Published(t)[1], Published(t)[2], Published(t)[3]}
      BY DEF HPs
    <3>2. CASE nd[t]
      BY <2>3, <3>1, <3>2 DEF Published, Holds, Reads
    <3>3. CASE ~ nd[t] /\ op[t] = "insert"
      BY <2>3, <3>1, <3>3 DEF Published, Holds, Reads
    <3>4. CASE ~ nd[t] /\ op[t] # "insert"
      BY <2>3, <3>1, <3>4 DEF Published, Holds, Reads
    <3> QED
      BY <3>2, <3>3, <3>4
  <2>4. pc[t] = "cas" => new[t] = Null \/ Owns(t)
    BY DEF Owns
  <2> QED
    BY <2>1, <2>2, <2>3, <2>4
<1> QED
  BY <1>1, ListInvariant, PTL

\* An entry is in the list, retired, under examination or free, and in no two
\* of these.
THEOREM EntriesApart ==
    ASSUME ~ Overlap
    PROVE  Spec => []Apart
<1>1. ListInv => Apart
  BY SharedFacts DEF ListInv, Apart, InList, Line, Safe, Unlinked
<1> QED
  BY <1>1, ListInvariant, PTL

\* What an operation answers was true at some moment between its call and its
\* return.
THEOREM AnswersAreTrue ==
    ASSUME ~ Overlap
    PROVE  Spec => []Answers
<1>1. ListInv => Answers
  BY DEF ListInv, Answers, Seen, SeenOf
<1> QED
  BY <1>1, ListInvariant, PTL

-----------------------------------------------------------------------------
(* The list is a set of keys.                                              *)

\* What a call is for, and what it has seen of its key last.
AskedOf(t) ==
    /\ pc[t] = "idle" => saw[t] = {}
    /\ pc[t] # "idle" => /\ op[t] \in {"insert", "delete", "search"}
                         /\ arg[t] \in Keys
                         /\ (arg[t] \in Present) \in saw[t]
    /\ pc[t] = "found" => op[t] # "delete"

Asked == \A t \in Threads : AskedOf(t)

\* t is about to mark an entry that cannot be handed out again.
Marks(t) == pc[t] \in {"fence", "cas"} /\ ~ nd[t] /\ op[t] = "delete" /\ (t \in Undirty \/ pc[t] = "cas")

\* It is the one with its key.
ChosenOf(t) == Marks(t) => key[cur[t]] = arg[t]

Chosen == \A t \in Threads : ChosenOf(t)

\* At the start nobody is called.
LEMMA InitAsked == Init => Asked /\ Chosen
<1> SUFFICES ASSUME Init PROVE Asked /\ Chosen
  OBVIOUS
<1>1. \A t \in Threads : pc[t] = "idle" /\ saw[t] = {}
  BY DEF Init
<1> QED
  BY <1>1 DEF Asked, AskedOf, Chosen, ChosenOf, Marks

\* A step that t takes on its own way: it keeps its operation and its key.
OnItsWay(t) ==
    /\ op' = op /\ arg' = arg /\ pc[t] # "idle" /\ pc'[t] # "idle"
    /\ \A u \in Threads \ {t} : pc'[u] = pc[u]
    /\ pc[t] # "found" /\ (pc[t] = "absent" => op[t] # "search")
    /\ pc'[t] = "found" => op[t] # "delete"

\* t begins an operation, or ends one.
Called(t) ==
    /\ pc[t] = "idle"
    /\ \E o \in {"insert", "delete", "search"}, k \in Keys :
         op' = [op EXCEPT ![t] = o] /\ arg' = [arg EXCEPT ![t] = k]
    /\ pc' = [pc EXCEPT ![t] = "next"] \/ pc' = [pc EXCEPT ![t] = "absent"]

Returned(t) ==
    /\ pc[t] # "idle"
    /\ op' = [op EXCEPT ![t] = "none"] /\ arg' = [arg EXCEPT ![t] = 0]
    /\ pc' = [pc EXCEPT ![t] = "idle"]

\* A CAS of Link or Mark that succeeds.
Takes(t) ==
    \/ Link(t) /\ PrevIntact(t)
    \/ Mark(t) /\ to[cur[t]] = nxt[t] /\ ~ del[cur[t]]

\* What the steps of a thread do to its operation.
LEMMA Turns ==
    ASSUME Types, NEW t \in Threads, Thread(t)
    PROVE  /\ NothingToDo(t) \/ Takes(t) => Returned(t)
           /\ NothingToDo(t) \/ Takes(t) \/ OnItsWay(t) \/ UNCHANGED <<op, arg, pc>>
<1>0. pc \in [Threads -> Labels]
  BY DEF Types, LocalTypes
<1>1. NothingToDo(t) => Returned(t)
  BY DEF NothingToDo, Returned, Return, Goto
<1>2. Takes(t) => Returned(t)
  BY DEF Takes, Link, Mark, Returned, Return, Goto
<1> SUFFICES NothingToDo(t) \/ Takes(t) \/ OnItsWay(t) \/ UNCHANGED <<op, arg, pc>>
  BY <1>1, <1>2
<1>3. ASSUME NEW l \in {"help", "restart", "start"}, Again(t, l), pc[t] \notin {"idle", "found", "absent"}
      PROVE  OnItsWay(t)
  BY <1>0, <1>3 DEF Again, Goto, OnItsWay
<1>4. ASSUME GiveUp(t), pc[t] \notin {"idle", "found", "absent"} PROVE OnItsWay(t)
  <2>1. CASE mode = "collected" /\ gc # "idle"
    BY <1>3, <1>4, <2>1 DEF GiveUp
  <2>2. CASE ~ (mode = "collected" /\ gc # "idle")
    BY <1>3, <1>4, <2>2 DEF GiveUp
  <2> QED
    BY <2>1, <2>2
<1>5. CASE Stamp(t) \/ Save(t)
  BY <1>5 DEF Stamp, Save
<1>6. CASE Restart(t)
  BY <1>0, <1>6 DEF Restart, Goto, OnItsWay
<1>7. CASE ReadHead(t)
  BY <1>0, <1>7 DEF ReadHead, Arrive, Goto, OnItsWay
<1>8. CASE ReadNext(t)
  BY <1>0, <1>4, <1>8 DEF ReadNext, Goto, OnItsWay
<1>9. CASE Judge(t)
  <2>1. pc[t] = "judge"
    BY <1>9 DEF Judge
  <2>2. CASE Dirty(t)
    BY <1>4, <1>9, <2>1, <2>2 DEF Judge
  <2>3. CASE ~ Dirty(t) /\ ~ PrevIntact(t)
    BY <1>3, <1>9, <2>1, <2>3 DEF Judge
  <2>4. CASE ~ Dirty(t) /\ PrevIntact(t)
    BY <1>0, <1>9, <2>1, <2>4 DEF Judge, Result, Arrive, Goto, OnItsWay
  <2> QED
    BY <2>2, <2>3, <2>4
<1>10. CASE Fence(t)
  BY <1>0, <1>4, <1>10 DEF Fence, Goto, OnItsWay
<1>11. CASE Unlink(t)
  BY <1>0, <1>3, <1>11 DEF Unlink, Arrive, Goto, OnItsWay
<1>12. CASE NothingToDo(t)
  BY <1>12
<1>13. CASE Palloc(t)
  BY <1>0, <1>13 DEF Palloc, Goto, OnItsWay
<1>14. CASE Link(t)
  BY <1>3, <1>14 DEF Link, Takes
<1>15. CASE Mark(t)
  BY <1>3, <1>15 DEF Mark, Takes
<1> QED
  BY <1>5, <1>6, <1>7, <1>8, <1>9, <1>10, <1>11, <1>12, <1>13, <1>14, <1>15 DEF Thread

LEMMA StartCalled ==
    ASSUME NEW t \in Threads, Start(t)
    PROVE  Called(t)
<1>1. pc' = [pc EXCEPT ![t] = "next"] \/ pc' = [pc EXCEPT ![t] = "absent"]
  BY DEF Start, Arrive, Goto
<1>2. /\ \E o \in {"insert", "delete", "search"} : op' = [op EXCEPT ![t] = o]
      /\ \E k \in Keys : arg' = [arg EXCEPT ![t] = k]
      /\ pc[t] = "idle"
  BY DEF Start
<1> QED
  BY <1>1, <1>2 DEF Called

\* Whoever has been called is called with a key, which is kept until the return.
LEMMA NextAsked ==
    ASSUME ListInv, Asked, [Next]_vars
    PROVE  Asked'
<1> DEFINE Call(u) == pc[u] # "idle" => op[u] \in {"insert", "delete", "search"} /\ arg[u] \in Keys
           Find(u) == pc[u] = "found" => op[u] # "delete"
<1>0. /\ Types /\ \A u \in Threads : Call(u) /\ Find(u)
      /\ pc \in [Threads -> Labels] /\ op \in [Threads -> Calls] /\ arg \in [Threads -> Keys \cup {0}]
  BY DEF ListInv, Types, LocalTypes, Asked, AskedOf
<1>1. CASE UNCHANGED vars
  <2>1. UNCHANGED <<to, del, key, pc, op, arg, saw>>
    BY <1>1 DEF vars, heap
  <2>2. Present' = Present
    BY <2>1 DEF Present, InList, From
  <2> QED
    BY <2>1, <2>2 DEF Asked, AskedOf
<1>2. CASE Next
  <2>1. Witness
    BY <1>2 DEF Next
  <2>2. ASSUME NEW t \in Threads, Start(t) PROVE \A u \in Threads : Call(u)' /\ Find(u)'
    <3>1. Called(t)
      BY <2>2, StartCalled
    <3> QED
      BY <1>0, <3>1 DEF Called
  <2>3. ASSUME NEW t \in Threads, Thread(t) PROVE \A u \in Threads : Call(u)' /\ Find(u)'
    <3>1. Returned(t) \/ OnItsWay(t) \/ UNCHANGED <<op, arg, pc>>
      BY <1>0, <2>3, Turns
    <3>2. CASE Returned(t)
      BY <1>0, <3>2 DEF Returned
    <3>3. CASE OnItsWay(t)
      <4>1. op' = op /\ arg' = arg /\ Call(t)' /\ Find(t)'
        BY <1>0, <3>3 DEF OnItsWay
      <4>2. \A u \in Threads \ {t} : pc'[u] = pc[u]
        BY <3>3 DEF OnItsWay
      <4> QED
        BY <1>0, <4>1, <4>2
    <3>4. CASE UNCHANGED <<op, arg, pc>>
      BY <1>0, <3>4
    <3> QED
      BY <3>1, <3>2, <3>3, <3>4
  <2>4. ASSUME Begin \/ Sweep PROVE \A u \in Threads : Call(u)' /\ Find(u)'
    <3>1. op' = op /\ arg' = arg /\ \A u \in Threads : pc'[u] = pc[u] \/ (pc[u] = "help" /\ pc'[u] = "restart")
      BY <1>0, <2>4 DEF Begin, Sweep
    <3> QED
      BY <1>0, <3>1
  <2>5. \A u \in Threads : Call(u)' /\ Find(u)'
    BY <1>2, <2>2, <2>3, <2>4 DEF Next
  <2>6. \A u \in Threads : IF pc'[u] = "idle" THEN saw'[u] = {} ELSE (arg'[u] \in Present') \in saw'[u]
    BY <2>1 DEF Witness
  <2> QED
    BY <2>5, <2>6 DEF Asked, AskedOf
<1> QED
  BY <1>1, <1>2

\* No step writes the key of an entry that somebody holds.
LEMMA KeysKept ==
    ASSUME ListInv, NEW t \in Threads, Start(t) \/ Thread(t), NEW u \in Threads, NEW x \in Holds(u) \ {Root}
    PROVE  key'[x] = key[x]
<1> USE DEF ListInv
<1>0. key \in [Nodes -> Keys \cup {0}] /\ x \in Nodes /\ x \notin free
  BY HoldsCells DEF Types, HeapTypes, Safe, Cells
<1>1. CASE Fence(t)
  <2>1. CASE Dirty(t) \/ ~ (op[t] = "insert" /\ ~ nd[t])
    BY <1>1, <2>1 DEF Fence, FillIn
  <2>2. CASE ~ Dirty(t) /\ op[t] = "insert" /\ ~ nd[t]
    <3>1. key' = [key EXCEPT ![new[t]] = arg[t]] /\ pc[t] = "fence"
      BY <1>1, <2>2 DEF Fence, FillIn
    <3>2. Owns(t)
      BY <2>2, <3>1, NotDirty DEF Owns, Types, Control, Inserts
    <3>3. new[t] # x
      BY <3>2 DEF Private
    <3> QED
      BY <1>0, <3>1, <3>3
  <2> QED
    BY <2>1, <2>2
<1>2. CASE Palloc(t)
  <2>1. PICK n \in free : key' = key \/ key' = [key EXCEPT ![n] = 0]
    BY <1>2 DEF Palloc
  <2> QED
    BY <1>0, <2>1
<1>3. CASE Start(t) \/ Stamp(t) \/ Save(t) \/ Restart(t) \/ ReadHead(t) \/ ReadNext(t) \/ Judge(t)
  BY <1>3 DEF Start, Stamp, Save, Restart, ReadHead, ReadNext, Judge, heap
<1>4. CASE Unlink(t) \/ NothingToDo(t) \/ Link(t) \/ Mark(t)
  BY <1>4 DEF Unlink, NothingToDo, Link, Mark, heap
<1> QED
  BY <1>1, <1>2, <1>3, <1>4 DEF Thread

\* What t does leaves the others where they stand.
LEMMA OthersStand ==
    ASSUME Types, NEW t \in Threads, Start(t) \/ Thread(t), NEW u \in Threads \ {t}
    PROVE  cur'[u] = cur[u] /\ nd'[u] = nd[u] /\ dirty'[u] = dirty[u]
<1> USE DEF Types, LocalTypes
<1>1. CASE Start(t) \/ Restart(t) \/ ReadHead(t)
  BY <1>1 DEF Start, Restart, ReadHead, Arrive, find
<1>2. CASE Stamp(t) \/ Save(t)
  BY <1>2 DEF Stamp, Save, find
<1>3. CASE ReadNext(t)
  BY <1>3 DEF ReadNext, GiveUp, Again, Drop
<1>4. CASE Judge(t)
  BY <1>4 DEF Judge, GiveUp, Again, Drop, Arrive, find
<1>5. CASE Fence(t)
  BY <1>5 DEF Fence, GiveUp, Again, Drop, find
<1>6. CASE Unlink(t)
  BY <1>6 DEF Unlink, Again, Drop, Arrive
<1>7. CASE NothingToDo(t) \/ Palloc(t)
  BY <1>7 DEF NothingToDo, Palloc, Return, Drop, find
<1>8. CASE Link(t) \/ Mark(t)
  BY <1>8 DEF Link, Mark, Return, Again, Drop
<1> QED
  BY <1>1, <1>2, <1>3, <1>4, <1>5, <1>6, <1>7, <1>8 DEF Thread

\* A delete marks no entry but the one with its key: it has seen the key while
\* it was not dirty, and nobody hands the entry out again before the CAS.
LEMMA NextChosen ==
    ASSUME ListInv, Chosen, [Next]_vars
    PROVE  Chosen'
<1>0. Types /\ dirty \in [Threads -> BOOLEAN] /\ cur \in [Threads -> Pointers] /\ pc \in [Threads -> Labels]
  BY DEF ListInv, Types, LocalTypes
<1>1. ASSUME NEW u \in Threads, Marks(u)' => Marks(u), arg'[u] = arg[u], cur'[u] = cur[u],
             \A x \in Holds(u) \ {Root} : key'[x] = key[x]
      PROVE  ChosenOf(u)'
  <2>1. Marks(u) => cur[u] \in Holds(u) \ {Root}
    BY <1>0, OptimisticListAssumption DEF Pointers, Marks, Types, Control, Holds, Reads
  <2> QED
    BY <1>1, <2>1 DEF Chosen, ChosenOf
<1>2. CASE UNCHANGED vars
  BY <1>1, <1>2 DEF vars, heap, find, Marks, Undirty, Chosen
<1>3. CASE Begin \/ Sweep
  <2>1. /\ UNCHANGED <<key, dirty, op, arg, cur, nd>>
        /\ \A u \in Threads : pc'[u] = pc[u] \/ (pc[u] = "help" /\ pc'[u] = "restart")
    BY <1>0, <1>3 DEF Begin, Sweep, find
  <2> QED
    BY <1>1, <2>1 DEF Marks, Undirty, Chosen
<1>4. ASSUME NEW t \in Threads, Start(t) \/ Thread(t) PROVE Chosen'
  <2>1. ASSUME NEW u \in Threads \ {t} PROVE ChosenOf(u)'
    <3>1. pc'[u] = pc[u] /\ op'[u] = op[u] /\ arg'[u] = arg[u]
      <4>1. Called(t) \/ Returned(t) \/ OnItsWay(t) \/ UNCHANGED <<op, arg, pc>>
        BY <1>0, <1>4, StartCalled, Turns
      <4>2. op \in [Threads -> Calls] /\ arg \in [Threads -> Keys \cup {0}]
        BY <1>0 DEF Types, LocalTypes
      <4> QED
        BY <1>0, <4>1, <4>2 DEF Called, Returned, OnItsWay
    <3>2. cur'[u] = cur[u] /\ nd'[u] = nd[u] /\ dirty'[u] = dirty[u]
      BY <1>0, <1>4, OthersStand
    <3>3. Marks(u)' => Marks(u)
      BY <3>1, <3>2 DEF Marks, Undirty
    <3> QED
      BY <1>1, <1>4, <3>1, <3>2, <3>3, KeysKept
  <2>2. ChosenOf(t)'
    <3>0. ASSUME pc'[t] \notin {"fence", "cas"} PROVE ChosenOf(t)'
      BY <3>0 DEF ChosenOf, Marks
    <3>1. CASE Start(t) \/ Restart(t) \/ ReadHead(t)
      BY <1>0, <3>0, <3>1 DEF Start, Restart, ReadHead, Arrive, Goto
    <3>2. CASE Stamp(t) \/ Save(t)
      <4>1. UNCHANGED <<key, op, arg, cur, nd, pc>> /\ (dirty' = dirty \/ dirty' = [dirty EXCEPT ![t] = TRUE])
        BY <3>2 DEF Stamp, Save, find, heap
      <4> QED
        BY <1>0, <1>1, <4>1 DEF Marks, Undirty
    <3>3. ASSUME GiveUp(t) PROVE ChosenOf(t)'
      BY <1>0, <3>0, <3>3 DEF GiveUp, Again, Goto
    <3>4. ASSUME NEW l \in {"start", "idle"}, Goto(t, l) PROVE ChosenOf(t)'
      BY <1>0, <3>0, <3>4 DEF Goto
    <3>5. CASE ReadNext(t)
      <4>1. CASE Dirty(t)
        BY <3>3, <3>5, <4>1 DEF ReadNext
      <4>2. CASE ~ Dirty(t)
        <5>1. nd'[t] = del[cur[t]] /\ pc'[t] = IF del[cur[t]] THEN "fence" ELSE "judge"
          BY <1>0, <3>5, <4>2 DEF ReadNext, Goto, Types, LocalTypes
        <5> QED
          BY <5>1 DEF ChosenOf, Marks
      <4> QED
        BY <4>1, <4>2
    <3>6. CASE Judge(t)
      <4>1. CASE Dirty(t)
        BY <3>3, <3>6, <4>1 DEF Judge
      <4>2. CASE ~ Dirty(t) /\ ~ PrevIntact(t)
        BY <3>4, <3>6, <4>2 DEF Judge, Again
      <4>3. CASE ~ Dirty(t) /\ PrevIntact(t) /\ key[cur[t]] >= arg[t]
        <5>1. /\ Goto(t, Result(t, key[cur[t]] = arg[t]))
              /\ UNCHANGED <<key, cur, op, arg>>
          BY <3>6, <4>3 DEF Judge, find, heap
        <5>2. pc'[t] = Result(t, key[cur[t]] = arg[t])
          BY <1>0, <5>1 DEF Goto
        <5>3. pc'[t] \in {"fence", "cas"} => key[cur[t]] = arg[t]
          BY <5>2 DEF Result
        <5> QED
          BY <5>1, <5>3 DEF ChosenOf, Marks
      <4>4. CASE ~ Dirty(t) /\ PrevIntact(t) /\ ~ (key[cur[t]] >= arg[t])
        BY <1>0, <3>0, <3>6, <4>4 DEF Judge, Arrive, Goto
      <4> QED
        BY <4>1, <4>2, <4>3, <4>4
    <3>7. CASE Fence(t)
      <4>1. CASE Dirty(t)
        BY <3>3, <3>7, <4>1 DEF Fence
      <4>2. CASE ~ Dirty(t)
        <5>1. pc[t] = "fence" /\ UNCHANGED <<op, arg, cur, nd>>
          BY <3>7, <4>2 DEF Fence, find
        <5>2. t \in Undirty
          BY <4>2, NotDirty
        <5> QED
          BY <1>1, <1>4, <5>1, <5>2, KeysKept DEF Marks
      <4> QED
        BY <4>1, <4>2
    <3>8. CASE Unlink(t)
      BY <1>0, <3>0, <3>8 DEF Unlink, Again, Arrive, Goto
    <3>9. CASE NothingToDo(t)
      BY <3>4, <3>9 DEF NothingToDo, Return
    <3>10. CASE Palloc(t)
      BY <3>10 DEF Palloc, ChosenOf, Marks
    <3>11. CASE Link(t) \/ Mark(t)
      BY <3>4, <3>11 DEF Link, Mark, Return, Again
    <3> QED
      BY <1>4, <3>1, <3>2, <3>5, <3>6, <3>7, <3>8, <3>9, <3>10, <3>11 DEF Thread
  <2> QED
    BY <2>1, <2>2 DEF Chosen
<1> QED
  BY <1>2, <1>3, <1>4 DEF Next

\* What is written outside the list changes nothing of the set.
LEMMA OutsidePresent ==
    ASSUME Types, NEW W, W \cap Line = {},
           DOMAIN to' = Cells, \A x \in Cells \ W : to'[x] = to[x] /\ del'[x] = del[x],
           \A x \in Nodes \ W : key'[x] = key[x]
    PROVE  Present' = Present
<1> DEFINE R0 == {Root}
<1>1. Line = Reach(to, R0) /\ Line' = Reach(to', R0) /\ DOMAIN to = Cells /\ Line \subseteq Cells
  BY SharedFacts DEF Line, From
<1> HIDE DEF R0
<1>2. Line' = Line
  BY <1>1, ReachOutside
<1>3. \A x \in Line \ {Root} : x \in Nodes \ W /\ x \in Cells \ W
  BY <1>1 DEF Cells
<1> QED
  BY <1>2, <1>3, PresentIs

\* No key is twice in the list.
LEMMA KeyOnce ==
    ASSUME Types, Sorted, NEW n \in Line \ {Root}, NEW m \in Line \ {Root}, key[n] = key[m]
    PROVE  n = m
<1>1. n \in Nodes /\ m \in Nodes /\ (to[m] # Null => to[m] \in Nodes)
  BY SharedFacts DEF Cells, Types, HeapTypes, Pointers
<1>2. to[m] # Null => key[m] < key[to[m]]
  BY DEF Sorted
<1> QED
  BY <1>1, <1>2, Position, KeyInts

\* L!See is Witness, and a step that changes neither the set nor what is still
\* to do sees nothing new.
LEMMA Sees ==
    ASSUME Witness, Asked', saw \in [Threads -> SUBSET BOOLEAN]
    PROVE  /\ L!See
           /\ Asked /\ Present' = Present /\ Doing' = Doing => saw' = saw
<1>1. \A u \in Threads : pc'[u] = "idle" => Doing'[u] = <<"none", 0>>
  BY DEF Doing
<1>2. \A u \in Threads : pc'[u] # "idle" => Doing'[u] # <<"none", 0>> /\ Doing'[u][2] = arg'[u]
  BY DEF Doing, Asked, AskedOf
<1>3. L!See
  BY <1>1, <1>2 DEF L!See, L!Nothing, Witness
<1>4. ASSUME Asked, Present' = Present, Doing' = Doing PROVE saw' = saw
  <2>1. \A u \in Threads : pc[u] = "idle" => Doing[u] = <<"none", 0>>
    BY DEF Doing
  <2>2. \A u \in Threads : pc[u] # "idle" => Doing[u] # <<"none", 0>> /\ Doing[u][2] = arg[u]
    BY <1>4 DEF Doing, Asked, AskedOf
  <2>3. \A u \in Threads : IF pc[u] = "idle" THEN pc'[u] = "idle" ELSE pc'[u] # "idle" /\ arg'[u] = arg[u]
    BY <1>1, <1>2, <1>4, <2>1, <2>2
  <2>4. \A u \in Threads : IF pc[u] = "idle" THEN saw[u] = {} ELSE (arg[u] \in Present) \in saw[u]
    BY <1>4 DEF Asked, AskedOf
  <2>5. \A u \in Threads : saw'[u] = IF pc'[u] = "idle" THEN {} ELSE saw[u] \cup {arg'[u] \in Present'}
    BY DEF Witness
  <2>6. ASSUME NEW u \in Threads PROVE saw'[u] = saw[u]
    <3> DEFINE present == (arg[u] \in Present)
    <3>1. pc[u] # "idle" => present \in saw[u] /\ saw'[u] = saw[u] \cup {present}
      BY <1>4, <2>3, <2>4, <2>5
    <3> HIDE DEF present
    <3>2. pc[u] = "idle" => saw'[u] = saw[u]
      BY <2>3, <2>4, <2>5
    <3> QED
      BY <3>1, <3>2
  <2>7. DOMAIN saw' = Threads /\ saw' = [u \in DOMAIN saw' |-> saw'[u]]
    BY DEF Witness
  <2> QED
    BY <2>6, <2>7
<1> QED
  BY <1>3, <1>4

\* A step of t changes what t has still to do, and nobody else's.
LEMMA DoingOf ==
    ASSUME NEW t \in Threads, \A u \in Threads \ {t} : pc'[u] = pc[u] /\ op'[u] = op[u] /\ arg'[u] = arg[u]
    PROVE  Doing' = [Doing EXCEPT ![t] = Doing'[t]]
<1>1. \A u \in Threads \ {t} : Doing'[u] = Doing[u]
  BY DEF Doing
<1>2. Doing = [u \in Threads |-> Doing[u]] /\ Doing' = [u \in Threads |-> Doing'[u]]
  BY DEF Doing
<1> QED
  BY <1>1, <1>2

\* A search has its answer when it has found the place of its key; whatever
\* else a thread does on its way is nothing to the set.
LEMMA WayStep ==
    ASSUME Types, Asked, Seen', NEW t \in Threads, OnItsWay(t), Present' = Present
    PROVE  Doing' = Doing \/ L!Answer(t)
<1>1. Doing' = [Doing EXCEPT ![t] = Doing'[t]]
  BY DoingOf DEF OnItsWay
<1>2. CASE op[t] = "search" /\ pc'[t] \in {"found", "absent"}
  <2>1. Doing[t] = <<"search", arg[t]>> /\ Doing'[t] = <<pc'[t], arg[t]>> /\ arg[t] \in Keys
    BY <1>2 DEF OnItsWay, Doing, Asked, AskedOf
  <2>2. PICK found \in BOOLEAN : found \in saw'[t] /\ pc'[t] = IF found THEN "found" ELSE "absent"
    BY <1>2 DEF Seen, SeenOf
  <2> QED
    BY <1>1, <2>1, <2>2 DEF L!Answer, L!Answered, L!Becomes
<1>3. CASE ~ (op[t] = "search" /\ pc'[t] \in {"found", "absent"})
  <2>1. Doing'[t] = Doing[t]
    BY <1>3 DEF OnItsWay, Doing
  <2>2. Doing = [u \in Threads |-> Doing[u]]
    BY DEF Doing
  <2> QED
    BY <1>1, <2>1, <2>2
<1> QED
  BY <1>2, <1>3

\* The steps that change the set are the CASes of Link and Mark that succeed.
LEMMA PresentKept ==
    ASSUME ListInv, NEW t \in Threads, Start(t) \/ Thread(t), ~ Takes(t)
    PROVE  Present' = Present
<1> USE DEF ListInv
<1>1. ASSUME UNCHANGED <<to, del, key>> PROVE Present' = Present
  BY <1>1 DEF Present, InList, From
<1>2. CASE Start(t)
  BY <1>1, <1>2 DEF Start, heap
<1>3. CASE Stamp(t) \/ Save(t) \/ Restart(t) \/ ReadHead(t) \/ ReadNext(t) \/ Judge(t) \/ NothingToDo(t)
  BY <1>1, <1>3 DEF Stamp, Save, Restart, ReadHead, ReadNext, Judge, NothingToDo, heap
<1>4. CASE Fence(t)
  <2>1. CASE Dirty(t) \/ ~ (op[t] = "insert" /\ ~ nd[t])
    BY <1>1, <1>4, <2>1 DEF Fence, FillIn
  <2>2. CASE ~ Dirty(t) /\ op[t] = "insert" /\ ~ nd[t]
    <3>1. /\ key' = [key EXCEPT ![new[t]] = arg[t]] /\ to' = [to EXCEPT ![new[t]] = cur[t]]
          /\ del' = [del EXCEPT ![new[t]] = FALSE] /\ pc[t] = "fence"
      BY <1>4, <2>2 DEF Fence, FillIn
    <3>2. Owns(t)
      BY <2>2, <3>1, NotDirty DEF Owns, Types, Control, Inserts
    <3>3. new[t] \notin Line
      BY <3>2, SharedFacts DEF Private
    <3> DEFINE W == {new[t]}
    <3>4. /\ W \cap Line = {} /\ DOMAIN to' = Cells
          /\ \A x \in Cells \ W : to'[x] = to[x] /\ del'[x] = del[x]
          /\ \A x \in Nodes \ W : key'[x] = key[x]
      BY <3>1, <3>3 DEF Types, HeapTypes
    <3> HIDE DEF W
    <3> QED
      BY <3>4, OutsidePresent
  <2> QED
    BY <2>1, <2>2
<1>5. CASE Palloc(t)
  <2>1. PICK n \in free :
          \/ UNCHANGED <<key, to, del>>
          \/ key' = [key EXCEPT ![n] = 0] /\ to' = [to EXCEPT ![n] = Null] /\ del' = [del EXCEPT ![n] = FALSE]
    BY <1>5 DEF Palloc
  <2> DEFINE W == {n}
  <2>2. /\ W \cap Line = {} /\ DOMAIN to' = Cells
        /\ \A x \in Cells \ W : to'[x] = to[x] /\ del'[x] = del[x]
        /\ \A x \in Nodes \ W : key'[x] = key[x]
    BY <2>1, SharedFacts DEF Safe, Types, HeapTypes
  <2> HIDE DEF W
  <2> QED
    BY <2>2, OutsidePresent
<1>6. CASE Unlink(t)
  <2>1. CASE ~ PrevIntact(t)
    BY <1>1, <1>6, <2>1 DEF Unlink
  <2>2. CASE PrevIntact(t)
    <3>1. Line' = Line \ {cur[t]} /\ del[cur[t]] /\ key' = key /\ del' = del
      BY <1>6, <2>2, UnlinkEffect DEF Unlink
    <3> QED
      BY <3>1, PresentIs
  <2> QED
    BY <2>1, <2>2
<1>7. CASE Link(t) \/ Mark(t)
  BY <1>1, <1>7 DEF Link, Mark, Takes
<1> QED
  BY <1>2, <1>3, <1>4, <1>5, <1>6, <1>7 DEF Thread

\* Link adds the key that the insert was called with,
LEMMA LinkAdds ==
    ASSUME ListInv, Asked, NEW t \in Threads, Link(t), PrevIntact(t)
    PROVE  arg[t] \in Keys \ Present /\ Present' = Present \cup {arg[t]}
<1> USE DEF ListInv
<1>1. /\ prev[t] \in Line /\ to[prev[t]] = cur[t] /\ new[t] \in Nodes
      /\ ~ del[new[t]] /\ key[new[t]] = arg[t]
      /\ prev[t] # Root => key[prev[t]] < arg[t]
      /\ cur[t] # Null => arg[t] < key[cur[t]]
      /\ Line' = Line \cup {new[t]} /\ key' = key /\ del' = del
  BY LinkEffect DEF Link
<1>2. arg[t] \in Int
  BY KeyInts
<1>3. arg[t] \notin Present
  BY <1>1, <1>2, Gap DEF InOrder
<1>4. arg[t] \in Keys
  BY DEF Link, Asked, AskedOf
<1>5. Present' = Present \cup {arg[t]}
  BY <1>1, PresentIs, OptimisticListAssumption
<1> QED
  BY <1>3, <1>4, <1>5

\* and Mark takes away the key that the delete was called with.
LEMMA MarkTakes ==
    ASSUME ListInv, Asked, Chosen, NEW t \in Threads, Mark(t), to[cur[t]] = nxt[t], ~ del[cur[t]]
    PROVE  arg[t] \in Keys /\ arg[t] \in Present /\ Present' = Present \ {arg[t]}
<1> USE DEF ListInv
<1>1. cur[t] \in Line \ {Root} /\ cur[t] \in Nodes /\ Line' = Line
  BY MarkEffect
<1>2. del' = [del EXCEPT ![cur[t]] = TRUE] /\ key' = key /\ del \in [Cells -> BOOLEAN] /\ Line \subseteq Cells
  BY SharedFacts DEF Mark, Types, HeapTypes
<1>3. key[cur[t]] = arg[t] /\ arg[t] \in Keys
  BY DEF Mark, Chosen, ChosenOf, Marks, Asked, AskedOf
<1>4. arg[t] \in Present
  BY <1>1, <1>3, PresentIs
<1>5. \A n \in Line \ {Root} : ~ del'[n] <=> ~ del[n] /\ n # cur[t]
  BY <1>1, <1>2
<1>6. \A n \in Line \ {Root} : key[n] = key[cur[t]] => n = cur[t]
  BY <1>1, KeyOnce DEF InOrder
<1> QED
  BY <1>1, <1>2, <1>3, <1>4, <1>5, <1>6, PresentIs

\* Every step is one of the set, or nothing to it.
LEMMA SetStep ==
    ASSUME ListInv, Asked, Chosen, [Next]_vars, ListInv', Asked'
    PROVE  [L!Next]_<<Present, Doing, saw>>
<1> USE DEF ListInv
<1>0. /\ pc \in [Threads -> Labels] /\ op \in [Threads -> Calls] /\ arg \in [Threads -> Keys \cup {0}]
      /\ saw \in [Threads -> SUBSET BOOLEAN]
  BY DEF Types, LocalTypes
<1>1. CASE UNCHANGED vars
  <2>1. UNCHANGED <<to, del, key, pc, op, arg, saw>>
    BY <1>1 DEF vars, heap
  <2> QED
    BY <2>1 DEF Present, InList, From, Doing
<1>2. CASE Next
  <2>1. L!See /\ (Present' = Present /\ Doing' = Doing => saw' = saw)
    BY <1>0, <1>2, Sees DEF Next
  <2> SUFFICES \/ Present' = Present /\ Doing' = Doing
               \/ \E t \in Threads : L!Request(t) \/ L!Insert(t) \/ L!Delete(t) \/ L!Answer(t) \/ L!Return(t)
    BY <2>1 DEF L!Next
  <2>2. CASE Begin \/ Sweep
    <3>1. UNCHANGED <<to, del, key, op, arg>>
      BY <2>2 DEF Begin, Sweep
    <3>2. \A u \in Threads : pc'[u] = pc[u] \/ (pc[u] = "help" /\ pc'[u] = "restart")
      BY <1>0, <2>2 DEF Begin, Sweep
    <3>3. Present' = Present
      BY <3>1 DEF Present, InList, From
    <3>4. Doing' = Doing
      BY <3>1, <3>2 DEF Doing
    <3> QED
      BY <3>3, <3>4
  <2>3. ASSUME NEW t \in Threads, Start(t) PROVE L!Request(t)
    <3>1. Called(t) /\ ~ Takes(t)
      BY <2>3, StartCalled DEF Start, Takes, Link, Mark
    <3>2. PICK o \in {"insert", "delete", "search"}, k \in Keys :
            /\ op' = [op EXCEPT ![t] = o] /\ arg' = [arg EXCEPT ![t] = k] /\ pc[t] = "idle"
            /\ pc' = [pc EXCEPT ![t] = "next"] \/ pc' = [pc EXCEPT ![t] = "absent"]
      BY <3>1 DEF Called
    <3>3. Present' = Present
      BY <2>3, <3>1, PresentKept
    <3>4. Doing' = [Doing EXCEPT ![t] = Doing'[t]]
      BY <1>0, <3>2, DoingOf
    <3>5. Doing[t] = <<"none", 0>>
      BY <3>2 DEF Doing
    <3>6. op'[t] = o /\ arg'[t] = k /\ pc'[t] \in {"next", "absent"}
      BY <1>0, <3>2
    <3>7. CASE o = "search" /\ pc'[t] = "absent"
      <4>1. Doing'[t] = <<"absent", k>>
        BY <3>6, <3>7 DEF Doing
      <4>2. FALSE \in saw'[t]
        BY <3>7 DEF Seen, SeenOf
      <4> QED
        BY <3>3, <3>4, <3>5, <4>1, <4>2 DEF L!Request, L!Answered, L!Becomes, L!Nothing
    <3>8. CASE ~ (o = "search" /\ pc'[t] = "absent")
      <4>1. Doing'[t] = <<o, k>>
        BY <3>6, <3>8 DEF Doing
      <4> QED
        BY <3>3, <3>4, <3>5, <4>1 DEF L!Request, L!Operations, L!Becomes, L!Nothing
    <3> QED
      BY <3>7, <3>8
  <2>4. ASSUME NEW t \in Threads, Thread(t)
        PROVE  \/ Present' = Present /\ Doing' = Doing
               \/ L!Insert(t) \/ L!Delete(t) \/ L!Answer(t) \/ L!Return(t)
    <3>1. ASSUME Returned(t)
          PROVE  Doing' = [Doing EXCEPT ![t] = <<"none", 0>>]
      <4>1. Doing' = [Doing EXCEPT ![t] = Doing'[t]] /\ pc'[t] = "idle"
        BY <1>0, <3>1, DoingOf DEF Returned
      <4>2. Doing'[t] = <<"none", 0>>
        BY <4>1 DEF Doing
      <4> QED
        BY <4>1, <4>2
    <3>2. CASE Link(t) /\ PrevIntact(t)
      <4>1. arg[t] \in Keys \ Present /\ Present' = Present \cup {arg[t]}
        BY <3>2, LinkAdds
      <4>2. Doing[t] = <<"insert", arg[t]>>
        BY <3>2 DEF Doing, Link
      <4>3. Doing' = [Doing EXCEPT ![t] = <<"none", 0>>]
        BY <2>4, <3>1, <3>2, Turns DEF Takes
      <4> QED
        BY <4>1, <4>2, <4>3 DEF L!Insert, L!Becomes, L!Nothing
    <3>3. CASE Mark(t) /\ to[cur[t]] = nxt[t] /\ ~ del[cur[t]]
      <4>1. arg[t] \in Present /\ Present' = Present \ {arg[t]}
        BY <3>3, MarkTakes
      <4>2. Doing[t] = <<"delete", arg[t]>>
        BY <3>3 DEF Doing, Mark
      <4>3. Doing' = [Doing EXCEPT ![t] = <<"none", 0>>]
        BY <2>4, <3>1, <3>3, Turns DEF Takes
      <4> QED
        BY <4>1, <4>2, <4>3 DEF L!Delete, L!Becomes, L!Nothing
    <3>4. CASE NothingToDo(t) /\ ~ Takes(t)
      <4>1. Present' = Present /\ Doing' = [Doing EXCEPT ![t] = <<"none", 0>>]
        BY <2>4, <3>1, <3>4, Turns, PresentKept
      <4>2. /\ op[t] \in {"insert", "delete", "search"} /\ arg[t] \in Keys
            /\ \/ pc[t] = "found" /\ op[t] # "delete" /\ TRUE \in saw[t]
               \/ pc[t] = "absent" /\ op[t] # "insert" /\ FALSE \in saw[t]
        BY <3>4 DEF NothingToDo, Asked, AskedOf, Seen, SeenOf
      <4>3. \/ Doing[t] = <<"insert", arg[t]>> /\ TRUE \in saw[t]
            \/ Doing[t] = <<"delete", arg[t]>> /\ FALSE \in saw[t]
            \/ Doing[t] \in {<<"found", arg[t]>>, <<"absent", arg[t]>>}
        BY <4>2 DEF Doing
      <4> QED
        BY <4>1, <4>2, <4>3 DEF L!Return, L!Becomes, L!Nothing
    <3>5. CASE OnItsWay(t) /\ ~ Takes(t)
      BY <2>4, <3>5, PresentKept, WayStep
    <3>6. CASE UNCHANGED <<op, arg, pc>> /\ ~ Takes(t)
      <4>1. Present' = Present
        BY <2>4, <3>6, PresentKept
      <4>2. Doing' = Doing
        BY <3>6 DEF Doing
      <4> QED
        BY <4>1, <4>2
    <3>7. Takes(t) \/ NothingToDo(t) \/ OnItsWay(t) \/ UNCHANGED <<op, arg, pc>>
      BY <2>4, Turns
    <3> QED
      BY <3>2, <3>3, <3>4, <3>5, <3>6, <3>7 DEF Takes
  <2> QED
    BY <1>2, <2>2, <2>3, <2>4 DEF Next
<1> QED
  BY <1>1, <1>2

\* At the start the list holds keys only.
LEMMA InitSet == Init => L!Init
<1> SUFFICES ASSUME Init PROVE L!Init
  OBVIOUS
<1>1. ListInv
  BY InitListInv
<1>2. PICK b \in Bounds : Initially(b.list)
  BY DEF Init
<1> DEFINE list == b.list
           linked == {list[i] : i \in DOMAIN list}
<1>3. /\ DOMAIN list \subseteq Keys
      /\ free = Nodes \ linked
      /\ key = [n \in Nodes |-> IF n \in linked THEN CHOOSE i \in DOMAIN list : list[i] = n ELSE 0]
  BY <1>2, OptimisticListAssumption DEF Initially
<1>4. \A n \in Line \ {Root} : n \in Nodes /\ n \in linked
  BY <1>1, <1>3, SharedFacts DEF ListInv, Safe, Cells
<1>5. \A n \in linked : (CHOOSE i \in DOMAIN list : list[i] = n) \in DOMAIN list
  OBVIOUS
<1>6. \A n \in Line \ {Root} : key[n] \in Keys
  BY <1>3, <1>4, <1>5
<1>7. Doing = [t \in Threads |-> <<"none", 0>>] /\ saw = [t \in Threads |-> {}]
  BY DEF Init, Doing
<1> QED
  BY <1>6, <1>7, PresentIs DEF L!Init, L!Nothing

\* The three versions of the list implement one specification, whatever
\* reclaims the memory: a set of keys to which every insert adds the key it was
\* called with, and from which every delete takes its key away, at one moment
\* between the call and the return; what returns without having changed the set
\* says what was true at some moment between the two.
THEOREM ListIsSet ==
    ASSUME ~ Overlap
    PROVE  Spec => SetSpec
<1>1. ListInv /\ Asked /\ Chosen /\ [Next]_vars => Asked' /\ Chosen'
  BY NextAsked, NextChosen
<1>2. Spec => []ListInv /\ [](Asked /\ Chosen)
  <2>1. Spec => []ListInv
    BY ListInvariant
  <2> QED
    BY <1>1, <2>1, InitAsked, PTL DEF Spec
<1>3. ListInv /\ Asked /\ Chosen /\ [Next]_vars /\ ListInv' /\ Asked' => [L!Next]_<<Present, Doing, saw>>
  BY SetStep
<1> QED
  BY <1>2, <1>3, InitSet, PTL DEF Spec, SetSpec, L!Spec

=============================================================================
