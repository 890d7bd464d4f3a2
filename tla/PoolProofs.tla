----------------------------- MODULE PoolProofs -----------------------------
(***************************************************************************)
(* Theorems about the pool of allocation caches (module Pool), for every   *)
(* number of threads and entries, every pool to start with and every bound *)
(* on versions.                                                            *)
(***************************************************************************)
EXTENDS Pool, ReachabilityProofs, TLAPS

-----------------------------------------------------------------------------
(* Lists in a memory f of which one cell is written.                       *)

\* The tail of a list is part of it.
LEMMA RestOfChain ==
    ASSUME NEW f, NEW p, NEW e \in Reach(f, {p})
    PROVE  Reach(f, {f[e]}) \subseteq Reach(f, {p})
<1>1. {f[e]} \cap DOMAIN f \subseteq Reach(f, {p})
  BY ReachClosed
<1> DEFINE S == {p}
           T == {f[e]}
<1>2. T \cap DOMAIN f \subseteq Reach(f, S)
  BY <1>1
<1> HIDE DEF S, T
<1>3. Reach(f, T) \subseteq Reach(f, S)
  BY <1>2, ReachIdempotent
<1> QED
  BY <1>3 DEF S, T

\* A list without cycles that does not contain the written cell is as it was.
LEMMA WriteElsewhere ==
    ASSUME NEW f, NEW g, DOMAIN g = DOMAIN f,
           NEW x, \A y \in DOMAIN f \ {x} : g[y] = f[y],
           NEW p, x \notin Reach(f, {p}),
           \A e \in Reach(f, {p}) : e \notin Reach(f, {f[e]})
    PROVE  /\ Reach(g, {p}) = Reach(f, {p})
           /\ \A e \in Reach(f, {p}) : g[e] = f[e] /\ e \notin Reach(g, {g[e]})
<1> DEFINE W == {x}
<1>1. \A y \in DOMAIN f \ W : g[y] = f[y]
  OBVIOUS
<1>2. W \cap Reach(f, {p}) = {}
  OBVIOUS
<1>3. ASSUME NEW e \in Reach(f, {p}) PROVE W \cap Reach(f, {f[e]}) = {}
  BY RestOfChain
<1>4. ASSUME NEW e \in Reach(f, {p}) PROVE g[e] = f[e]
  BY ReachClosed
<1> HIDE DEF W
<1>5. Reach(g, {p}) = Reach(f, {p})
  BY <1>1, <1>2, ReachOutside
<1>6. ASSUME NEW e \in Reach(f, {p}) PROVE Reach(g, {f[e]}) = Reach(f, {f[e]})
  <2>1. W \cap Reach(f, {f[e]}) = {}
    BY <1>3
  <2> QED
    BY <2>1, <1>1, ReachOutside
<1> QED
  BY <1>4, <1>5, <1>6

\* A cell put in front of a list that does not contain it makes the list longer by it.
LEMMA Prepend ==
    ASSUME NEW f, NEW g, DOMAIN g = DOMAIN f,
           NEW x \in DOMAIN f, \A y \in DOMAIN f \ {x} : g[y] = f[y],
           x \notin Reach(f, {g[x]}),
           \A e \in Reach(f, {g[x]}) : e \notin Reach(f, {f[e]})
    PROVE  /\ Reach(g, {x}) = {x} \cup Reach(f, {g[x]})
           /\ \A e \in Reach(g, {x}) : e \notin Reach(g, {g[e]})
<1>1. /\ Reach(g, {g[x]}) = Reach(f, {g[x]})
      /\ \A e \in Reach(f, {g[x]}) : g[e] = f[e] /\ e \notin Reach(g, {g[e]})
  <2> DEFINE p == g[x]
  <2>1. x \notin Reach(f, {p}) /\ \A e \in Reach(f, {p}) : e \notin Reach(f, {f[e]})
    OBVIOUS
  <2> HIDE DEF p
  <2>2. /\ Reach(g, {p}) = Reach(f, {p})
        /\ \A e \in Reach(f, {p}) : g[e] = f[e] /\ e \notin Reach(g, {g[e]})
    BY <2>1, WriteElsewhere
  <2> QED
    BY <2>2 DEF p
<1>2. Reach(g, {x}) = {x} \cup Reach(g, {g[x]})
  BY ReachUnfold
<1> QED
  BY <1>1, <1>2

\* Nothing comes after NULL.
LEMMA NullEnds ==
    ASSUME PoolAssumption, NEW f, DOMAIN f = Entries
    PROVE  Reach(f, {Null}) = {}
<1>1. {Null} \cap DOMAIN f = {}
  BY DEF PoolAssumption
<1> DEFINE S == {Null}
<1> HIDE DEF S
<1>2. S \cap DOMAIN f = {} => Reach(f, S) = {}
  BY ReachNothing
<1> QED
  BY <1>1, <1>2 DEF S

-----------------------------------------------------------------------------
(* The initial states.                                                     *)

\* The array and the pool of the start are apart, and the pool has no cycle.
LEMMA InitLists ==
    ASSUME PoolAssumption, Init
    PROVE  Disjoint /\ Lines
<1> DEFINE D == DOMAIN Initial
<1>1. D = 1 .. Len(Initial) /\ Len(Initial) \in Nat /\ \A i \in D : Initial[i] \in Entries
  BY DEF PoolAssumption
<1>2. DOMAIN next = Entries
  BY DEF Init
<1>3. ASSUME NEW i \in D
      PROVE  next[Initial[i]] = IF i + 1 \in D THEN Initial[i + 1] ELSE Null
  BY <1>1 DEF Init, InitialNext, PoolAssumption
<1>4. ASSUME NEW i \in D
      PROVE  Reach(next, {Initial[i]}) \subseteq {Initial[j] : j \in {k \in D : k >= i}}
  <2> DEFINE C == {Initial[j] : j \in {k \in D : k >= i}}
             S == {Initial[i]}
  <2>1. S \cap DOMAIN next \subseteq C
    BY <1>1
  <2>2. ASSUME NEW x \in C \cap DOMAIN next, next[x] \in DOMAIN next PROVE next[x] \in C
    <3>1. PICK j \in D : j >= i /\ x = Initial[j]
      OBVIOUS
    <3>2. j + 1 \in D /\ next[x] = Initial[j + 1]
      BY <3>1, <1>2, <1>3, <2>2 DEF PoolAssumption
    <3> QED
      BY <3>1, <3>2, <1>1
  <2> HIDE DEF C, S
  <2>3. Reach(next, S) \subseteq C
    BY <2>1, <2>2, ReachLeast
  <2> QED
    BY <2>3 DEF C, S
<1>5. Reach(next, {Null}) = {}
  BY <1>2, NullEnds
<1>6. Pooled \subseteq {Initial[i] : i \in D}
  <2>1. Pooled = Reach(next, {IF 1 \in D THEN Initial[1] ELSE Null})
    BY DEF Init, Pooled, Chain
  <2>2. CASE 1 \in D
    BY <2>1, <2>2, <1>4
  <2>3. CASE 1 \notin D
    BY <2>1, <2>3, <1>5
  <2> QED
    BY <2>2, <2>3
<1>7. ASSUME NEW i \in D PROVE Initial[i] \notin Reach(next, {next[Initial[i]]})
  <2>1. CASE i + 1 \in D
    <3>1. Reach(next, {next[Initial[i]]}) \subseteq {Initial[j] : j \in {k \in D : k >= i + 1}}
      BY <2>1, <1>3, <1>4
    <3>2. \A j \in D : j >= i + 1 => Initial[j] # Initial[i]
      BY <1>1 DEF PoolAssumption
    <3> QED
      BY <3>1, <3>2
  <2>2. CASE i + 1 \notin D
    BY <2>2, <1>3, <1>5
  <2> QED
    BY <2>1, <2>2
<1>8. \A t \in Threads : Freed(t) = {} /\ Held(t) = {}
  BY <1>5 DEF Init, Freed, Chain, Held
<1> QED
  BY <1>6, <1>7, <1>8 DEF Init, Disjoint, Lines

\* The invariant holds at the start.
LEMMA InitInv ==
    ASSUME PoolAssumption, Init
    PROVE  PoolInv
<1>1. Types
  <2>1. \A e \in Entries : InitialNext(e) \in Pointers
    BY DEF InitialNext, PoolAssumption, Pointers
  <2>2. head.e \in Pointers
    BY DEF Init, PoolAssumption, Pointers
  <2> QED
    BY <2>1, <2>2 DEF Init, Types, Pointers, PoolAssumption
<1>2. Control
  BY DEF Init, Control, ControlOf, Busy, Sweeping
<1>3. Disjoint /\ Lines
  BY InitLists
<1>4. Pooled \subseteq Entries
  BY <1>1, ReachClosed DEF Types, Pooled, Chain
<1>5. Reach(next, {Null}) = {}
  BY <1>1, NullEnds DEF Types
<1>6. \A t \in Threads : Freed(t) = {} /\ Held(t) = {}
  BY <1>5 DEF Init, Freed, Chain, Held
<1>7. Ages
  BY <1>4, <1>6 DEF Init, Ages
<1>8. Copies
  BY DEF Init, Copies, CopyOf
<1> QED
  BY <1>1, <1>2, <1>3, <1>7, <1>8 DEF PoolInv

-----------------------------------------------------------------------------
(* The steps, by what they do to the lists.                                *)

\* The lists and what is held are entries; NULL leads nowhere.
LEMMA ListFacts ==
    ASSUME PoolAssumption, Types
    PROVE  /\ Pooled \subseteq Entries /\ Reach(next, {Null}) = {}
           /\ \A u \in Threads : Freed(u) \subseteq Entries /\ Held(u) \subseteq Entries
           /\ head.e # Null => head.e \in Pooled /\ Pooled = {head.e} \cup Reach(next, {next[head.e]})
           /\ \A u \in Threads : free[u] # Null =>
                free[u] \in Freed(u) /\ Freed(u) = {free[u]} \cup Reach(next, {next[free[u]]})
<1>1. DOMAIN next = Entries
  BY DEF Types
<1>2. \A p : Reach(next, {p}) \subseteq Entries
  BY <1>1, ReachClosed
<1>3. \A p \in Entries : Reach(next, {p}) = {p} \cup Reach(next, {next[p]})
  BY <1>1, ReachUnfold
<1>4. Reach(next, {Null}) = {}
  BY <1>1, NullEnds
<1>5. Pooled \subseteq Entries /\ \A u \in Threads : Freed(u) \subseteq Entries
  BY <1>2 DEF Pooled, Freed, Chain
<1>6. \A u \in Threads : Held(u) \subseteq Entries
  BY DEF Types, Pointers, Held
<1>7. head.e # Null => head.e \in Pooled /\ Pooled = {head.e} \cup Reach(next, {next[head.e]})
  <2>1. head.e # Null => head.e \in Entries
    BY DEF Types, Pointers
  <2> QED
    BY <2>1, <1>3 DEF Pooled, Chain
<1>8. ASSUME NEW u \in Threads, free[u] # Null
      PROVE  free[u] \in Freed(u) /\ Freed(u) = {free[u]} \cup Reach(next, {next[free[u]]})
  <2>1. free[u] \in Entries
    BY <1>8 DEF Types, Pointers
  <2> QED
    BY <2>1, <1>3 DEF Freed, Chain
<1> QED
  BY <1>4, <1>5, <1>6, <1>7, <1>8

\* Nothing is written: the lists are as they were, and so is what threads have, or
\* less of it.
LEMMA StillStep ==
    ASSUME PoolAssumption, Types, Disjoint, Lines, Ages,
           UNCHANGED <<head, next, unused, free, pushed>>,
           \A u \in Threads : Held(u)' \subseteq Held(u) /\ localVer'[u] \in Int /\ localVer'[u] >= localVer[u],
           \A u \in Threads : Sweeping(u)' => Sweeping(u) \/ localVer'[u] > localVer[u]
    PROVE  Pooled' = Pooled /\ Disjoint' /\ Lines' /\ Ages'
<1>1. Pooled' = Pooled /\ \A u \in Threads : Freed(u)' = Freed(u)
  BY DEF Pooled, Freed, Chain
<1>2. Disjoint'
  BY <1>1 DEF Disjoint
<1>3. Lines'
  BY <1>1 DEF Lines
<1>4. Pooled \subseteq Entries /\ \A u \in Threads : Freed(u) \subseteq Entries /\ Held(u) \subseteq Entries
  BY ListFacts
<1>5. Ages'
  <2>1. (\A e \in Pooled : pushed[e] = head.ver \/ (head.ver = 0 /\ pushed[e] = -1))'
    BY <1>1 DEF Ages
  <2>2. (\A e \in unused : pushed[e] = -1)'
    BY DEF Ages
  <2>3. ASSUME NEW u \in Threads, NEW e \in Held(u)' \cup Freed(u)'
        PROVE  pushed[e] <= localVer'[u] /\ (Sweeping(u)' => pushed[e] < localVer'[u])
    <3>1. e \in Held(u) \cup Freed(u) /\ e \in Entries
      BY <1>1, <1>4, <2>3
    <3>2. pushed[e] <= localVer[u] /\ (Sweeping(u) => pushed[e] < localVer[u])
      BY <3>1 DEF Ages
    <3>3. pushed[e] \in Int /\ localVer[u] \in Int
      BY <3>1 DEF Types
    <3> QED
      BY <3>2, <3>3
  <2> QED
    BY <2>1, <2>2, <2>3 DEF Ages
<1> QED
  BY <1>1, <1>2, <1>3, <1>5

\* A thread writes the entry it has: no list notices.
LEMMA OwnWrite ==
    ASSUME PoolAssumption, Types, Disjoint, Lines,
           NEW t \in Threads, cache[t] # Null,
           NEW v, next' = [next EXCEPT ![cache[t]] = v]
    PROVE  /\ Reach(next', {head.e}) = Pooled
           /\ \A e \in Pooled : e # cache[t] /\ next'[e] = next[e] /\ e \notin Reach(next', {next'[e]})
           /\ \A u \in Threads :
                /\ Reach(next', {free[u]}) = Freed(u)
                /\ \A e \in Freed(u) : e # cache[t] /\ next'[e] = next[e] /\ e \notin Reach(next', {next'[e]})
<1>1. cache[t] \notin Pooled /\ \A u \in Threads : cache[t] \notin Freed(u)
  BY DEF Disjoint, Held
<1>2. DOMAIN next' = DOMAIN next /\ \A y \in DOMAIN next \ {cache[t]} : next'[y] = next[y]
  OBVIOUS
<1> DEFINE g == next'
           x == cache[t]
<1> HIDE DEF g, x
<1>3. DOMAIN g = DOMAIN next /\ \A y \in DOMAIN next \ {x} : g[y] = next[y]
  BY <1>2 DEF g, x
<1>4. ASSUME NEW p, x \notin Reach(next, {p}), \A e \in Reach(next, {p}) : e \notin Reach(next, {next[e]})
      PROVE  /\ Reach(g, {p}) = Reach(next, {p})
             /\ \A e \in Reach(next, {p}) : e # x /\ g[e] = next[e] /\ e \notin Reach(g, {g[e]})
  <2>1. /\ Reach(g, {p}) = Reach(next, {p})
        /\ \A e \in Reach(next, {p}) : g[e] = next[e] /\ e \notin Reach(g, {g[e]})
    BY <1>3, <1>4, WriteElsewhere
  <2> QED
    BY <2>1, <1>4
<1>5. /\ Reach(g, {head.e}) = Pooled
      /\ \A e \in Pooled : e # x /\ g[e] = next[e] /\ e \notin Reach(g, {g[e]})
  BY <1>1, <1>4 DEF x, Lines, Pooled, Chain
<1>6. ASSUME NEW u \in Threads
      PROVE  /\ Reach(g, {free[u]}) = Freed(u)
             /\ \A e \in Freed(u) : e # x /\ g[e] = next[e] /\ e \notin Reach(g, {g[e]})
  BY <1>1, <1>4 DEF x, Lines, Freed, Chain
<1> QED
  BY <1>5, <1>6 DEF g, x

\* freeAllocEntry, when there is a cache to give up: it comes first on the thread's
\* free list, and every other list is as it was.
LEMMA DropStep ==
    ASSUME PoolAssumption, Types, Disjoint, Lines, Ages,
           NEW t \in Threads, Drop(t), UNCHANGED <<head, unused, localVer, pushed>>,
           \A u \in Threads : Sweeping(u)' => Sweeping(u)
    PROVE  /\ Pooled' = Pooled /\ Disjoint' /\ Lines' /\ Ages'
           /\ \A e \in Pooled : next'[e] = next[e]
<1>0. /\ \A u \in Threads : cache[u] \in Pointers /\ free[u] \in Pointers
      /\ \A u \in Threads : localVer[u] \in Int
  BY DEF Types
<1>1. CASE cache[t] = Null
  <2>1. UNCHANGED <<head, next, unused, free, cache, pushed>> /\ cache = [cache EXCEPT ![t] = Null]
    BY <1>1 DEF Drop, Types
  <2>2. \A u \in Threads : Held(u)' \subseteq Held(u)
    BY <2>1 DEF Held
  <2>3. Pooled' = Pooled /\ Disjoint' /\ Lines' /\ Ages'
    BY <1>0, <2>1, <2>2, StillStep
  <2> QED
    BY <2>1, <2>3
<1>2. CASE cache[t] # Null
  <2> DEFINE c == cache[t]
  <2>1. /\ next' = [next EXCEPT ![c] = free[t]]
        /\ free' = [free EXCEPT ![t] = c]
        /\ cache' = [cache EXCEPT ![t] = Null]
    BY <1>2 DEF Drop
  <2>2. c \in Entries /\ DOMAIN next = Entries /\ DOMAIN next' = Entries /\ next'[c] = free[t]
    BY <1>0, <1>2, <2>1 DEF Types, Pointers
  <2>3. /\ Reach(next', {head.e}) = Pooled
        /\ \A e \in Pooled : e # c /\ next'[e] = next[e] /\ e \notin Reach(next', {next'[e]})
        /\ \A u \in Threads :
             /\ Reach(next', {free[u]}) = Freed(u)
             /\ \A e \in Freed(u) : e # c /\ next'[e] = next[e] /\ e \notin Reach(next', {next'[e]})
    BY <1>2, <2>1, OwnWrite
  <2>4. Pooled' = Pooled /\ \A e \in Pooled : next'[e] = next[e] /\ e \notin Reach(next', {next'[e]})
    BY <2>3 DEF Pooled, Chain
  <2>5. ASSUME NEW u \in Threads \ {t}
        PROVE  Freed(u)' = Freed(u) /\ \A e \in Freed(u) : e \notin Reach(next', {next'[e]})
    <3>1. free'[u] = free[u]
      BY <2>1 DEF Types
    <3> QED
      BY <2>3, <3>1 DEF Freed, Chain
  <2>6. Freed(t)' = {c} \cup Freed(t) /\ \A e \in Freed(t)' : e \notin Reach(next', {next'[e]})
    <3>1. c \notin Freed(t)
      BY <1>2 DEF Disjoint, Held
    <3>2. c \notin Reach(next, {next'[c]}) /\ \A e \in Reach(next, {next'[c]}) : e \notin Reach(next, {next[e]})
      BY <2>2, <3>1 DEF Lines, Freed, Chain
    <3>3. \A y \in DOMAIN next \ {c} : next'[y] = next[y]
      BY <2>1
    <3> DEFINE g == next'
    <3> HIDE DEF g, c
    <3>4. /\ Reach(g, {c}) = {c} \cup Reach(next, {g[c]})
          /\ \A e \in Reach(g, {c}) : e \notin Reach(g, {g[e]})
      BY <2>2, <3>2, <3>3, Prepend DEF g
    <3>5. free'[t] = c
      BY <2>1 DEF Types
    <3> QED
      BY <2>2, <3>4, <3>5 DEF g, Freed, Chain
  <2>7. Held(t) = {c} /\ Held(t)' = {} /\ \A u \in Threads \ {t} : Held(u)' = Held(u)
    BY <1>2, <2>1 DEF Held, Types
  <2>8. Disjoint'
    BY <2>4, <2>5, <2>6, <2>7 DEF Disjoint
  <2>9. Lines'
    BY <2>4, <2>5, <2>6 DEF Lines
  <2>10. Ages'
    <3>1. (\A e \in Pooled : pushed[e] = head.ver \/ (head.ver = 0 /\ pushed[e] = -1))'
      BY <2>4 DEF Ages
    <3>2. (\A e \in unused : pushed[e] = -1)'
      BY DEF Ages
    <3>3. \A u \in Threads : Held(u)' \cup Freed(u)' \subseteq Held(u) \cup Freed(u)
      BY <2>5, <2>6, <2>7
    <3> QED
      BY <3>1, <3>2, <3>3 DEF Ages
  <2> QED
    BY <2>4, <2>8, <2>9, <2>10
<1> QED
  BY <1>1, <1>2

\* toalloc->next = old.head and alloc_cache->next = NULL: only the thread's own entry changes.
LEMMA WriteStep ==
    ASSUME PoolAssumption, Types, Disjoint, Lines, Ages,
           NEW t \in Threads, cache[t] # Null, NEW v,
           next' = [next EXCEPT ![cache[t]] = v],
           UNCHANGED <<head, unused, free, cache, localVer, pushed>>,
           \A u \in Threads : Sweeping(u)' => Sweeping(u)
    PROVE  /\ Pooled' = Pooled /\ Disjoint' /\ Lines' /\ Ages'
           /\ \A e \in Pooled : next'[e] = next[e]
<1> DEFINE c == cache[t]
<1>2. /\ Reach(next', {head.e}) = Pooled
      /\ \A e \in Pooled : e # c /\ next'[e] = next[e] /\ e \notin Reach(next', {next'[e]})
      /\ \A u \in Threads :
           /\ Reach(next', {free[u]}) = Freed(u)
           /\ \A e \in Freed(u) : e # c /\ next'[e] = next[e] /\ e \notin Reach(next', {next'[e]})
  BY OwnWrite
<1>3. Pooled' = Pooled /\ \A u \in Threads : Freed(u)' = Freed(u) /\ Held(u)' = Held(u)
  BY <1>2 DEF Pooled, Freed, Chain, Held
<1>4. Disjoint'
  BY <1>3 DEF Disjoint
<1>5. Lines'
  BY <1>2, <1>3 DEF Lines
<1>6. Ages'
  BY <1>3 DEF Ages
<1> QED
  BY <1>2, <1>3, <1>4, <1>5, <1>6

\* The CAS of pop takes the first entry, and the rest of the pool becomes the pool.
LEMMA PopStep ==
    ASSUME PoolAssumption, Types, Disjoint, Lines, Ages,
           NEW t \in Threads, cache[t] = Null, head.e # Null, localVer[t] = head.ver,
           head' = [e |-> next[head.e], ver |-> head.ver],
           cache' = [cache EXCEPT ![t] = head.e],
           UNCHANGED <<next, unused, free, localVer, pushed>>,
           \A u \in Threads : Sweeping(u)' => Sweeping(u), ~ Sweeping(t)'
    PROVE  /\ Pooled' = Pooled \ {head.e} /\ head.e \in Pooled
           /\ Disjoint' /\ Lines' /\ Ages'
<1> DEFINE c == head.e
<1>1. c \in Pooled /\ Pooled = {c} \cup Reach(next, {next[c]}) /\ Pooled \subseteq Entries
  BY ListFacts
<1>2. c \notin Reach(next, {next[c]})
  BY <1>1 DEF Lines
<1>3. Pooled' = Pooled \ {c}
  <2>1. Pooled' = Reach(next, {next[c]})
    BY DEF Pooled, Chain
  <2> QED
    BY <1>1, <1>2, <2>1
<1>4. \A u \in Threads : Freed(u)' = Freed(u)
  BY DEF Freed, Chain
<1>5. Held(t) = {} /\ Held(t)' = {c} /\ \A u \in Threads \ {t} : Held(u)' = Held(u)
  BY DEF Held, Types
<1>6. Disjoint'
  <2>1. c \notin unused /\ \A u \in Threads : c \notin Freed(u) /\ c \notin Held(u)
    BY <1>1 DEF Disjoint
  <2>2. (Pooled \cap unused = {})'
    BY <1>3 DEF Disjoint
  <2>3. \A u \in Threads : (Held(u) \cap (Pooled \cup unused) = {} /\ Freed(u) \cap (Pooled \cup unused) = {})'
    BY <1>3, <1>4, <1>5, <2>1 DEF Disjoint
  <2>4. \A u, w \in Threads : (Held(u) \cap Freed(w) = {})'
    BY <1>4, <1>5, <2>1 DEF Disjoint
  <2>5. \A u \in Threads : \A w \in Threads \ {u} : (Held(u) \cap Held(w) = {} /\ Freed(u) \cap Freed(w) = {})'
    BY <1>4, <1>5, <2>1 DEF Disjoint
  <2> QED
    BY <2>2, <2>3, <2>4, <2>5 DEF Disjoint
<1>7. Lines'
  BY <1>3, <1>4 DEF Lines
<1>8. Ages'
  <2>1. (\A e \in Pooled : pushed[e] = head.ver \/ (head.ver = 0 /\ pushed[e] = -1))'
    BY <1>3 DEF Ages
  <2>2. (\A e \in unused : pushed[e] = -1)'
    BY DEF Ages
  <2>3. pushed[c] <= localVer[t]
    <3>1. head.ver \in Nat /\ (pushed[c] = head.ver \/ (head.ver = 0 /\ pushed[c] = -1))
      BY <1>1 DEF Ages, Types
    <3> QED
      BY <3>1
  <2>4. ASSUME NEW u \in Threads, NEW e \in Held(u)' \cup Freed(u)'
        PROVE  pushed[e] <= localVer[u] /\ (Sweeping(u)' => pushed[e] < localVer[u])
    <3>1. CASE e \in Held(u) \cup Freed(u)
      BY <3>1 DEF Ages
    <3>2. CASE u = t /\ e = c
      BY <2>3, <3>2
    <3> QED
      BY <1>4, <1>5, <2>4, <3>1, <3>2
  <2> QED
    BY <2>1, <2>2, <2>4 DEF Ages
<1> QED
  BY <1>1, <1>3, <1>6, <1>7, <1>8

\* The CAS of Reclamation: the pool is empty.
LEMMA SwingStep ==
    ASSUME PoolAssumption, Types, Disjoint, Lines, Ages,
           head' = [e |-> Null, ver |-> head.ver + 1],
           UNCHANGED <<next, unused, free, cache, localVer, pushed>>,
           \A u \in Threads : Sweeping(u)' => Sweeping(u)
    PROVE  Pooled' = {} /\ Disjoint' /\ Lines' /\ Ages'
<1>1. Pooled' = {}
  BY ListFacts DEF Pooled, Chain
<1>2. \A u \in Threads : Freed(u)' = Freed(u) /\ Held(u)' = Held(u)
  BY DEF Freed, Chain, Held
<1>3. Disjoint'
  BY <1>1, <1>2 DEF Disjoint
<1>4. Lines'
  BY <1>1, <1>2 DEF Lines
<1>5. Ages'
  BY <1>1, <1>2 DEF Ages
<1> QED
  BY <1>1, <1>3, <1>4, <1>5

\* getAllocEntry: the entry comes from the thread's own list or from the array.
LEMMA GetStep ==
    ASSUME PoolAssumption, Types, Control, Disjoint, Lines, Ages,
           NEW t \in Threads, GetAllocEntry(t)
    PROVE  Pooled' = Pooled /\ Disjoint' /\ Lines' /\ Ages'
           /\ unused' \subseteq Entries /\ free' \in [Threads -> Pointers]
           /\ \E e \in Entries : cache' = [cache EXCEPT ![t] = e]
<1>1. cache[t] = Null /\ Held(t) = {} /\ Sweeping(t) /\ localVer[t] > 0 /\ localVer[t] \in Int
  BY DEF GetAllocEntry, Held, Control, ControlOf, Sweeping, Types
<1>2. UNCHANGED <<head, next, localVer, regs, pc, pushed>>
  BY DEF GetAllocEntry
<1>3. Pooled' = Pooled /\ \A u \in Threads : Sweeping(u)' = Sweeping(u)
  BY <1>2 DEF Pooled, Chain, Sweeping, Busy, regs
<1>4. CASE free[t] # Null
  <2> DEFINE c == free[t]
  <2>1. cache' = [cache EXCEPT ![t] = c] /\ free' = [free EXCEPT ![t] = next[c]] /\ unused' = unused
    BY <1>4 DEF GetAllocEntry
  <2>2. c \in Freed(t) /\ Freed(t) = {c} \cup Reach(next, {next[c]}) /\ Freed(t) \subseteq Entries
    BY <1>4, ListFacts
  <2>3. c \notin Reach(next, {next[c]})
    BY <2>2 DEF Lines
  <2>4. Freed(t)' = Freed(t) \ {c}
    <3>1. Freed(t)' = Reach(next, {next[c]})
      BY <1>2, <2>1 DEF Freed, Chain, Types
    <3> QED
      BY <2>2, <2>3, <3>1
  <2>5. \A u \in Threads \ {t} : Freed(u)' = Freed(u) /\ Held(u)' = Held(u)
    BY <1>2, <2>1 DEF Freed, Chain, Held, Types
  <2>6. Held(t)' = {c}
    BY <2>1, <2>2, <1>4 DEF Held, Types
  <2>7. Disjoint'
    <3>1. /\ c \notin Pooled \cup unused
          /\ \A u \in Threads : c \notin Held(u) /\ (u # t => c \notin Freed(u))
      BY <2>2 DEF Disjoint
    <3>2. (Pooled \cap unused = {})'
      BY <1>3, <2>1 DEF Disjoint
    <3>3. \A u \in Threads : (Held(u) \cap (Pooled \cup unused) = {} /\ Freed(u) \cap (Pooled \cup unused) = {})'
      BY <1>3, <2>1, <2>4, <2>5, <2>6, <3>1 DEF Disjoint
    <3>4. \A u, w \in Threads : (Held(u) \cap Freed(w) = {})'
      BY <2>4, <2>5, <2>6, <3>1 DEF Disjoint
    <3>5. \A u \in Threads : \A w \in Threads \ {u} : (Held(u) \cap Held(w) = {} /\ Freed(u) \cap Freed(w) = {})'
      BY <2>4, <2>5, <2>6, <3>1 DEF Disjoint
    <3> QED
      BY <3>2, <3>3, <3>4, <3>5 DEF Disjoint
  <2>8. Lines'
    BY <1>2, <1>3, <2>4, <2>5 DEF Lines
  <2>9. Ages'
    <3>1. \A u \in Threads : Held(u)' \cup Freed(u)' \subseteq Held(u) \cup Freed(u)
      BY <2>2, <2>4, <2>5, <2>6
    <3> QED
      BY <1>2, <1>3, <2>1, <3>1 DEF Ages
  <2>10. unused' \subseteq Entries /\ free' \in [Threads -> Pointers]
    BY <2>1, <2>2 DEF Types
  <2> QED
    BY <1>3, <2>1, <2>2, <2>7, <2>8, <2>9, <2>10
<1>5. CASE free[t] = Null
  <2>1. PICK c \in unused : cache' = [cache EXCEPT ![t] = c] /\ unused' = unused \ {c} /\ free' = free
    BY <1>5 DEF GetAllocEntry
  <2>2. c \in Entries /\ c # Null
    BY DEF Types, PoolAssumption
  <2>3. \A u \in Threads : Freed(u)' = Freed(u)
    BY <1>2, <2>1 DEF Freed, Chain
  <2>4. Held(t)' = {c} /\ \A u \in Threads \ {t} : Held(u)' = Held(u)
    BY <2>1, <2>2 DEF Held, Types
  <2>5. Disjoint'
    <3>1. c \notin Pooled /\ \A u \in Threads : c \notin Freed(u) /\ c \notin Held(u)
      BY DEF Disjoint
    <3>2. (Pooled \cap unused = {})'
      BY <1>3, <2>1 DEF Disjoint
    <3>3. \A u \in Threads : (Held(u) \cap (Pooled \cup unused) = {} /\ Freed(u) \cap (Pooled \cup unused) = {})'
      BY <1>3, <2>1, <2>3, <2>4, <3>1 DEF Disjoint
    <3>4. \A u, w \in Threads : (Held(u) \cap Freed(w) = {})'
      BY <2>3, <2>4, <3>1 DEF Disjoint
    <3>5. \A u \in Threads : \A w \in Threads \ {u} : (Held(u) \cap Held(w) = {} /\ Freed(u) \cap Freed(w) = {})'
      BY <2>3, <2>4, <3>1 DEF Disjoint
    <3> QED
      BY <3>2, <3>3, <3>4, <3>5 DEF Disjoint
  <2>6. Lines'
    BY <1>2, <1>3, <2>3 DEF Lines
  <2>7. Ages'
    <3>1. pushed[c] = -1
      BY DEF Ages
    <3>2. ASSUME NEW u \in Threads, NEW e \in Held(u)' \cup Freed(u)'
          PROVE  pushed[e] <= localVer[u] /\ (Sweeping(u) => pushed[e] < localVer[u])
      <4>1. CASE e \in Held(u) \cup Freed(u)
        BY <4>1 DEF Ages
      <4>2. CASE u = t /\ e = c
        BY <1>1, <3>1, <4>2
      <4> QED
        BY <2>3, <2>4, <3>2, <4>1, <4>2
    <3>3. (\A e \in Pooled : pushed[e] = head.ver \/ (head.ver = 0 /\ pushed[e] = -1))'
      BY <1>2, <1>3 DEF Ages
    <3>4. (\A e \in unused : pushed[e] = -1)'
      BY <1>2, <2>1 DEF Ages
    <3> QED
      BY <1>2, <1>3, <3>2, <3>3, <3>4 DEF Ages
  <2>8. unused' \subseteq Entries /\ free' \in [Threads -> Pointers]
    BY <2>1 DEF Types
  <2> QED
    BY <1>3, <2>1, <2>2, <2>5, <2>6, <2>7, <2>8
<1> QED
  BY <1>4, <1>5

\* The CAS of pReturnCache: the cache comes first in the pool.
LEMMA PushStep ==
    ASSUME PoolAssumption, Types, Disjoint, Lines, Ages,
           NEW t \in Threads, cache[t] # Null, localVer[t] = head.ver, next[cache[t]] = head.e,
           head' = [e |-> cache[t], ver |-> head.ver],
           cache' = [cache EXCEPT ![t] = Null],
           pushed' = [pushed EXCEPT ![cache[t]] = head.ver],
           UNCHANGED <<next, unused, free, localVer>>,
           \A u \in Threads : Sweeping(u)' => Sweeping(u)
    PROVE  /\ Pooled' = Pooled \cup {cache[t]} /\ cache[t] \notin Pooled
           /\ Disjoint' /\ Lines' /\ Ages'
<1> DEFINE c == cache[t]
<1>1. c \in Entries /\ DOMAIN next = Entries /\ Held(t) = {c}
  BY DEF Types, Pointers, Held
<1>2. c \notin Pooled /\ c \notin unused /\ \A u \in Threads : c \notin Freed(u) /\ (u # t => c \notin Held(u))
  BY <1>1 DEF Disjoint
<1>3. Pooled' = Pooled \cup {c}
  <2>1. Reach(next, {c}) = {c} \cup Reach(next, {next[c]})
    BY <1>1, ReachUnfold
  <2> QED
    BY <2>1 DEF Pooled, Chain
<1>4. \A u \in Threads : Freed(u)' = Freed(u)
  BY DEF Freed, Chain
<1>5. Held(t)' = {} /\ \A u \in Threads \ {t} : Held(u)' = Held(u)
  BY DEF Held, Types
<1>6. Disjoint'
  BY <1>1, <1>2, <1>3, <1>4, <1>5 DEF Disjoint
<1>7. Lines'
  <2>1. c \notin Reach(next, {next[c]})
    BY <1>2 DEF Pooled, Chain
  <2> QED
    BY <1>3, <1>4, <2>1 DEF Lines
<1>8. Ages'
  <2>1. pushed'[c] = head.ver /\ \A e \in Entries \ {c} : pushed'[e] = pushed[e]
    BY <1>1 DEF Types
  <2>2. Pooled \subseteq Entries /\ \A u \in Threads : Freed(u) \subseteq Entries /\ Held(u) \subseteq Entries
    BY ListFacts
  <2>3. (\A e \in Pooled : pushed[e] = head.ver \/ (head.ver = 0 /\ pushed[e] = -1))'
    BY <1>3, <2>1, <2>2 DEF Ages
  <2>4. (\A e \in unused : pushed[e] = -1)'
    BY <1>2, <2>1 DEF Ages, Types
  <2>5. ASSUME NEW u \in Threads, NEW e \in Held(u)' \cup Freed(u)'
        PROVE  pushed'[e] <= localVer[u] /\ (Sweeping(u)' => pushed'[e] < localVer[u])
    <3>1. e \in Held(u) \cup Freed(u) /\ e # c /\ e \in Entries
      BY <1>2, <1>4, <1>5, <2>2, <2>5
    <3> QED
      BY <2>1, <3>1 DEF Ages
  <2> QED
    BY <2>3, <2>4, <2>5 DEF Ages
<1> QED
  BY <1>2, <1>3, <1>6, <1>7, <1>8

-----------------------------------------------------------------------------
(* Each action preserves the invariant.                                    *)

\* Another thread's registers are as they were.
Others(t) ==
    \A u \in Threads \ {t} :
        /\ localVer'[u] = localVer[u] /\ old'[u] = old[u] /\ to'[u] = to[u]
        /\ job'[u] = job[u] /\ half'[u] = half[u] /\ pc'[u] = pc[u] /\ cache'[u] = cache[u]

\* Where the other threads are is not disturbed by a step of t, which does not write
\* their caches and does not take the version back.
LEMMA OthersControl ==
    ASSUME Types, Control, NEW t \in Threads, Others(t),
           head'.ver \in Int, head'.ver >= head.ver,
           \A u \in Threads \ {t} : cache[u] # Null => next'[cache[u]] = next[cache[u]]
    PROVE  \A u \in Threads \ {t} : ControlOf(u)' /\ Sweeping(u)' = Sweeping(u)
<1> SUFFICES ASSUME NEW u \in Threads \ {t} PROVE ControlOf(u)' /\ Sweeping(u)' = Sweeping(u)
  OBVIOUS
<1>1. /\ localVer'[u] = localVer[u] /\ old'[u] = old[u] /\ to'[u] = to[u]
      /\ job'[u] = job[u] /\ half'[u] = half[u] /\ pc'[u] = pc[u] /\ cache'[u] = cache[u]
  BY DEF Others
<1>2. /\ \A j : Busy(u, j)' = Busy(u, j)
      /\ Sweeping(u)' = Sweeping(u)
  BY <1>1 DEF Busy, Sweeping
<1>3. ControlOf(u)
  BY DEF Control
<1>4. localVer[u] \in Nat /\ old[u].ver \in Nat /\ head.ver \in Nat
  BY DEF Types
<1>5. pc[u] = "pushCas" => next'[cache[u]] = next[cache[u]]
  BY <1>3 DEF ControlOf, Busy
<1> QED
  BY <1>1, <1>2, <1>3, <1>4, <1>5 DEF ControlOf

\* What the other threads have read stays good while the version is the same, if the pool
\* gets no entry that they have read and its entries are not written.
LEMMA OthersCopies ==
    ASSUME Types, Control, Copies, NEW t \in Threads, Others(t),
           head'.ver = head.ver,
           \A e \in Entries : pushed[e] = head.ver => pushed'[e] = head.ver,
           \A e \in Pooled : next'[e] = next[e],
           \A u \in Threads \ {t} :
                pc[u] = "popCas" /\ localVer[u] = head.ver /\ old[u].e \in Pooled' => old[u].e \in Pooled
    PROVE  \A u \in Threads \ {t} : CopyOf(u)'
<1> SUFFICES ASSUME NEW u \in Threads \ {t} PROVE CopyOf(u)'
  OBVIOUS
<1>1. /\ localVer'[u] = localVer[u] /\ old'[u] = old[u] /\ to'[u] = to[u]
      /\ job'[u] = job[u] /\ half'[u] = half[u] /\ pc'[u] = pc[u]
  BY DEF Others
<1>2. CopyOf(u)
  BY DEF Copies
<1>3. old[u].e # Null => old[u].e \in Entries
  BY DEF Types, Pointers
<1> QED
  BY <1>1, <1>2, <1>3 DEF CopyOf

\* With a new version there is nothing to show: no thread has caught up yet.
LEMMA NewVersionCopies ==
    ASSUME Types, Control, head'.ver = head.ver + 1, localVer' = localVer
    PROVE  Copies'
<1>1. \A u \in Threads : localVer[u] <= head.ver /\ localVer[u] \in Nat /\ head.ver \in Nat
  BY DEF Types, Control, ControlOf
<1> QED
  BY <1>1 DEF Copies, CopyOf

\* A step of t that writes nothing but its registers.
LEMMA RegisterStep ==
    ASSUME PoolAssumption, PoolInv, NEW t \in Threads, Others(t), Types',
           UNCHANGED <<head, next, unused, free, pushed>>,
           Held(t)' \subseteq Held(t), localVer'[t] >= localVer[t],
           Sweeping(t)' => Sweeping(t) \/ localVer'[t] > localVer[t],
           ControlOf(t)', Pooled' = Pooled => CopyOf(t)'
    PROVE  PoolInv'
<1>1. \A u \in Threads \ {t} : Held(u)' = Held(u) /\ localVer'[u] = localVer[u]
  BY DEF Others, Held
<1>2. \A u \in Threads \ {t} : ControlOf(u)' /\ Sweeping(u)' = Sweeping(u)
  <2>1. Types /\ Control
    BY DEF PoolInv
  <2>2. head'.ver \in Int /\ head'.ver >= head.ver /\ next' = next
    BY <2>1 DEF Types
  <2> QED
    BY <2>1, <2>2, OthersControl
<1>3. Pooled' = Pooled /\ Disjoint' /\ Lines' /\ Ages'
  <2>1. \A u \in Threads : Held(u)' \subseteq Held(u) /\ localVer'[u] \in Int /\ localVer'[u] >= localVer[u]
    <3>1. \A u \in Threads : localVer[u] \in Int /\ localVer'[u] \in Int
      BY DEF PoolInv, Types
    <3>2. ASSUME NEW u \in Threads, u # t
          PROVE  Held(u)' \subseteq Held(u) /\ localVer'[u] >= localVer[u]
      BY <1>1, <3>1, <3>2
    <3> QED
      BY <3>1, <3>2
  <2>2. \A u \in Threads : Sweeping(u)' => Sweeping(u) \/ localVer'[u] > localVer[u]
    BY <1>2
  <2> QED
    BY <2>1, <2>2, StillStep DEF PoolInv
<1>4. \A u \in Threads \ {t} : CopyOf(u)'
  BY <1>3, OthersCopies DEF PoolInv
<1> QED
  BY <1>2, <1>3, <1>4 DEF PoolInv, Control, Copies

\* ReadFirst preserves the invariant.
LEMMA ReadFirstInv ==
    ASSUME PoolAssumption, PoolInv, NEW t \in Threads, ReadFirst(t)
    PROVE  PoolInv'
<1> USE DEF ReadFirst, Goto
<1>0. Types /\ ControlOf(t)
  BY DEF PoolInv, Control
<1>1. Types'
  <2>1. head.e \in Pointers /\ head.ver \in 0 .. MaxVer /\ Null \in Pointers /\ 0 \in 0 .. MaxVer
    BY <1>0 DEF Types, Pointers, PoolAssumption
  <2>2. PICK w \in [e : Pointers, ver : 0 .. MaxVer] : old' = [old EXCEPT ![t] = w]
    BY <2>1
  <2>3. old' \in [Threads -> [e : Pointers, ver : 0 .. MaxVer]]
    BY <1>0, <2>2 DEF Types
  <2> QED
    BY <1>0, <2>3 DEF Types
<1>2. Others(t)
  BY <1>0 DEF Others, Types
<1>3. Held(t)' = Held(t) /\ localVer'[t] >= localVer[t]
  BY <1>0 DEF Held, Types
<1>4. Sweeping(t)' = Sweeping(t)
  BY <1>0 DEF Sweeping, Busy, Types
<1>5. ControlOf(t)'
  BY <1>0 DEF ControlOf, Sweeping, Busy, Types
<1>6. Pooled' = Pooled => CopyOf(t)'
  <2>1. head.e # Null => pushed[head.e] = head.ver \/ head.ver = 0
    BY <1>0, ListFacts DEF PoolInv, Ages
  <2> QED
    BY <1>0, <2>1 DEF CopyOf, Types
<1> QED
  BY <1>1, <1>2, <1>3, <1>4, <1>5, <1>6, RegisterStep

\* ReadSecond preserves the invariant.
LEMMA ReadSecondInv ==
    ASSUME PoolAssumption, PoolInv, NEW t \in Threads, ReadSecond(t)
    PROVE  PoolInv'
<1> USE DEF ReadSecond, Goto
<1>0. Types /\ ControlOf(t)
  BY DEF PoolInv, Control
<1>a. job[t] \in {"pop", "swing", "push"} /\ half[t] \in {"e", "ver"}
  BY <1>0 DEF ControlOf, Busy, Types
<1>1. Types'
  <2>1. PICK w \in [e : Pointers, ver : 0 .. MaxVer] : old' = [old EXCEPT ![t] = w]
    BY <1>0 DEF Types
  <2>2. old' \in [Threads -> [e : Pointers, ver : 0 .. MaxVer]]
    BY <1>0, <2>1 DEF Types
  <2> QED
    BY <1>0, <1>a, <2>2 DEF Types
<1>2. Others(t)
  BY <1>0 DEF Others, Types
<1>3. Held(t)' = Held(t) /\ localVer'[t] >= localVer[t]
  BY <1>0 DEF Held, Types
<1>4. Sweeping(t)' = Sweeping(t)
  BY <1>0, <1>a DEF Sweeping, Busy, Types
<1>5. ControlOf(t)'
  BY <1>0, <1>a DEF ControlOf, Sweeping, Busy, Types
<1>6. Pooled' = Pooled => CopyOf(t)'
  <2>1. head.e # Null => pushed[head.e] = head.ver \/ head.ver = 0
    BY <1>0, ListFacts DEF PoolInv, Ages
  <2>2. CopyOf(t)
    BY DEF PoolInv, Copies
  <2> QED
    BY <1>0, <1>a, <2>1, <2>2 DEF CopyOf, Types
<1> QED
  BY <1>1, <1>2, <1>3, <1>4, <1>5, <1>6, RegisterStep

\* PopFollow preserves the invariant.
LEMMA PopFollowInv ==
    ASSUME PoolAssumption, PoolInv, NEW t \in Threads, PopFollow(t)
    PROVE  PoolInv'
<1> USE DEF PopFollow, Goto
<1>0. Types /\ ControlOf(t) /\ CopyOf(t)
  BY DEF PoolInv, Control, Copies
<1>a. old[t].e # Null => old[t].e \in Entries /\ next[old[t].e] \in Pointers
  BY <1>0 DEF Types, Pointers
<1>1. Types'
  BY <1>0, <1>a DEF Types
<1>2. Others(t)
  BY <1>0 DEF Others, Types
<1>3. Held(t)' = Held(t) /\ localVer'[t] >= localVer[t]
  BY <1>0 DEF Held, Types
<1>4. Sweeping(t)' = Sweeping(t)
  BY <1>0 DEF Sweeping, Busy, Types
<1>5. ControlOf(t)'
  BY <1>0 DEF ControlOf, Sweeping, Busy, Types
<1>6. Pooled' = Pooled => CopyOf(t)'
  BY <1>0 DEF CopyOf, Types
<1> QED
  BY <1>1, <1>2, <1>3, <1>4, <1>5, <1>6, RegisterStep

\* ReturnCache preserves the invariant.
LEMMA ReturnCacheInv ==
    ASSUME PoolAssumption, PoolInv, NEW t \in Threads, ReturnCache(t)
    PROVE  PoolInv'
<1> USE DEF ReturnCache, ReadFor, Goto
<1>0. Types /\ ControlOf(t) /\ CopyOf(t)
  BY DEF PoolInv, Control, Copies
<1>1. Types'
  BY <1>0 DEF Types
<1>2. Others(t)
  BY <1>0 DEF Others, Types
<1>3. Held(t)' = Held(t) /\ localVer'[t] >= localVer[t]
  BY <1>0 DEF Held, Types
<1>4. Sweeping(t)' = Sweeping(t)
  BY <1>0 DEF Sweeping, Busy, Types
<1>5. ControlOf(t)'
  BY <1>0 DEF ControlOf, Sweeping, Busy, Types
<1>6. Pooled' = Pooled => CopyOf(t)'
  BY <1>0 DEF CopyOf, Types
<1> QED
  BY <1>1, <1>2, <1>3, <1>4, <1>5, <1>6, RegisterStep

\* EndSweep preserves the invariant.
LEMMA EndSweepInv ==
    ASSUME PoolAssumption, PoolInv, NEW t \in Threads, EndSweep(t)
    PROVE  PoolInv'
<1> USE DEF EndSweep, Goto, regs
<1>0. Types /\ ControlOf(t) /\ CopyOf(t)
  BY DEF PoolInv, Control, Copies
<1>1. Types'
  BY <1>0 DEF Types
<1>2. Others(t)
  BY <1>0 DEF Others, Types
<1>3. Held(t)' = Held(t) /\ localVer'[t] >= localVer[t]
  BY <1>0 DEF Held, Types
<1>4. Sweeping(t)' => Sweeping(t)
  BY <1>0 DEF Sweeping, Busy, Types
<1>5. ControlOf(t)'
  BY <1>0 DEF ControlOf, Sweeping, Busy, Types
<1>6. Pooled' = Pooled => CopyOf(t)'
  BY <1>0 DEF CopyOf, ControlOf, Types
<1> QED
  BY <1>1, <1>2, <1>3, <1>4, <1>5, <1>6, RegisterStep

\* Swing preserves the invariant.
LEMMA SwingInv ==
    ASSUME PoolAssumption, PoolInv, NEW t \in Threads, Swing(t)
    PROVE  PoolInv'
<1> USE DEF Swing, ReadFor, Goto, VerCas
<1>0. Types /\ ControlOf(t) /\ CopyOf(t)
  BY DEF PoolInv, Control, Copies
<1>a. Busy(t, "swing") /\ localVer[t] \in Nat /\ localVer[t] + 1 \in 0 .. MaxVer /\ MaxVer \in Nat
  BY <1>0 DEF ControlOf, Busy, Types, PoolAssumption
<1>1. CASE old[t].ver # localVer[t]
  <2>1. localVer[t] < head.ver /\ head.ver \in Nat
    BY <1>0, <1>1, <1>a DEF ControlOf, Types
  <2>2. /\ UNCHANGED <<next, unused, free, cache, old, to, half, pushed, head, job>>
        /\ localVer' = [localVer EXCEPT ![t] = localVer[t] + 1]
        /\ pc' = [pc EXCEPT ![t] = "sweep"] \/ pc' = [pc EXCEPT ![t] = "run"]
    BY <1>0, <1>1 DEF Types
  <2>3. Types'
    BY <1>0, <1>a, <2>2 DEF Types
  <2>4. Others(t)
    BY <1>0, <2>2 DEF Others, Types
  <2>5. Held(t)' = Held(t) /\ localVer'[t] = localVer[t] + 1
    BY <1>0, <2>2 DEF Held, Types
  <2>6. ControlOf(t)'
    BY <1>0, <1>a, <2>1, <2>2 DEF ControlOf, Sweeping, Busy, Types
  <2>7. CopyOf(t)'
    BY <1>0, <1>a, <2>2 DEF CopyOf, ControlOf, Busy, Types
  <2>8. localVer'[t] >= localVer[t] /\ localVer'[t] > localVer[t]
    BY <1>a, <2>5
  <2> QED
    BY <2>2, <2>3, <2>4, <2>5, <2>6, <2>7, <2>8, RegisterStep
<1>2. CASE old[t].ver = localVer[t] /\ head # old[t]
  <2>1. /\ UNCHANGED <<next, unused, free, cache, old, to, half, pushed, head, localVer>>
        /\ pc' = [pc EXCEPT ![t] = "read"] /\ job' = [job EXCEPT ![t] = "swing"]
    BY <1>2
  <2>2. Types'
    BY <1>0, <2>1 DEF Types
  <2>3. Others(t)
    BY <1>0, <2>1 DEF Others, Types
  <2>4. Held(t)' = Held(t) /\ localVer'[t] >= localVer[t]
    BY <1>0, <1>a, <2>1 DEF Held, Types
  <2>5. Sweeping(t)' = Sweeping(t)
    BY <1>0, <1>a, <2>1 DEF Sweeping, Busy, Types
  <2>6. ControlOf(t)'
    BY <1>0, <1>a, <2>1 DEF ControlOf, Sweeping, Busy, Types
  <2>7. CopyOf(t)'
    BY <1>0, <1>a, <2>1 DEF CopyOf, Busy, Types
  <2> QED
    BY <2>1, <2>2, <2>3, <2>4, <2>5, <2>6, <2>7, RegisterStep
<1>3. CASE head = old[t] /\ old[t].ver = localVer[t]
  <2>1. /\ UNCHANGED <<next, unused, free, cache, old, to, half, pushed, localVer>>
        /\ pc' = [pc EXCEPT ![t] = "read"] /\ job' = [job EXCEPT ![t] = "swing"]
        /\ head' = [e |-> Null, ver |-> head.ver + 1]
        /\ head.ver = localVer[t]
    BY <1>3
  <2>2. Types'
    <3>1. head' \in [e : Pointers, ver : 0 .. MaxVer]
      BY <1>a, <2>1 DEF Pointers
    <3> QED
      BY <1>0, <2>1, <3>1 DEF Types
  <2>3. Others(t)
    BY <1>0, <2>1 DEF Others, Types
  <2>4. \A u \in Threads \ {t} : ControlOf(u)' /\ Sweeping(u)' = Sweeping(u)
    BY <1>0, <1>a, <2>1, <2>3, OthersControl DEF PoolInv
  <2>5. ControlOf(t)'
    BY <1>0, <1>a, <2>1 DEF ControlOf, Sweeping, Busy, Types
  <2>6. Sweeping(t)' = Sweeping(t)
    BY <1>0, <1>a, <2>1 DEF Sweeping, Busy, Types
  <2>7. Disjoint' /\ Lines' /\ Ages'
    <3>1. \A u \in Threads : Sweeping(u)' => Sweeping(u)
      BY <2>4, <2>6
    <3> QED
      BY <2>1, <3>1, SwingStep DEF PoolInv
  <2>8. Copies'
    BY <2>1, NewVersionCopies DEF PoolInv
  <2> QED
    BY <2>2, <2>4, <2>5, <2>7, <2>8 DEF PoolInv, Control
<1> QED
  BY <1>1, <1>2, <1>3

\* The pool, the lists and the entries in them are as they were, when t's step drops a cache
\* or writes its own entry.
LEMMA DropInv ==
    ASSUME PoolAssumption, PoolInv, NEW t \in Threads, Drop(t), Others(t), Types',
           UNCHANGED <<head, unused, localVer, pushed>>,
           Sweeping(t)' => Sweeping(t), ControlOf(t)', CopyOf(t)'
    PROVE  PoolInv'
<1>1. cache[t] = Null => next' = next
  BY DEF Drop
<1>2. cache[t] # Null =>
        /\ next' = [next EXCEPT ![cache[t]] = free[t]]
        /\ \A u \in Threads \ {t} : cache[u] # Null => cache[u] \in Entries /\ cache[u] # cache[t]
  BY DEF Drop, PoolInv, Disjoint, Held, Types, Pointers
<1>3. \A u \in Threads \ {t} : cache[u] # Null => next'[cache[u]] = next[cache[u]]
  BY <1>1, <1>2 DEF PoolInv, Types
<1>4. \A u \in Threads \ {t} : ControlOf(u)' /\ Sweeping(u)' = Sweeping(u)
  <2>1. Types /\ Control /\ head'.ver \in Int /\ head'.ver >= head.ver
    BY DEF PoolInv, Types
  <2> QED
    BY <1>3, <2>1, OthersControl
<1>5. /\ Pooled' = Pooled /\ Disjoint' /\ Lines' /\ Ages'
      /\ \A e \in Pooled : next'[e] = next[e]
  <2>1. \A u \in Threads : Sweeping(u)' => Sweeping(u)
    BY <1>4
  <2> QED
    BY <2>1, DropStep DEF PoolInv
<1>6. \A u \in Threads \ {t} : CopyOf(u)'
  BY <1>5, OthersCopies DEF PoolInv
<1> QED
  BY <1>4, <1>5, <1>6 DEF PoolInv, Control, Copies

\* The same when t writes the entry it has and keeps it.
LEMMA WriteInv ==
    ASSUME PoolAssumption, PoolInv, NEW t \in Threads, cache[t] # Null,
           NEW v, next' = [next EXCEPT ![cache[t]] = v],
           UNCHANGED <<head, unused, free, cache, localVer, pushed>>,
           Others(t), Types', Sweeping(t)' => Sweeping(t), ControlOf(t)', CopyOf(t)'
    PROVE  PoolInv'
<1>1. \A u \in Threads \ {t} : cache[u] # Null => cache[u] \in Entries /\ cache[u] # cache[t]
  BY DEF PoolInv, Disjoint, Held, Types, Pointers
<1>2. \A u \in Threads \ {t} : cache[u] # Null => next'[cache[u]] = next[cache[u]]
  BY <1>1 DEF PoolInv, Types
<1>3. \A u \in Threads \ {t} : ControlOf(u)' /\ Sweeping(u)' = Sweeping(u)
  <2>1. Types /\ Control /\ head'.ver \in Int /\ head'.ver >= head.ver
    BY DEF PoolInv, Types
  <2> QED
    BY <1>2, <2>1, OthersControl
<1>4. /\ Pooled' = Pooled /\ Disjoint' /\ Lines' /\ Ages'
      /\ \A e \in Pooled : next'[e] = next[e]
  <2>1. \A u \in Threads : Sweeping(u)' => Sweeping(u)
    BY <1>3
  <2> QED
    BY <2>1, WriteStep DEF PoolInv
<1>5. \A u \in Threads \ {t} : CopyOf(u)'
  BY <1>4, OthersCopies DEF PoolInv
<1> QED
  BY <1>3, <1>4, <1>5 DEF PoolInv, Control, Copies

\* palloc with a cache that is used up.
LEMMA AllocateInv ==
    ASSUME PoolAssumption, PoolInv, NEW t \in Threads, Allocate(t)
    PROVE  PoolInv'
<1> USE DEF Allocate, ReadFor, Goto, Drop
<1>0. Types /\ ControlOf(t)
  BY DEF PoolInv, Control
<1>1. Types'
  <2>1. cache[t] # Null => cache[t] \in Pointers /\ free[t] \in Pointers
    BY <1>0 DEF Types
  <2> QED
    BY <1>0, <2>1 DEF Types, Pointers
<1>2. Others(t)
  BY <1>0 DEF Others, Types
<1>3. Sweeping(t)' => Sweeping(t)
  BY <1>0 DEF Sweeping, Busy, Types
<1>4. ControlOf(t)'
  BY <1>0 DEF ControlOf, Sweeping, Busy, Types
<1>5. CopyOf(t)'
  BY <1>0 DEF CopyOf, ControlOf, Types
<1> QED
  BY <1>1, <1>2, <1>3, <1>4, <1>5, DropInv

\* palloc begins a collection.
LEMMA CollectInv ==
    ASSUME PoolAssumption, PoolInv, NEW t \in Threads, Collect(t)
    PROVE  PoolInv'
<1> USE DEF Collect, ReadFor, Goto, Drop
<1>0. Types /\ ControlOf(t)
  BY DEF PoolInv, Control
<1>1. Types'
  <2>1. cache[t] # Null => cache[t] \in Pointers /\ free[t] \in Pointers
    BY <1>0 DEF Types
  <2> QED
    BY <1>0, <2>1 DEF Types, Pointers
<1>2. Others(t)
  BY <1>0 DEF Others, Types
<1>3. Sweeping(t)' => Sweeping(t)
  BY <1>0 DEF Sweeping, Busy, Types
<1>4. ControlOf(t)'
  BY <1>0 DEF ControlOf, Sweeping, Busy, Types
<1>5. CopyOf(t)'
  BY <1>0 DEF CopyOf, ControlOf, Types
<1> QED
  BY <1>1, <1>2, <1>3, <1>4, <1>5, DropInv

\* ClearNext preserves the invariant.
LEMMA ClearNextInv ==
    ASSUME PoolAssumption, PoolInv, NEW t \in Threads, ClearNext(t)
    PROVE  PoolInv'
<1> USE DEF ClearNext, Goto, regs
<1>0. Types /\ ControlOf(t)
  BY DEF PoolInv, Control
<1>a. cache[t] # Null /\ cache[t] \in Entries
  BY <1>0 DEF ControlOf, Types, Pointers
<1>1. Types'
  BY <1>0, <1>a DEF Types, Pointers
<1>2. Others(t)
  BY <1>0 DEF Others, Types
<1>3. Sweeping(t)' => Sweeping(t)
  BY <1>0 DEF Sweeping, Busy, Types
<1>4. ControlOf(t)'
  BY <1>0 DEF ControlOf, Sweeping, Busy, Types
<1>5. CopyOf(t)'
  BY <1>0 DEF CopyOf, ControlOf, Types
<1> QED
  BY <1>a, <1>1, <1>2, <1>3, <1>4, <1>5, WriteInv

\* PushLink preserves the invariant.
LEMMA PushLinkInv ==
    ASSUME PoolAssumption, PoolInv, NEW t \in Threads, PushLink(t)
    PROVE  PoolInv'
<1> USE DEF PushLink, Goto, regs
<1>0. Types /\ ControlOf(t)
  BY DEF PoolInv, Control
<1>a. Busy(t, "push") /\ cache[t] # Null /\ cache[t] \in Entries
  BY <1>0 DEF ControlOf, Busy, Types, Pointers
<1>1. CASE old[t].ver # localVer[t]
  <2>1. Types'
    BY <1>0, <1>1 DEF Types, Pointers
  <2>2. Others(t)
    BY <1>0, <1>1 DEF Others, Types
  <2>3. Held(t)' \subseteq Held(t) /\ localVer'[t] >= localVer[t]
    BY <1>0, <1>1 DEF Held, Types
  <2>4. Sweeping(t)' => Sweeping(t)
    BY <1>a DEF Sweeping
  <2>5. ControlOf(t)'
    BY <1>0, <1>a, <1>1 DEF ControlOf, Sweeping, Busy, Types
  <2>6. CopyOf(t)'
    BY <1>0, <1>a, <1>1 DEF CopyOf, Busy, Types
  <2> QED
    BY <1>1, <2>1, <2>2, <2>3, <2>4, <2>5, <2>6, RegisterStep
<1>2. CASE old[t].ver = localVer[t]
  <2> DEFINE v == old[t].e
  <2>1. /\ next' = [next EXCEPT ![cache[t]] = v] /\ v \in Pointers
        /\ pc' = [pc EXCEPT ![t] = "pushCas"]
        /\ UNCHANGED <<head, unused, free, cache, localVer, pushed, old, to, job, half>>
    BY <1>0, <1>2 DEF Types
  <2>2. Types'
    BY <1>0, <1>a, <2>1 DEF Types
  <2>3. Others(t)
    BY <1>0, <2>1 DEF Others, Types
  <2>4. Sweeping(t)' => Sweeping(t)
    BY <1>a DEF Sweeping
  <2>5. ControlOf(t)'
    BY <1>0, <1>a, <1>2, <2>1 DEF ControlOf, Sweeping, Busy, Types
  <2>6. CopyOf(t)'
    BY <1>0, <1>a, <2>1 DEF CopyOf, Busy, Types
  <2> HIDE DEF v
  <2> QED
    BY <1>a, <2>1, <2>2, <2>3, <2>4, <2>5, <2>6, WriteInv
<1> QED
  BY <1>1, <1>2

\* GetAllocEntry preserves the invariant.
LEMMA GetAllocEntryInv ==
    ASSUME PoolAssumption, PoolInv, NEW t \in Threads, GetAllocEntry(t)
    PROVE  PoolInv'
<1>0. Types /\ Control /\ ControlOf(t) /\ CopyOf(t) /\ Disjoint /\ Lines /\ Ages /\ Copies
  BY DEF PoolInv, Control, Copies
<1>1. /\ Pooled' = Pooled /\ Disjoint' /\ Lines' /\ Ages'
      /\ unused' \subseteq Entries /\ free' \in [Threads -> Pointers]
      /\ \E e \in Entries : cache' = [cache EXCEPT ![t] = e]
  BY <1>0, GetStep
<1>2. PICK c \in Entries : cache' = [cache EXCEPT ![t] = c]
  BY <1>1
<1>3. UNCHANGED <<head, next, localVer, old, to, job, half, pc, pushed>> /\ pc[t] = "sweep" /\ c # Null
  BY DEF GetAllocEntry, regs, PoolAssumption
<1>4. Types'
  BY <1>0, <1>1, <1>2, <1>3 DEF Types, Pointers
<1>5. Others(t)
  BY <1>0, <1>2, <1>3 DEF Others, Types
<1>6. \A u \in Threads \ {t} : ControlOf(u)'
  <2>1. head'.ver \in Int /\ head'.ver >= head.ver
    BY <1>0, <1>3 DEF Types
  <2> QED
    BY <1>0, <1>3, <1>5, <2>1, OthersControl
<1>7. ControlOf(t)'
  BY <1>0, <1>2, <1>3 DEF ControlOf, Sweeping, Busy, Types
<1>8. Copies'
  BY <1>0, <1>1, <1>3 DEF Copies, CopyOf
<1> QED
  BY <1>1, <1>4, <1>6, <1>7, <1>8 DEF PoolInv, Control

\* A CAS that fails: the thread starts over.
LEMMA RetryInv ==
    ASSUME PoolAssumption, PoolInv, NEW t \in Threads, NEW j \in {"pop", "push"}, Busy(t, j),
           UNCHANGED <<head, next, unused, free, cache, localVer, old, half, pushed>>,
           to' \in [Threads -> Pointers], \A u \in Threads \ {t} : to'[u] = to[u],
           job' = [job EXCEPT ![t] = j], pc' = [pc EXCEPT ![t] = "read"], half[t] = "none"
    PROVE  PoolInv'
<1>0. Types /\ ControlOf(t)
  BY DEF PoolInv, Control
<1>1. Types'
  BY <1>0 DEF Types
<1>2. Others(t)
  BY <1>0 DEF Others, Types
<1>3. Held(t)' = Held(t) /\ localVer'[t] >= localVer[t]
  BY <1>0 DEF Held, Types
<1>4. Sweeping(t)' => Sweeping(t)
  BY <1>0 DEF Sweeping, Busy, Types
<1>5. ControlOf(t)'
  BY <1>0 DEF ControlOf, Sweeping, Busy, Types
<1>6. CopyOf(t)'
  BY <1>0 DEF CopyOf, Types
<1> QED
  BY <1>1, <1>2, <1>3, <1>4, <1>5, <1>6, RegisterStep

\* The CAS of pop meets no ABA: when the head is the entry and version that were read,
\* the entry has been in the pool all the time, and its successor is the one that was read.
LEMMA PopSucceeds ==
    ASSUME PoolAssumption, PoolInv, NEW t \in Threads, PopCas(t), head = old[t]
    PROVE  /\ cache[t] = Null /\ head.e # Null /\ head.e \in Entries /\ localVer[t] = head.ver
           /\ head' = [e |-> next[head.e], ver |-> head.ver] /\ next[head.e] # head.e
           /\ cache' = [cache EXCEPT ![t] = head.e]
           /\ pc' = [pc EXCEPT ![t] = "clear"]
           /\ to' = [to EXCEPT ![t] = Null]
           /\ UNCHANGED <<next, unused, free, localVer, old, job, half, pushed>>
<1>0. Types /\ ControlOf(t) /\ CopyOf(t) /\ Lines
  BY DEF PoolInv, Control, Copies
<1>1. Busy(t, "pop") /\ cache[t] = Null /\ head.e # Null /\ localVer[t] = head.ver
  BY <1>0 DEF PopCas, ControlOf, Busy
<1>2. head.e \in Entries /\ head.e \in Pooled /\ Pooled = {head.e} \cup Reach(next, {next[head.e]})
  BY <1>0, <1>1, ListFacts DEF Types, Pointers
<1>3. to[t] = next[head.e]
  BY <1>1, <1>2, <1>0 DEF PopCas, CopyOf
<1>4. next[head.e] # head.e
  <2>1. head.e \notin Reach(next, {next[head.e]})
    BY <1>0, <1>2 DEF Lines
  <2>2. next[head.e] = head.e => head.e \in Reach(next, {next[head.e]})
    BY <1>2 DEF Pooled, Chain
  <2> QED
    BY <2>1, <2>2
<1>5. head' = [e |-> next[head.e], ver |-> head.ver]
  BY <1>3 DEF PopCas, VerCas
<1>6. head' # head
  BY <1>0, <1>4, <1>5 DEF Types
<1> QED
  BY <1>1, <1>2, <1>4, <1>5, <1>6 DEF PopCas, Goto

\* The CAS of pReturnCache: the cache was not in the pool.
LEMMA PushSucceeds ==
    ASSUME PoolAssumption, PoolInv, NEW t \in Threads, PushCas(t), head = old[t]
    PROVE  /\ cache[t] # Null /\ cache[t] \in Entries /\ cache[t] \notin Pooled
           /\ localVer[t] = head.ver /\ head.ver > 0 /\ next[cache[t]] = head.e
           /\ pushed[cache[t]] < head.ver
           /\ head' = [e |-> cache[t], ver |-> head.ver]
           /\ cache' = [cache EXCEPT ![t] = Null]
           /\ pushed' = [pushed EXCEPT ![cache[t]] = head.ver]
           /\ pc' = [pc EXCEPT ![t] = "sweep"]
           /\ UNCHANGED <<next, unused, free, localVer, old, to, job, half>>
<1>0. Types /\ ControlOf(t) /\ Ages /\ Disjoint
  BY DEF PoolInv, Control
<1>1. /\ Busy(t, "push") /\ Sweeping(t) /\ cache[t] # Null /\ localVer[t] = head.ver /\ head.ver > 0
      /\ next[cache[t]] = head.e
  BY <1>0 DEF PushCas, ControlOf, Busy, Sweeping
<1>2. cache[t] \in Entries /\ cache[t] \in Held(t)
  BY <1>0, <1>1 DEF Types, Pointers, Held
<1>3. cache[t] \notin Pooled
  BY <1>0, <1>2 DEF Disjoint
<1>4. pushed[cache[t]] < head.ver
  BY <1>0, <1>1, <1>2 DEF Ages
<1>5. head.e # cache[t]
  <2>1. head.e = cache[t] => head.e \in Pooled
    BY <1>0, <1>1, ListFacts
  <2> QED
    BY <1>3, <2>1
<1>6. head' = [e |-> cache[t], ver |-> head.ver]
  BY <1>1 DEF PushCas, VerCas
<1>7. head' # head
  BY <1>0, <1>5, <1>6 DEF Types
<1> QED
  BY <1>1, <1>2, <1>3, <1>4, <1>6, <1>7 DEF PushCas, Goto

\* PopCas preserves the invariant.
LEMMA PopCasInv ==
    ASSUME PoolAssumption, PoolInv, NEW t \in Threads, PopCas(t)
    PROVE  PoolInv'
<1>0. Types /\ Control /\ ControlOf(t) /\ CopyOf(t) /\ Disjoint /\ Lines /\ Ages /\ Copies
  BY DEF PoolInv, Control, Copies
<1>a. Busy(t, "pop") /\ pc[t] = "popCas" /\ half[t] = "none"
  BY <1>0 DEF PopCas, ControlOf, Busy
<1>1. CASE head # old[t]
  <2>1. /\ UNCHANGED <<head, next, unused, free, cache, localVer, old, half, pushed>>
        /\ to' = [to EXCEPT ![t] = Null]
        /\ job' = [job EXCEPT ![t] = "pop"] /\ pc' = [pc EXCEPT ![t] = "read"]
    BY <1>1 DEF PopCas, VerCas, ReadFor, Goto
  <2>2. to' \in [Threads -> Pointers] /\ \A u \in Threads \ {t} : to'[u] = to[u]
    BY <1>0, <2>1 DEF Types, Pointers
  <2> QED
    BY <1>a, <2>1, <2>2, RetryInv
<1>2. CASE head = old[t]
  <2> DEFINE c == head.e
  <2>1. /\ cache[t] = Null /\ c # Null /\ c \in Entries /\ localVer[t] = head.ver
        /\ head' = [e |-> next[c], ver |-> head.ver]
        /\ cache' = [cache EXCEPT ![t] = c]
        /\ pc' = [pc EXCEPT ![t] = "clear"]
        /\ to' = [to EXCEPT ![t] = Null]
        /\ UNCHANGED <<next, unused, free, localVer, old, job, half, pushed>>
    BY <1>2, PopSucceeds
  <2>2. Types'
    <3>1. head' \in [e : Pointers, ver : 0 .. MaxVer]
      BY <1>0, <2>1 DEF Types
    <3> QED
      BY <1>0, <2>1, <3>1 DEF Types, Pointers
  <2>3. Others(t)
    BY <1>0, <2>1 DEF Others, Types
  <2>4. \A u \in Threads \ {t} : ControlOf(u)' /\ Sweeping(u)' = Sweeping(u)
    <3>1. head'.ver \in Int /\ head'.ver >= head.ver
      BY <1>0, <2>1 DEF Types
    <3> QED
      BY <1>0, <2>1, <2>3, <3>1, OthersControl
  <2>5. ControlOf(t)'
    BY <1>0, <1>a, <2>1 DEF ControlOf, Sweeping, Busy, Types
  <2>6. ~ Sweeping(t)'
    BY <1>0, <2>1 DEF Sweeping, Busy, Types
  <2>7. Pooled' = Pooled \ {c} /\ Disjoint' /\ Lines' /\ Ages'
    <3>1. \A u \in Threads : Sweeping(u)' => Sweeping(u)
      BY <2>4, <2>6
    <3> QED
      BY <1>0, <2>1, <2>6, <3>1, PopStep
  <2>8. \A u \in Threads \ {t} : CopyOf(u)'
    BY <1>0, <2>1, <2>3, <2>7, OthersCopies
  <2>9. CopyOf(t)'
    BY <1>0, <1>a, <2>1 DEF CopyOf, Types
  <2> QED
    BY <2>2, <2>4, <2>5, <2>7, <2>8, <2>9 DEF PoolInv, Control, Copies
<1> QED
  BY <1>1, <1>2

\* PushCas preserves the invariant.
LEMMA PushCasInv ==
    ASSUME PoolAssumption, PoolInv, NEW t \in Threads, PushCas(t)
    PROVE  PoolInv'
<1>0. Types /\ Control /\ ControlOf(t) /\ CopyOf(t) /\ Disjoint /\ Lines /\ Ages /\ Copies
  BY DEF PoolInv, Control, Copies
<1>a. Busy(t, "push") /\ Sweeping(t) /\ pc[t] = "pushCas" /\ half[t] = "none"
  BY <1>0 DEF PushCas, ControlOf, Busy, Sweeping
<1>1. CASE head # old[t]
  <2>1. /\ UNCHANGED <<head, next, unused, free, cache, localVer, old, half, pushed, to>>
        /\ job' = [job EXCEPT ![t] = "push"] /\ pc' = [pc EXCEPT ![t] = "read"]
    BY <1>1 DEF PushCas, VerCas, ReadFor, Goto
  <2>2. to' \in [Threads -> Pointers] /\ \A u \in Threads \ {t} : to'[u] = to[u]
    BY <1>0, <2>1 DEF Types
  <2> QED
    BY <1>a, <2>1, <2>2, RetryInv
<1>2. CASE head = old[t]
  <2> DEFINE c == cache[t]
  <2>1. /\ c # Null /\ c \in Entries /\ c \notin Pooled /\ localVer[t] = head.ver /\ head.ver > 0
        /\ next[c] = head.e /\ pushed[c] < head.ver
        /\ head' = [e |-> c, ver |-> head.ver]
        /\ cache' = [cache EXCEPT ![t] = Null]
        /\ pushed' = [pushed EXCEPT ![c] = head.ver]
        /\ pc' = [pc EXCEPT ![t] = "sweep"]
        /\ UNCHANGED <<next, unused, free, localVer, old, to, job, half>>
    BY <1>2, PushSucceeds
  <2>2. Types'
    <3>1. head' \in [e : Pointers, ver : 0 .. MaxVer] /\ head.ver \in -1 .. MaxVer
      BY <1>0, <2>1 DEF Types, Pointers
    <3> QED
      BY <1>0, <2>1, <3>1 DEF Types, Pointers
  <2>3. Others(t)
    BY <1>0, <2>1 DEF Others, Types
  <2>4. \A u \in Threads \ {t} : ControlOf(u)' /\ Sweeping(u)' = Sweeping(u)
    <3>1. head'.ver \in Int /\ head'.ver >= head.ver
      BY <1>0, <2>1 DEF Types
    <3> QED
      BY <1>0, <2>1, <2>3, <3>1, OthersControl
  <2>5. ControlOf(t)'
    BY <1>0, <1>a, <2>1 DEF ControlOf, Sweeping, Busy, Types
  <2>6. Pooled' = Pooled \cup {c} /\ Disjoint' /\ Lines' /\ Ages'
    <3>1. \A u \in Threads : Sweeping(u)' => Sweeping(u)
      BY <1>a, <2>4
    <3> QED
      BY <1>0, <2>1, <3>1, PushStep
  <2>7. \A u \in Threads \ {t} : CopyOf(u)'
    <3>1. ASSUME NEW u \in Threads \ {t}, pc[u] = "popCas", localVer[u] = head.ver
          PROVE  old[u].e # c
      <4>1. CopyOf(u) /\ ControlOf(u)
        BY <1>0 DEF Copies, Control
      <4>2. pushed[old[u].e] = head.ver
        BY <4>1, <3>1, <2>1 DEF CopyOf, ControlOf, Busy
      <4> QED
        BY <1>0, <2>1, <4>2 DEF Types
    <3>2. \A e \in Entries : pushed[e] = head.ver => pushed'[e] = head.ver
      BY <1>0, <2>1 DEF Types
    <3>3. head'.ver = head.ver /\ \A e \in Pooled : next'[e] = next[e]
      BY <2>1
    <3>4. \A u \in Threads \ {t} :
            pc[u] = "popCas" /\ localVer[u] = head.ver /\ old[u].e \in Pooled' => old[u].e \in Pooled
      BY <2>6, <3>1
    <3> QED
      BY <1>0, <2>3, <3>2, <3>3, <3>4, OthersCopies
  <2>8. CopyOf(t)'
    BY <1>0, <1>a, <2>1 DEF CopyOf, Busy, Types
  <2> QED
    BY <2>2, <2>4, <2>5, <2>6, <2>7, <2>8 DEF PoolInv, Control, Copies
<1> QED
  BY <1>1, <1>2

\* What the invariant says is untouched by a step that changes nothing.
LEMMA StutterInv ==
    ASSUME PoolInv, UNCHANGED vars
    PROVE  PoolInv'
<1> USE DEF vars, regs
<1>1. Pooled' = Pooled /\ \A t \in Threads : Freed(t)' = Freed(t) /\ Held(t)' = Held(t)
  BY DEF Pooled, Freed, Chain, Held
<1>2. \A t \in Threads : Sweeping(t)' = Sweeping(t) /\ ControlOf(t)' = ControlOf(t)
  BY DEF Sweeping, Busy, ControlOf
<1>3. Types' /\ Control'
  BY <1>2 DEF PoolInv, Types, Control
<1>4. Disjoint' /\ Lines'
  BY <1>1 DEF PoolInv, Disjoint, Lines
<1>5. Ages' /\ Copies'
  BY <1>1, <1>2 DEF PoolInv, Ages, Copies, CopyOf
<1> QED
  BY <1>3, <1>4, <1>5 DEF PoolInv

\* Every step preserves the invariant.
LEMMA NextInv ==
    ASSUME PoolAssumption, PoolInv, [Next]_vars
    PROVE  PoolInv'
<1>1. CASE UNCHANGED vars
  BY <1>1, StutterInv
<1>2. CASE AtBound
  BY <1>2, StutterInv DEF AtBound
<1>3. ASSUME NEW t \in Threads, Step(t) PROVE PoolInv'
  BY <1>3, ReadFirstInv, ReadSecondInv, AllocateInv, PopFollowInv, PopCasInv, ClearNextInv, CollectInv,
     SwingInv, GetAllocEntryInv, ReturnCacheInv, PushLinkInv, PushCasInv, EndSweepInv DEF Step
<1> QED
  BY <1>1, <1>2, <1>3 DEF Next

\* The inductive invariant of the pool.
THEOREM PoolInvariant == Spec => []PoolInv
<1>1. Init => PoolInv
  BY InitInv, PoolAssumption
<1>2. PoolInv /\ [Next]_vars => PoolInv'
  BY NextInv, PoolAssumption
<1> QED
  BY <1>1, <1>2, PTL DEF Spec

-----------------------------------------------------------------------------
(* What follows from it.                                                   *)

\* The types, and that no thread's version, nor a version it has read, is ahead of the
\* head's (the comparisons of pop and pReturnCache are with a version that was there).
THEOREM TypeCorrect == Spec => []TypeOK
<1>1. PoolInv => TypeOK
  BY DEF PoolInv, Types, Control, ControlOf, TypeOK
<1> QED
  BY <1>1, PoolInvariant, PTL

\* An entry is in the pool, on one free list, in one thread's hands, or in the array, and
\* nowhere twice (allocator.c:153-195 and trace.c:315-350).
THEOREM EntriesDisjoint == Spec => []Disjoint
<1>1. PoolInv => Disjoint
  BY DEF PoolInv
<1> QED
  BY <1>1, PoolInvariant, PTL

\* In one version an entry is pushed once at most: the comment at allocator.c:169.
THEOREM PushedOnlyOnce == Spec => PushedOnce
<1> DEFINE Once == \A t \in Threads : PushCas(t) /\ head' # head => pushed[cache[t]] < localVer[t]
<1>1. PoolInv /\ [Next]_vars => [Once]_vars
  <2> SUFFICES ASSUME PoolInv, NEW t \in Threads, PushCas(t), head' # head
               PROVE  pushed[cache[t]] < localVer[t]
    OBVIOUS
  <2>1. head = old[t]
    BY DEF PushCas, VerCas
  <2> QED
    BY <2>1, PushSucceeds, PoolAssumption
<1> QED
  BY <1>1, PoolInvariant, PTL DEF Spec, PushedOnce

\* The linked stack is a set of entries that belongs to a version: each CAS that succeeds puts
\* one entry in, takes one out, or starts a version with an empty set, and no other step
\* changes what is in the pool, although threads write `next` fields all the time.
THEOREM ImplementsCachePool == Spec => PoolSpec
<1>1. Init => Abstract!Init
  <2> SUFFICES ASSUME Init PROVE Abstract!Init
    OBVIOUS
  <2>1. PoolInv
    BY InitInv, PoolAssumption
  <2>2. Pooled \subseteq Entries
    BY <2>1, ListFacts, PoolAssumption DEF PoolInv
  <2> QED
    BY <2>2 DEF Abstract!Init, Init
<1>2. PoolInv /\ [Next]_vars => [Abstract!Next]_<<Pooled, head.ver>>
  <2> SUFFICES ASSUME PoolInv, [Next]_vars
               PROVE  Abstract!Next \/ UNCHANGED <<Pooled, head.ver>>
    OBVIOUS
  <2> USE PoolAssumption
  <2>0. Types /\ Disjoint /\ Lines /\ Control
    BY DEF PoolInv
  <2>1. ASSUME UNCHANGED <<head, next>> PROVE UNCHANGED <<Pooled, head.ver>>
    BY <2>1 DEF Pooled, Chain
  <2>2. ASSUME NEW t \in Threads, cache[t] # Null, NEW v, next' = [next EXCEPT ![cache[t]] = v], head' = head
        PROVE  UNCHANGED <<Pooled, head.ver>>
    BY <2>0, <2>2, OwnWrite DEF Pooled, Chain
  <2>3. ASSUME NEW t \in Threads, Drop(t), head' = head PROVE UNCHANGED <<Pooled, head.ver>>
    BY <2>1, <2>2, <2>3 DEF Drop
  <2>4. ASSUME NEW t \in Threads, PopCas(t) PROVE Abstract!Next \/ UNCHANGED <<Pooled, head.ver>>
    <3>1. CASE head # old[t]
      BY <2>1, <2>4, <3>1 DEF PopCas, VerCas
    <3>2. CASE head = old[t]
      <4>1. /\ head.e \in Pooled /\ Pooled = {head.e} \cup Reach(next, {next[head.e]})
            /\ next' = next /\ head' = [e |-> next[head.e], ver |-> head.ver]
        BY <2>0, <2>4, <3>2, PopSucceeds, ListFacts
      <4>2. head.e \notin Reach(next, {next[head.e]})
        BY <2>0, <4>1 DEF Lines
      <4>3. Pooled' = Pooled \ {head.e} /\ head'.ver = head.ver
        BY <4>1, <4>2 DEF Pooled, Chain
      <4> QED
        BY <4>1, <4>3 DEF Abstract!Next, Abstract!Take
    <3> QED
      BY <3>1, <3>2
  <2>5. ASSUME NEW t \in Threads, PushCas(t) PROVE Abstract!Next \/ UNCHANGED <<Pooled, head.ver>>
    <3>1. CASE head # old[t]
      BY <2>1, <2>5, <3>1 DEF PushCas, VerCas
    <3>2. CASE head = old[t]
      <4>1. /\ cache[t] \in Entries /\ cache[t] \notin Pooled /\ next[cache[t]] = head.e
            /\ next' = next /\ head' = [e |-> cache[t], ver |-> head.ver]
        BY <2>5, <3>2, PushSucceeds
      <4>2. Reach(next, {cache[t]}) = {cache[t]} \cup Reach(next, {next[cache[t]]})
        BY <2>0, <4>1, ReachUnfold DEF Types
      <4>3. Pooled' = Pooled \cup {cache[t]} /\ head'.ver = head.ver
        BY <4>1, <4>2 DEF Pooled, Chain
      <4> QED
        BY <4>1, <4>3 DEF Abstract!Next, Abstract!Put
    <3> QED
      BY <3>1, <3>2
  <2>6. ASSUME NEW t \in Threads, Swing(t) PROVE Abstract!Next \/ UNCHANGED <<Pooled, head.ver>>
    <3>1. CASE head' = head
      BY <2>1, <2>6, <3>1 DEF Swing
    <3>2. CASE head' # head
      <4>1. /\ head' = [e |-> Null, ver |-> head.ver + 1] /\ next' = next
            /\ localVer[t] = head.ver /\ pc[t] = "swing"
        BY <2>6, <3>2 DEF Swing, VerCas
      <4>2. head.ver < MaxVer
        BY <2>0, <4>1 DEF Control, ControlOf, Busy
      <4>3. Pooled' = {} /\ head'.ver = head.ver + 1
        BY <2>0, <4>1, ListFacts DEF Pooled, Chain
      <4> QED
        BY <4>2, <4>3 DEF Abstract!Next, Abstract!NewVersion
    <3> QED
      BY <3>1, <3>2
  <2>7. ASSUME NEW t \in Threads, Step(t) PROVE Abstract!Next \/ UNCHANGED <<Pooled, head.ver>>
    <3>1. CASE ReadFirst(t) \/ ReadSecond(t) \/ PopFollow(t) \/ GetAllocEntry(t) \/ ReturnCache(t) \/ EndSweep(t)
      BY <2>1, <3>1 DEF ReadFirst, ReadSecond, PopFollow, GetAllocEntry, ReturnCache, EndSweep
    <3>2. CASE Allocate(t) \/ Collect(t)
      BY <2>3, <3>2 DEF Allocate, Collect
    <3>3. CASE ClearNext(t) \/ PushLink(t)
      <4>1. cache[t] # Null
        BY <2>0, <3>3 DEF ClearNext, PushLink, Control, ControlOf, Busy
      <4> QED
        BY <2>1, <2>2, <3>3, <4>1 DEF ClearNext, PushLink
    <3> QED
      BY <2>4, <2>5, <2>6, <2>7, <3>1, <3>2, <3>3 DEF Step
  <2>8. CASE UNCHANGED vars
    BY <2>1, <2>8 DEF vars
  <2>9. CASE AtBound
    BY <2>1, <2>9 DEF AtBound, vars
  <2> QED
    BY <2>7, <2>8, <2>9 DEF Next
<1> QED
  BY <1>1, <1>2, PoolInvariant, PTL DEF Spec, PoolSpec, Abstract!Spec
=============================================================================
