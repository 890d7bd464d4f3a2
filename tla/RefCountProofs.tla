---------------------------- MODULE RefCountProofs ----------------------------
(***************************************************************************)
(* Theorems about RefCount.  The count of a node is twice the number of    *)
(* references to it, and one more while the node is reclaimed: the         *)
(* references are those of links, of the variables of the threads, and of  *)
(* the calls of release that are still to come.                            *)
(***************************************************************************)
EXTENDS RefCount, ReachabilityProofs, FiniteSetTheorems, SequenceTheorems, TLAPS

\* 1 if a is b.
Is(a, b) == IF a = b THEN 1 ELSE 0

\* How often f has the value v, and how often the call c is in the sequences of f.
Times(f, v) == Cardinality({x \in DOMAIN f : f[x] = v})
Spots(s, c) == {k \in DOMAIN s : s[k] = c}
AllSpots(f, c) == UNION {{t} \X Spots(f[t], c) : t \in DOMAIN f}
Calls(f, c) == Cardinality(AllSpots(f, c))

\* Where a thread is, or will be when its calls have returned.
Place(t) == IF pc[t] = "release" THEN then[t] ELSE pc[t]
\* In a safeRead, and after the search of find.
Reading == {"read", "count", "confirm"}
Filled == {"end", "unclaim", "fill", "link"}

\* The variables that are counted: fres.next and safeRead's q not always.
NxtHeld == [t \in Threads |-> IF Place(t) \in Filled \cup {"judge"} THEN nxt[t] ELSE Null]
QHeld == [t \in Threads |-> IF pc[t] = "confirm" THEN q[t] ELSE Null]

\* Who has claimed a node: a call of reclaim, a free list, or newRC.
Unclaiming == [t \in Threads |-> IF pc[t] = "unclaim" THEN new[t] ELSE Null]
InFree(n) == [t \in Threads |-> IF n \in FreeSet(t) THEN n ELSE Null]
Claims(n) == Calls(todo, <<"reclaim", n>>) + Times(InFree(n), n) + Times(Unclaiming, n)

\* The links that are counted: not those of free nodes, nor of one that is not filled in.
Filling(n) == \E t \in Threads : pc[t] = "fill" /\ new[t] = n
Linker(x) == x = Root \/ (x \in Nodes \ fresh /\ Claims(x) = 0 /\ ~ Filling(x))
Links == [x \in Cells |-> IF Linker(x) THEN to[x] ELSE Null]

Refs(n) == Times(Links, n) + Times(prev, n) + Times(cur, n) + Times(NxtHeld, n)
           + Times(QHeld, n) + Times(new, n) + Calls(todo, <<"release", n>>)

\* What may be followed: a link's node, or one that find has come to.
Held(t) == {prev[t], cur[t], NxtHeld[t]}
Target(n) == (\E x \in Cells : Links[x] = n) \/ (\E t \in Threads : n \in Held(t))

-----------------------------------------------------------------------------
RefCountPC == {"idle", "read", "count", "confirm", "judge", "end", "addLink", "unclaim",
               "fill", "link", "release"}

\* The types of all variables.
Types ==
    /\ to \in [Cells -> Pointers] /\ del \in [Cells -> BOOLEAN]
    /\ count \in [Nodes -> Nat] /\ key \in [Nodes -> Keys \cup {0}]
    /\ fresh \in SUBSET Nodes /\ freeList \in [Threads -> Pointers]
    /\ op \in [Threads -> {"none", "insert", "delete", "search", "unlink"}]
    /\ arg \in [Threads -> Keys \cup {0}]
    /\ prev \in [Threads -> Cells] /\ cur \in [Threads -> Pointers]
    /\ nxt \in [Threads -> Pointers] /\ nd \in [Threads -> BOOLEAN]
    /\ dst \in [Threads -> {"cur", "nxt"}]
    /\ q \in [Threads -> Pointers] /\ qd \in [Threads -> BOOLEAN]
    /\ new \in [Threads -> Pointers]
    /\ todo \in [Threads -> Seq({"release", "reclaim"} \X Nodes)]
    /\ then \in [Threads -> {"idle", "read", "addLink", "end"}]
    /\ pc \in [Threads -> RefCountPC]

\* Where a thread is, and which of its variables have a node.
Control(t) ==
    /\ pc[t] = "release" <=> todo[t] # <<>>
    /\ Place(t) = "idle" => dst[t] = "cur"
    /\ dst[t] = "cur" =>
       Place(t) \in Reading \cup {"idle"} /\ prev[t] = Root /\ cur[t] = Null /\ nxt[t] = Null
    /\ dst[t] = "nxt" /\ Place(t) \in Reading \cup {"judge", "addLink"} => cur[t] \in Nodes
    /\ pc[t] \in {"count", "confirm"} => q[t] \in Nodes \ fresh
    /\ IF pc[t] \in {"unclaim", "fill", "link"} THEN new[t] \in Nodes ELSE new[t] = Null

\* What find has established: the link of a marked node does not change, and the key is
\* between that of prev and that of cur.
Searched(t) ==
    /\ Place(t) = "addLink" \/ (Place(t) = "judge" /\ nd[t]) => del[cur[t]] /\ to[cur[t]] = nxt[t]
    /\ Place(t) # "idle" => arg[t] \in Keys
    /\ prev[t] \in Nodes => key[prev[t]] < arg[t]
    /\ Place(t) \in Filled /\ cur[t] \in Nodes => arg[t] <= key[cur[t]]
    /\ Place(t) \in Filled \ {"end"} /\ cur[t] \in Nodes => arg[t] # key[cur[t]]
    /\ pc[t] = "link" => key[new[t]] = arg[t] /\ to[new[t]] = cur[t] /\ ~ del[new[t]]

\* A new node is its thread's own, but for readers that have not looked again.
Private(t) ==
    new[t] \in Nodes =>
    /\ ~ Target(new[t])
    /\ \A u \in Threads : new[u] = new[t] => u = t
    /\ Claims(new[t]) = Is(pc[t], "unclaim")

\* The count of a node that has been handed out is twice its references, and one more while
\* it is claimed, which it is once at most.
Counted ==
    \A n \in Nodes :
        IF n \in fresh THEN Refs(n) = 0 /\ Claims(n) = 0
        ELSE count[n] = 2 * Refs(n) + Claims(n) /\ Claims(n) <= 1 /\ Refs(n) + Claims(n) >= 1

\* What can be followed is not claimed.
Live == \A n \in Nodes : Target(n) => Claims(n) = 0

\* No free list comes back to a node.
NoLoop == \A t \in Threads : \A n \in FreeSet(t) : n \notin Reach(to, {to[n]})

\* Links that count lead to greater keys, in the list or not.
Order ==
    \A x \in Nodes : Linker(x) =>
        /\ key[x] \in Keys
        /\ to[x] \in Nodes => key[x] < key[to[x]]

\* What can be followed is in the list, or marked.
OnList == \A n \in Nodes : Target(n) => n \in InList \/ del[n]

\* The inductive invariant.
RefInv ==
    /\ Types /\ Counted /\ Live /\ NoLoop /\ Order /\ OnList
    /\ \A t \in Threads : Control(t) /\ Searched(t) /\ Private(t)

-----------------------------------------------------------------------------
(* Counting.                                                               *)

\* A number is counted for every value.
LEMMA TimesType ==
    ASSUME NEW f, IsFiniteSet(DOMAIN f), NEW v
    PROVE  Times(f, v) \in Nat /\ IsFiniteSet({x \in DOMAIN f : f[x] = v})
<1>1. {x \in DOMAIN f : f[x] = v} \in SUBSET DOMAIN f
  OBVIOUS
<1>2. IsFiniteSet({x \in DOMAIN f : f[x] = v})
  BY <1>1, FS_Subset
<1> QED
  BY <1>2, FS_CardinalityType DEF Times

\* When a function changes at one place its values are counted as the change says.
LEMMA TimesStep ==
    ASSUME NEW f, NEW g, IsFiniteSet(DOMAIN f), DOMAIN g = DOMAIN f, NEW t \in DOMAIN f,
           \A u \in DOMAIN f \ {t} : g[u] = f[u], NEW v
    PROVE  /\ Times(f, v) \in Nat /\ Times(g, v) \in Nat
           /\ Times(g, v) = Times(f, v) - Is(f[t], v) + Is(g[t], v)
<1> DEFINE F == {x \in DOMAIN f : f[x] = v}
           G == {x \in DOMAIN g : g[x] = v}
           R == F \ {t}
<1>1. IsFiniteSet(F) /\ IsFiniteSet(G) /\ Times(f, v) \in Nat /\ Times(g, v) \in Nat
  BY TimesType
<1>2. R = G \ {t}
  OBVIOUS
<1>0. Cardinality(G \ {t}) = IF t \in G THEN Cardinality(G) - 1 ELSE Cardinality(G)
  BY <1>1, FS_RemoveElement
<1>3. Cardinality(R) = IF t \in F THEN Cardinality(F) - 1 ELSE Cardinality(F)
  BY <1>1, FS_RemoveElement
<1>4. Cardinality(R) = IF t \in G THEN Cardinality(G) - 1 ELSE Cardinality(G)
  BY <1>0, <1>2
<1>5. (t \in F <=> f[t] = v) /\ (t \in G <=> g[t] = v)
  OBVIOUS
<1> HIDE DEF F, G, R
<1>6. Cardinality(F) \in Nat /\ Cardinality(G) \in Nat
  BY <1>1, FS_CardinalityType
<1>7. Cardinality(G) = Cardinality(F) - Is(f[t], v) + Is(g[t], v)
  BY <1>3, <1>4, <1>5, <1>6 DEF Is
<1> QED
  BY <1>1, <1>7 DEF Times, F, G

\* A value that a function has is counted, one that it has twice is counted twice.
LEMMA TimesSome ==
    ASSUME NEW f, IsFiniteSet(DOMAIN f), NEW t \in DOMAIN f
    PROVE  /\ Times(f, f[t]) >= 1
           /\ \A u \in DOMAIN f : u # t /\ f[u] = f[t] => Times(f, f[t]) >= 2
<1> DEFINE F == {x \in DOMAIN f : f[x] = f[t]}
<1>1. IsFiniteSet(F) /\ t \in F
  BY TimesType
<1>2. Cardinality(F \ {t}) = Cardinality(F) - 1 /\ IsFiniteSet(F \ {t})
  BY <1>1, FS_RemoveElement
<1>3. Cardinality(F) \in Nat /\ Cardinality(F \ {t}) \in Nat
  BY <1>1, <1>2, FS_CardinalityType
<1>4. ASSUME NEW u \in DOMAIN f, u # t, f[u] = f[t] PROVE Cardinality(F \ {t}) # 0
  BY <1>2, <1>4, FS_EmptySet
<1> HIDE DEF F
<1>5. Cardinality(F) >= 1
  BY <1>2, <1>3
<1>6. ASSUME NEW u \in DOMAIN f, u # t, f[u] = f[t] PROVE Cardinality(F) >= 2
  BY <1>2, <1>3, <1>4, <1>6
<1> QED
  BY <1>5, <1>6 DEF Times, F

\* What is counted is there.
LEMMA TimesNone ==
    ASSUME NEW f, IsFiniteSet(DOMAIN f), NEW v, \A t \in DOMAIN f : f[t] # v
    PROVE  Times(f, v) = 0
<1>1. {x \in DOMAIN f : f[x] = v} = {}
  OBVIOUS
<1> QED
  BY <1>1, FS_EmptySet DEF Times

\* Calls in a sequence.
Occ(s, c) == Cardinality(Spots(s, c))

\* The calls of a sequence are a finite number.
LEMMA OccType ==
    ASSUME NEW S, NEW s \in Seq(S), NEW c
    PROVE  Occ(s, c) \in Nat /\ IsFiniteSet(Spots(s, c))
<1>1. DOMAIN s = 1 .. Len(s) /\ Len(s) \in Nat
  BY LenProperties
<1>2. Spots(s, c) \in SUBSET (1 .. Len(s))
  BY <1>1 DEF Spots
<1>3. 1 \in Int /\ Len(s) \in Int
  BY <1>1
<1>4. IsFiniteSet(1 .. Len(s))
  BY <1>3, FS_Interval
<1>5. IsFiniteSet(Spots(s, c))
  BY <1>2, <1>4, FS_Subset
<1> QED
  BY <1>5, FS_CardinalityType DEF Occ

\* No call is in the empty sequence.
LEMMA OccEmpty ==
    ASSUME NEW c
    PROVE  Occ(<<>>, c) = 0
<1>1. Spots(<<>>, c) = {}
  BY DEF Spots
<1> QED
  BY <1>1, FS_EmptySet DEF Occ

\* What is in a sequence of one call.
LEMMA OccOne ==
    ASSUME NEW d, NEW c
    PROVE  Occ(<<d>>, c) = Is(d, c)
<1>1. Spots(<<d>>, c) = IF d = c THEN {1} ELSE {}
  BY DEF Spots
<1> QED
  BY <1>1, FS_EmptySet, FS_Singleton DEF Occ, Is

\* The calls of a concatenation are those of its parts.
LEMMA OccConcat ==
    ASSUME NEW S, NEW s \in Seq(S), NEW u \in Seq(S), NEW c
    PROVE  Occ(s \o u, c) = Occ(s, c) + Occ(u, c)
<1>1. Len(s) \in Nat /\ Len(u) \in Nat /\ DOMAIN s = 1 .. Len(s) /\ DOMAIN u = 1 .. Len(u)
  BY LenProperties
<1>2. /\ s \o u \in Seq(S) /\ Len(s \o u) = Len(s) + Len(u)
      /\ \A i \in 1 .. Len(s) + Len(u) : (s \o u)[i] = IF i <= Len(s) THEN s[i] ELSE u[i - Len(s)]
  BY ConcatProperties
<1>3. DOMAIN (s \o u) = 1 .. Len(s) + Len(u)
  BY <1>2, LenProperties
<1> DEFINE w == s \o u
           U == {i \in DOMAIN w : i > Len(s) /\ w[i] = c}
           h == [k \in Spots(u, c) |-> k + Len(s)]
<1> HIDE DEF w
<1>4. Spots(w, c) = Spots(s, c) \cup U
  BY <1>1, <1>2, <1>3 DEF Spots, w
<1>5. Spots(s, c) \cap U = {}
  BY <1>1, <1>2, <1>3 DEF Spots, w
<1>6. IsFiniteSet(Spots(s, c)) /\ IsFiniteSet(Spots(u, c)) /\ IsFiniteSet(Spots(w, c))
  BY <1>2, OccType DEF w
<1>7. IsFiniteSet(U)
  BY <1>4, <1>6, FS_Subset
<1>8. h \in Bijection(Spots(u, c), U)
  <2>1. \A k \in Spots(u, c) : k \in Nat /\ k + Len(s) \in U
    BY <1>1, <1>2, <1>3 DEF Spots, w
  <2>2. \A i \in U : i - Len(s) \in Spots(u, c) /\ i = (i - Len(s)) + Len(s)
    BY <1>1, <1>2, <1>3 DEF Spots, w
  <2> HIDE DEF U
  <2>3. h \in [Spots(u, c) -> U]
    BY <2>1
  <2>4. \A a, b \in Spots(u, c) : h[a] = h[b] => a = b
    BY <1>1, <2>1
  <2>5. \A i \in U : \E k \in Spots(u, c) : h[k] = i
    BY <2>2
  <2> QED
    BY <2>3, <2>4, <2>5 DEF Bijection, Injection, Surjection, IsInjective
<1>9. Cardinality(U) = Cardinality(Spots(u, c))
  BY <1>6, <1>8, FS_Bijection DEF ExistsBijection
<1>10. Cardinality(Spots(w, c)) = Cardinality(Spots(s, c)) + Cardinality(U)
  <2>1. Cardinality(Spots(s, c) \cap U) = 0
    BY <1>5, FS_EmptySet
  <2>2. Cardinality(Spots(s, c)) \in Nat /\ Cardinality(U) \in Nat
    BY <1>6, <1>7, FS_CardinalityType
  <2> HIDE DEF U
  <2>3. Cardinality(Spots(s, c) \cup U)
        = Cardinality(Spots(s, c)) + Cardinality(U) - Cardinality(Spots(s, c) \cap U)
    BY <1>6, <1>7, FS_Union
  <2>4. Cardinality(Spots(s, c)) + Cardinality(U) - 0 = Cardinality(Spots(s, c)) + Cardinality(U)
    BY <2>2
  <2> QED
    BY <1>4, <2>1, <2>3, <2>4
<1> QED
  BY <1>9, <1>10 DEF Occ, w

\* The first call, and the others.
LEMMA OccTail ==
    ASSUME NEW S, NEW s \in Seq(S), s # <<>>, NEW c
    PROVE  Occ(s, c) = Is(Head(s), c) + Occ(Tail(s), c)
<1>1. Head(s) \in S /\ Tail(s) \in Seq(S) /\ <<Head(s)>> \in Seq(S)
  BY HeadTailProperties
<1>2. s = <<Head(s)>> \o Tail(s)
  BY SMT
<1>3. Occ(s, c) = Occ(<<Head(s)>>, c) + Occ(Tail(s), c)
  <2>1. Occ(<<Head(s)>> \o Tail(s), c) = Occ(<<Head(s)>>, c) + Occ(Tail(s), c)
    BY <1>1, OccConcat
  <2> QED
    BY <1>2, <2>1
<1> QED
  BY <1>3, OccOne

\* The sequences of calls there can be.
CallSeq == Seq({"release", "reclaim"} \X Nodes)

\* The calls of the others.
OtherSpots(f, c, t) == {p \in AllSpots(f, c) : p[1] # t}

\* The calls of all the sequences: when one sequence changes, what it adds changes.
LEMMA CallsSplit ==
    ASSUME NEW f, IsFiniteSet(DOMAIN f), \A u \in DOMAIN f : f[u] \in CallSeq, NEW c,
           NEW t \in DOMAIN f
    PROVE  /\ Calls(f, c) \in Nat
           /\ IsFiniteSet(OtherSpots(f, c, t)) /\ Cardinality(OtherSpots(f, c, t)) \in Nat
           /\ Calls(f, c) = Cardinality(OtherSpots(f, c, t)) + Occ(f[t], c)
<1> DEFINE all == AllSpots(f, c)
           A == {p \in all : p[1] # t}
           B == {t} \X Spots(f[t], c)
           P(u) == {u} \X Spots(f[u], c)
           parts == {P(u) : u \in DOMAIN f}
<1>1. IsFiniteSet(all)
  <2>1. ASSUME NEW u \in DOMAIN f PROVE IsFiniteSet(P(u))
    <3>1. IsFiniteSet({u}) /\ IsFiniteSet(Spots(f[u], c))
      BY OccType, FS_Singleton DEF CallSeq
    <3> QED
      BY <3>1, FS_Product
  <2>2. IsFiniteSet(parts)
    <3> DEFINE h == [u \in DOMAIN f |-> P(u)]
    <3>1. h \in Surjection(DOMAIN f, parts)
      BY DEF Surjection
    <3> QED
      BY <3>1, FS_Surjection
  <2>3. \A T \in parts : IsFiniteSet(T)
    BY <2>1
  <2>4. all = UNION parts
    BY DEF AllSpots
  <2> HIDE DEF parts, all
  <2> QED
    BY <2>2, <2>3, <2>4, FS_UNION
<1>2. B = {p \in all : p[1] = t}
  BY DEF AllSpots
<1>3. all = A \cup B /\ A \cap B = {}
  BY <1>2
<1>4. Cardinality(B) = Occ(f[t], c) /\ Occ(f[t], c) \in Nat
  <2>1. IsFiniteSet({t}) /\ Cardinality({t}) = 1
    BY FS_Singleton
  <2>2. IsFiniteSet(Spots(f[t], c)) /\ Occ(f[t], c) \in Nat
    BY OccType DEF CallSeq
  <2>3. Cardinality(B) = Cardinality({t}) * Cardinality(Spots(f[t], c))
    BY <2>1, <2>2, FS_Product
  <2>4. Cardinality(B) = 1 * Occ(f[t], c)
    BY <2>1, <2>3 DEF Occ
  <2> HIDE DEF B
  <2> QED
    BY <2>2, <2>4
<1>5. A \in SUBSET all /\ B \in SUBSET all
  BY <1>3
<1>6. IsFiniteSet(A) /\ IsFiniteSet(B)
  BY <1>1, <1>5, FS_Subset
<1>7. Cardinality(A) \in Nat /\ Cardinality(all) \in Nat
  BY <1>1, <1>6, FS_CardinalityType
<1>8. Cardinality(A \cap B) = 0
  BY <1>3, FS_EmptySet
<1>9. Cardinality(A \cup B) = Cardinality(A) + Cardinality(B) - Cardinality(A \cap B)
  BY <1>6, FS_Union
<1>10. Calls(f, c) = Cardinality(all)
  BY DEF Calls
<1> HIDE DEF A, B, all
<1>11. Cardinality(all) = Cardinality(A) + Occ(f[t], c)
  BY <1>3, <1>4, <1>7, <1>8, <1>9
<1> QED
  BY <1>1, <1>6, <1>7, <1>10, <1>11 DEF A, all, OtherSpots

\* When one thread's calls change, the number of calls changes as its own does.
LEMMA CallsStep ==
    ASSUME NEW f, NEW g, IsFiniteSet(DOMAIN f), DOMAIN g = DOMAIN f,
           \A u \in DOMAIN f : f[u] \in CallSeq /\ g[u] \in CallSeq,
           NEW t \in DOMAIN f, \A u \in DOMAIN f \ {t} : g[u] = f[u], NEW c
    PROVE  /\ Calls(f, c) \in Nat /\ Calls(g, c) \in Nat
           /\ Calls(g, c) = Calls(f, c) - Occ(f[t], c) + Occ(g[t], c)
<1> DEFINE F == OtherSpots(f, c, t)
           G == OtherSpots(g, c, t)
<1>1. F = G
  BY DEF AllSpots, OtherSpots
<1>2. Calls(f, c) \in Nat /\ Cardinality(F) \in Nat /\ Calls(f, c) = Cardinality(F) + Occ(f[t], c)
  BY CallsSplit
<1>3. Calls(g, c) \in Nat /\ Cardinality(G) \in Nat /\ Calls(g, c) = Cardinality(G) + Occ(g[t], c)
  BY CallsSplit
<1>4. Occ(f[t], c) \in Nat /\ Occ(g[t], c) \in Nat
  BY OccType DEF CallSeq
<1> HIDE DEF F, G
<1> QED
  BY <1>1, <1>2, <1>3, <1>4

\* There are as many calls as one thread has, and as two have.
LEMMA CallsSome ==
    ASSUME NEW f, IsFiniteSet(DOMAIN f), \A u \in DOMAIN f : f[u] \in CallSeq, NEW c,
           NEW t \in DOMAIN f
    PROVE  /\ Calls(f, c) \in Nat /\ Occ(f[t], c) \in Nat
           /\ Calls(f, c) >= Occ(f[t], c)
           /\ \A u \in DOMAIN f : u # t => Calls(f, c) >= Occ(f[t], c) + Occ(f[u], c)
<1> DEFINE A == OtherSpots(f, c, t)
<1>1. /\ Calls(f, c) \in Nat /\ IsFiniteSet(A) /\ Cardinality(A) \in Nat
      /\ Calls(f, c) = Cardinality(A) + Occ(f[t], c)
  BY CallsSplit
<1>2. Occ(f[t], c) \in Nat
  BY OccType DEF CallSeq
<1>3. ASSUME NEW u \in DOMAIN f, u # t PROVE Occ(f[u], c) \in Nat /\ Occ(f[u], c) <= Cardinality(A)
  <2> DEFINE B == {u} \X Spots(f[u], c)
  <2>1. IsFiniteSet({u}) /\ Cardinality({u}) = 1
    BY FS_Singleton
  <2>2. IsFiniteSet(Spots(f[u], c)) /\ Occ(f[u], c) \in Nat
    BY OccType DEF CallSeq
  <2>3. Cardinality(B) = Cardinality({u}) * Cardinality(Spots(f[u], c))
    BY <2>1, <2>2, FS_Product
  <2>4. Cardinality(B) = 1 * Occ(f[u], c)
    BY <2>1, <2>3 DEF Occ
  <2>5. B \in SUBSET A
    BY <1>3 DEF AllSpots, OtherSpots
  <2>6. Cardinality(B) <= Cardinality(A)
    BY <1>1, <2>5, FS_Subset
  <2> HIDE DEF A, B
  <2> QED
    BY <2>2, <2>4, <2>6
<1> HIDE DEF A
<1> QED
  BY <1>1, <1>2, <1>3

\* A call that is there occurs.
LEMMA OccSome ==
    ASSUME NEW S, NEW s \in Seq(S), NEW i \in DOMAIN s
    PROVE  Occ(s, s[i]) >= 1
<1>1. Occ(s, s[i]) \in Nat /\ IsFiniteSet(Spots(s, s[i]))
  BY OccType
<1>2. i \in Spots(s, s[i])
  BY DEF Spots
<1>3. Occ(s, s[i]) # 0
  BY <1>1, <1>2, FS_EmptySet DEF Occ
<1> QED
  BY <1>1, <1>3

\* No thread has a call.
LEMMA CallsNone ==
    ASSUME NEW f, NEW c, \A t \in DOMAIN f : f[t] = <<>>
    PROVE  Calls(f, c) = 0
<1>1. \A t \in DOMAIN f : Spots(f[t], c) = {}
  BY DEF Spots
<1>2. AllSpots(f, c) = {}
  BY <1>1 DEF AllSpots
<1> QED
  BY <1>2, FS_EmptySet DEF Calls

\* No more is counted for a value than there is.
LEMMA TimesBound ==
    ASSUME NEW f, IsFiniteSet(DOMAIN f), NEW v, NEW t \in DOMAIN f
    PROVE  /\ Times(f, v) \in Nat /\ Times(f, v) >= Is(f[t], v)
           /\ \A u \in DOMAIN f : u # t => Times(f, v) >= Is(f[t], v) + Is(f[u], v)
<1>1. Times(f, v) \in Nat
  BY TimesType
<1>2. f[t] = v => Times(f, v) >= 1
  BY TimesSome
<1>3. ASSUME NEW u \in DOMAIN f, u # t
      PROVE  /\ f[u] = v => Times(f, v) >= 1
             /\ f[u] = v /\ f[t] = v => Times(f, v) >= 2
  BY <1>3, TimesSome
<1> QED
  BY <1>1, <1>2, <1>3 DEF Is

\* A value that a function has at one place only.
LEMMA TimesOnce ==
    ASSUME NEW f, NEW v, NEW t \in DOMAIN f, f[t] = v, \A u \in DOMAIN f : f[u] = v => u = t
    PROVE  Times(f, v) = 1
<1>1. {x \in DOMAIN f : f[x] = v} = {t}
  OBVIOUS
<1> QED
  BY <1>1, FS_Singleton DEF Times

-----------------------------------------------------------------------------
(* References and claims.                                                  *)

\* What one thread has of them.
Mine(t, n) == Is(prev[t], n) + Is(cur[t], n) + Is(NxtHeld[t], n) + Is(QHeld[t], n)
              + Is(new[t], n) + Occ(todo[t], <<"release", n>>)
Owned(t, n) == Occ(todo[t], <<"reclaim", n>>) + Is(InFree(n)[t], n) + Is(Unclaiming[t], n)

\* One step leaves the variables of the other threads alone.
OthersStay(t) ==
    \A u \in Threads \ {t} :
        /\ prev'[u] = prev[u] /\ cur'[u] = cur[u] /\ nxt'[u] = nxt[u] /\ nd'[u] = nd[u]
        /\ dst'[u] = dst[u] /\ q'[u] = q[u] /\ qd'[u] = qd[u] /\ new'[u] = new[u]
        /\ todo'[u] = todo[u] /\ then'[u] = then[u] /\ pc'[u] = pc[u]
        /\ op'[u] = op[u] /\ arg'[u] = arg[u] /\ freeList'[u] = freeList[u]

\* The functions that are counted have finite domains.
LEMMA Domains ==
    ASSUME Types
    PROVE  /\ IsFiniteSet(Threads) /\ IsFiniteSet(Cells)
           /\ DOMAIN to = Cells /\ DOMAIN prev = Threads /\ DOMAIN cur = Threads
           /\ DOMAIN new = Threads /\ DOMAIN todo = Threads
           /\ DOMAIN Links = Cells /\ DOMAIN NxtHeld = Threads /\ DOMAIN QHeld = Threads
           /\ DOMAIN Unclaiming = Threads /\ \A n : DOMAIN InFree(n) = Threads
           /\ \A t \in Threads : todo[t] \in CallSeq
<1>1. IsFiniteSet(Cells)
  BY RefCountAssumption, FS_AddElement DEF Cells
<1> QED
  BY <1>1, RefCountAssumption DEF Types, Links, NxtHeld, QHeld, Unclaiming, InFree, CallSeq

\* Is is a number.
LEMMA IsType ==
    ASSUME NEW a, NEW b
    PROVE  Is(a, b) \in Nat
  BY DEF Is

\* The references of one thread, of two, and a link.
LEMMA RefsBounds ==
    ASSUME Types, NEW n, NEW t \in Threads
    PROVE  /\ Refs(n) \in Nat /\ Mine(t, n) \in Nat /\ Refs(n) >= Mine(t, n)
           /\ \A u \in Threads : u # t => Mine(u, n) \in Nat /\ Refs(n) >= Mine(t, n) + Mine(u, n)
           /\ \A x \in Cells : Links[x] = n => Refs(n) >= Mine(t, n) + 1
<1> DEFINE c == <<"release", n>>
<1>0. Root \in Cells
  BY DEF Cells
<1>1. Times(Links, n) \in Nat /\ \A x \in Cells : Links[x] = n => Times(Links, n) >= 1
  BY <1>0, Domains, TimesBound DEF Is
<1>2. /\ Times(prev, n) \in Nat /\ Times(prev, n) >= Is(prev[t], n)
      /\ Times(cur, n) \in Nat /\ Times(cur, n) >= Is(cur[t], n)
      /\ Times(NxtHeld, n) \in Nat /\ Times(NxtHeld, n) >= Is(NxtHeld[t], n)
      /\ Times(QHeld, n) \in Nat /\ Times(QHeld, n) >= Is(QHeld[t], n)
      /\ Times(new, n) \in Nat /\ Times(new, n) >= Is(new[t], n)
  BY Domains, TimesBound
<1>3. ASSUME NEW u \in Threads, u # t
      PROVE  /\ Times(prev, n) >= Is(prev[t], n) + Is(prev[u], n)
             /\ Times(cur, n) >= Is(cur[t], n) + Is(cur[u], n)
             /\ Times(NxtHeld, n) >= Is(NxtHeld[t], n) + Is(NxtHeld[u], n)
             /\ Times(QHeld, n) >= Is(QHeld[t], n) + Is(QHeld[u], n)
             /\ Times(new, n) >= Is(new[t], n) + Is(new[u], n)
  BY <1>3, Domains, TimesBound
<1>4. Calls(todo, c) \in Nat /\ Occ(todo[t], c) \in Nat /\ Calls(todo, c) >= Occ(todo[t], c)
  BY Domains, CallsSome
<1>5. ASSUME NEW u \in Threads, u # t
      PROVE  Occ(todo[u], c) \in Nat /\ Calls(todo, c) >= Occ(todo[t], c) + Occ(todo[u], c)
  BY <1>5, Domains, CallsSome
<1>6. \A u \in Threads : /\ Is(prev[u], n) \in Nat /\ Is(cur[u], n) \in Nat
                         /\ Is(NxtHeld[u], n) \in Nat /\ Is(QHeld[u], n) \in Nat
                         /\ Is(new[u], n) \in Nat
  BY IsType
<1> QED
  BY <1>1, <1>2, <1>3, <1>4, <1>5, <1>6 DEF Refs, Mine

\* The claims of one thread, and of two.
LEMMA ClaimsBounds ==
    ASSUME Types, NEW n, NEW t \in Threads
    PROVE  /\ Claims(n) \in Nat /\ Owned(t, n) \in Nat /\ Claims(n) >= Owned(t, n)
           /\ \A u \in Threads : u # t => Owned(u, n) \in Nat /\ Claims(n) >= Owned(t, n) + Owned(u, n)
<1> DEFINE c == <<"reclaim", n>>
<1>2. /\ Times(InFree(n), n) \in Nat /\ Times(InFree(n), n) >= Is(InFree(n)[t], n)
      /\ Times(Unclaiming, n) \in Nat /\ Times(Unclaiming, n) >= Is(Unclaiming[t], n)
  BY Domains, TimesBound
<1>3. ASSUME NEW u \in Threads, u # t
      PROVE  /\ Times(InFree(n), n) >= Is(InFree(n)[t], n) + Is(InFree(n)[u], n)
             /\ Times(Unclaiming, n) >= Is(Unclaiming[t], n) + Is(Unclaiming[u], n)
  BY <1>3, Domains, TimesBound
<1>4. Calls(todo, c) \in Nat /\ Occ(todo[t], c) \in Nat /\ Calls(todo, c) >= Occ(todo[t], c)
  BY Domains, CallsSome
<1>5. ASSUME NEW u \in Threads, u # t
      PROVE  Occ(todo[u], c) \in Nat /\ Calls(todo, c) >= Occ(todo[t], c) + Occ(todo[u], c)
  BY <1>5, Domains, CallsSome
<1>6. \A u \in Threads : Is(InFree(n)[u], n) \in Nat /\ Is(Unclaiming[u], n) \in Nat
  BY IsType
<1> QED
  BY <1>2, <1>3, <1>4, <1>5, <1>6 DEF Claims, Owned

\* What a step of t changes.
LEMMA RefsStep ==
    ASSUME Types, Types', NEW t \in Threads, OthersStay(t), NEW n, NEW x \in Cells,
           \A y \in Cells \ {x} : Links'[y] = Links[y]
    PROVE  /\ Refs(n) \in Nat /\ Refs(n)' \in Nat /\ Mine(t, n) \in Nat /\ Mine(t, n)' \in Nat
           /\ Refs(n)' = Refs(n) - Mine(t, n) - Is(Links[x], n) + Mine(t, n)' + Is(Links'[x], n)
<1> DEFINE c == <<"release", n>>
<1>0. IsFiniteSet(Threads) /\ IsFiniteSet(Cells) /\ DOMAIN Links = Cells /\ DOMAIN Links' = Cells
  BY Domains DEF Links
<1>a. DOMAIN prev = Threads /\ DOMAIN prev' = Threads
  BY DEF Types
<1>b. DOMAIN cur = Threads /\ DOMAIN cur' = Threads
  BY DEF Types
<1>c. DOMAIN NxtHeld = Threads /\ DOMAIN NxtHeld' = Threads
  BY DEF NxtHeld
<1>d. DOMAIN QHeld = Threads /\ DOMAIN QHeld' = Threads
  BY DEF QHeld
<1>e. DOMAIN new = Threads /\ DOMAIN new' = Threads
  BY DEF Types
<1>f. DOMAIN todo = Threads /\ DOMAIN todo' = Threads
  BY DEF Types
<1>g. \A u \in Threads : todo[u] \in CallSeq /\ todo'[u] \in CallSeq
  BY DEF Types, CallSeq
<1>1. \A u \in Threads \ {t} : /\ prev'[u] = prev[u] /\ cur'[u] = cur[u] /\ new'[u] = new[u]
                               /\ NxtHeld'[u] = NxtHeld[u] /\ QHeld'[u] = QHeld[u] /\ todo'[u] = todo[u]
  BY DEF OthersStay, NxtHeld, QHeld, Place
<1>2. /\ Times(Links, n) \in Nat /\ Times(Links', n) \in Nat
      /\ Times(Links', n) = Times(Links, n) - Is(Links[x], n) + Is(Links'[x], n)
  BY <1>0, TimesStep
<1>3. /\ Times(prev, n) \in Nat /\ Times(prev', n) \in Nat
      /\ Times(prev', n) = Times(prev, n) - Is(prev[t], n) + Is(prev'[t], n)
  BY <1>0, <1>a, <1>1, TimesStep
<1>4. /\ Times(cur, n) \in Nat /\ Times(cur', n) \in Nat
      /\ Times(cur', n) = Times(cur, n) - Is(cur[t], n) + Is(cur'[t], n)
  BY <1>0, <1>b, <1>1, TimesStep
<1>5. /\ Times(NxtHeld, n) \in Nat /\ Times(NxtHeld', n) \in Nat
      /\ Times(NxtHeld', n) = Times(NxtHeld, n) - Is(NxtHeld[t], n) + Is(NxtHeld'[t], n)
  BY <1>0, <1>c, <1>1, TimesStep
<1>6. /\ Times(QHeld, n) \in Nat /\ Times(QHeld', n) \in Nat
      /\ Times(QHeld', n) = Times(QHeld, n) - Is(QHeld[t], n) + Is(QHeld'[t], n)
  BY <1>0, <1>d, <1>1, TimesStep
<1>7. /\ Times(new, n) \in Nat /\ Times(new', n) \in Nat
      /\ Times(new', n) = Times(new, n) - Is(new[t], n) + Is(new'[t], n)
  BY <1>0, <1>e, <1>1, TimesStep
<1>8. /\ Calls(todo, c) \in Nat /\ Calls(todo', c) \in Nat
      /\ Calls(todo', c) = Calls(todo, c) - Occ(todo[t], c) + Occ(todo'[t], c)
  BY <1>0, <1>f, <1>g, <1>1, CallsStep
<1>9. Occ(todo[t], c) \in Nat /\ Occ(todo'[t], c) \in Nat
  BY <1>g, OccType DEF CallSeq
<1>10. /\ Is(prev[t], n) \in Nat /\ Is(cur[t], n) \in Nat /\ Is(NxtHeld[t], n) \in Nat
       /\ Is(QHeld[t], n) \in Nat /\ Is(new[t], n) \in Nat /\ Is(Links[x], n) \in Nat
       /\ Is(prev'[t], n) \in Nat /\ Is(cur'[t], n) \in Nat /\ Is(NxtHeld'[t], n) \in Nat
       /\ Is(QHeld'[t], n) \in Nat /\ Is(new'[t], n) \in Nat /\ Is(Links'[x], n) \in Nat
  BY IsType
<1>11. /\ Refs(n) = Times(Links, n) + Times(prev, n) + Times(cur, n) + Times(NxtHeld, n)
                    + Times(QHeld, n) + Times(new, n) + Calls(todo, c)
       /\ Refs(n)' = Times(Links', n) + Times(prev', n) + Times(cur', n) + Times(NxtHeld', n)
                     + Times(QHeld', n) + Times(new', n) + Calls(todo', c)
  BY DEF Refs
<1>12. /\ Mine(t, n) = Is(prev[t], n) + Is(cur[t], n) + Is(NxtHeld[t], n) + Is(QHeld[t], n)
                       + Is(new[t], n) + Occ(todo[t], c)
       /\ Mine(t, n)' = Is(prev'[t], n) + Is(cur'[t], n) + Is(NxtHeld'[t], n)
                        + Is(QHeld'[t], n) + Is(new'[t], n) + Occ(todo'[t], c)
  BY DEF Mine
<1> HIDE DEF c
<1> QED
  BY <1>2, <1>3, <1>4, <1>5, <1>6, <1>7, <1>8, <1>9, <1>10, <1>11, <1>12

\* When one thread moves, the claims of a node change as its own do.
LEMMA ClaimsStep ==
    ASSUME Types, Types', NEW t \in Threads, OthersStay(t), NEW n,
           \A u \in Threads \ {t} : FreeSet(u)' = FreeSet(u)
    PROVE  /\ Claims(n) \in Nat /\ Claims(n)' \in Nat /\ Owned(t, n) \in Nat /\ Owned(t, n)' \in Nat
           /\ Claims(n)' = Claims(n) - Owned(t, n) + Owned(t, n)'
<1> DEFINE c == <<"reclaim", n>>
           I == InFree(n)
           J == InFree(n)'
<1>0. /\ IsFiniteSet(Threads) /\ DOMAIN todo = Threads /\ DOMAIN todo' = Threads
      /\ DOMAIN I = Threads /\ DOMAIN J = Threads
      /\ DOMAIN Unclaiming = Threads /\ DOMAIN Unclaiming' = Threads
      /\ \A u \in Threads : todo[u] \in CallSeq /\ todo'[u] \in CallSeq
  BY Domains DEF Types, InFree, Unclaiming, CallSeq
<1>1. \A u \in Threads \ {t} :
          J[u] = I[u] /\ Unclaiming'[u] = Unclaiming[u] /\ todo'[u] = todo[u]
  BY DEF OthersStay, InFree, Unclaiming
<1> HIDE DEF I, J
<1>2. /\ Times(I, n) \in Nat /\ Times(J, n) \in Nat
      /\ Times(J, n) = Times(I, n) - Is(I[t], n) + Is(J[t], n)
  BY <1>0, <1>1, TimesStep
<1>3. /\ Times(Unclaiming, n) \in Nat /\ Times(Unclaiming', n) \in Nat
      /\ Times(Unclaiming', n) = Times(Unclaiming, n) - Is(Unclaiming[t], n) + Is(Unclaiming'[t], n)
  BY <1>0, <1>1, TimesStep
<1>4. /\ Calls(todo, c) \in Nat /\ Calls(todo', c) \in Nat
      /\ Calls(todo', c) = Calls(todo, c) - Occ(todo[t], c) + Occ(todo'[t], c)
  BY <1>0, <1>1, CallsStep
<1>5. Occ(todo[t], c) \in Nat /\ Occ(todo'[t], c) \in Nat
  BY <1>0, OccType DEF CallSeq
<1>6. /\ Is(I[t], n) \in Nat /\ Is(J[t], n) \in Nat
      /\ Is(Unclaiming[t], n) \in Nat /\ Is(Unclaiming'[t], n) \in Nat
  BY IsType
<1>7. /\ Claims(n) = Calls(todo, c) + Times(I, n) + Times(Unclaiming, n)
      /\ Claims(n)' = Calls(todo', c) + Times(J, n) + Times(Unclaiming', n)
  BY DEF Claims, I, J
<1>8. /\ Owned(t, n) = Occ(todo[t], c) + Is(I[t], n) + Is(Unclaiming[t], n)
      /\ Owned(t, n)' = Occ(todo'[t], c) + Is(J[t], n) + Is(Unclaiming'[t], n)
  BY DEF Owned, I, J
<1> HIDE DEF c
<1> QED
  BY <1>2, <1>3, <1>4, <1>5, <1>6, <1>7, <1>8

-----------------------------------------------------------------------------
(* What the invariant says of the nodes that may be followed.              *)

\* A node with a link or that find has come to has a reference, and a call of release
\* that is still to come is another one.
LEMMA TargetRefs ==
    ASSUME Types, NEW n \in Nodes, Target(n), NEW t \in Threads
    PROVE  Refs(n) \in Nat /\ Refs(n) >= 1 + Occ(todo[t], <<"release", n>>)
<1> DEFINE o(u) == Occ(todo[u], <<"release", n>>)
<1>1. \A u \in Threads : o(u) \in Nat /\ Mine(u, n) \in Nat /\ Mine(u, n) >= o(u)
  <2> SUFFICES ASSUME NEW u \in Threads PROVE o(u) \in Nat /\ Mine(u, n) \in Nat /\ Mine(u, n) >= o(u)
    OBVIOUS
  <2>1. o(u) \in Nat
    BY Domains, OccType DEF CallSeq
  <2> QED
    BY <2>1, IsType DEF Mine
<1>2. \A u \in Threads : n \in Held(u) => Mine(u, n) >= 1 + o(u)
  <2> SUFFICES ASSUME NEW u \in Threads, n \in Held(u) PROVE Mine(u, n) >= 1 + o(u)
    OBVIOUS
  <2>1. o(u) \in Nat
    BY <1>1
  <2>2. /\ Is(prev[u], n) \in Nat /\ Is(cur[u], n) \in Nat /\ Is(NxtHeld[u], n) \in Nat
        /\ Is(QHeld[u], n) \in Nat /\ Is(new[u], n) \in Nat
    BY IsType
  <2>3. Is(prev[u], n) >= 1 \/ Is(cur[u], n) >= 1 \/ Is(NxtHeld[u], n) >= 1
    BY DEF Held, Is
  <2> QED
    BY <2>1, <2>2, <2>3 DEF Mine
<1> HIDE DEF o
<1>3. Refs(n) \in Nat
  BY RefsBounds
<1>4. CASE \E x \in Cells : Links[x] = n
  <2>1. Refs(n) >= Mine(t, n) + 1
    BY <1>4, RefsBounds
  <2> QED
    BY <1>1, <1>3, <2>1 DEF o
<1>5. CASE \E u \in Threads : n \in Held(u)
  <2>1. PICK u \in Threads : n \in Held(u)
    BY <1>5
  <2>2. CASE u = t
    BY <1>1, <1>2, <1>3, <2>1, <2>2, RefsBounds DEF o
  <2>3. CASE u # t
    <3>1. Refs(n) >= Mine(t, n) + Mine(u, n)
      BY <2>3, RefsBounds
    <3> QED
      BY <1>1, <1>2, <1>3, <2>1, <3>1 DEF o
  <2> QED
    BY <2>2, <2>3
<1> QED
  BY <1>4, <1>5 DEF Target

\* References and claims are numbers, and a link is a reference.
LEMMA RefsType ==
    ASSUME Types, NEW n
    PROVE  /\ Refs(n) \in Nat /\ Claims(n) \in Nat
           /\ \A x \in Cells : Links[x] = n => Refs(n) >= 1
<1>1. \A c : Calls(todo, c) \in Nat
  <2> SUFFICES ASSUME NEW c PROVE Calls(todo, c) \in Nat
    OBVIOUS
  <2>1. CASE Threads = {}
    <3>1. \A t \in DOMAIN todo : todo[t] = <<>>
      BY <2>1, Domains
    <3> QED
      BY <3>1, CallsNone
  <2>2. CASE Threads # {}
    BY <2>2, Domains, CallsSome
  <2> QED
    BY <2>1, <2>2
<1>2. /\ Times(Links, n) \in Nat /\ Times(prev, n) \in Nat /\ Times(cur, n) \in Nat
      /\ Times(NxtHeld, n) \in Nat /\ Times(QHeld, n) \in Nat /\ Times(new, n) \in Nat
      /\ Times(InFree(n), n) \in Nat /\ Times(Unclaiming, n) \in Nat
  BY Domains, TimesType
<1>3. \A x \in Cells : Links[x] = n => Times(Links, n) >= 1
  BY Domains, TimesSome
<1> QED
  BY <1>1, <1>2, <1>3 DEF Refs, Claims

\* Such a node is nobody's new node and nobody's to reclaim; its count is right, and its
\* own link counts.
LEMMA TargetFacts ==
    ASSUME RefInv, NEW n \in Nodes, Target(n)
    PROVE  /\ n \notin fresh /\ Claims(n) = 0 /\ Linker(n)
           /\ Refs(n) \in Nat /\ Refs(n) >= 1 /\ count[n] = 2 * Refs(n)
           /\ \A t \in Threads : new[t] # n
<1>1. \A t \in Threads : new[t] # n
  BY DEF RefInv, Private
<1>2. Claims(n) = 0
  BY DEF RefInv, Live
<1>3. Refs(n) \in Nat /\ Refs(n) >= 1
  <2>1. Types
    BY DEF RefInv
  <2>2. CASE \E x \in Cells : Links[x] = n
    BY <2>1, <2>2, RefsType
  <2>3. ASSUME NEW t \in Threads PROVE Refs(n) >= 1
    <3>1. Occ(todo[t], <<"release", n>>) \in Nat
      BY <2>1, Domains, OccType DEF CallSeq
    <3>2. Refs(n) \in Nat /\ Refs(n) >= 1 + Occ(todo[t], <<"release", n>>)
      BY <2>1, TargetRefs
    <3> QED
      BY <3>1, <3>2
  <2> QED
    BY <2>1, <2>2, <2>3, RefsType DEF Target
<1>4. n \notin fresh
  BY <1>3 DEF RefInv, Counted
<1>5. count[n] = 2 * Refs(n)
  BY <1>2, <1>3, <1>4 DEF RefInv, Counted
<1> QED
  BY <1>1, <1>2, <1>3, <1>4, <1>5 DEF Linker, Filling

\* What a link that counts leads to.
LEMMA LinkTargets ==
    ASSUME Types, NEW x \in Cells, Linker(x)
    PROVE  to[x] \in Pointers /\ (to[x] \in Nodes => Target(to[x]))
  BY DEF Types, Target, Links

\* The links of the list count.
LEMMA ListLinkers ==
    ASSUME RefInv
    PROVE  /\ Root \in Reach(to, {Root}) /\ InList \subseteq Nodes
           /\ \A x \in Reach(to, {Root}) : x \in Cells /\ Linker(x) /\ (to[x] \in Nodes => to[x] \in InList)
           /\ Reach(to, {Root}) = InList \cup {Root}
<1> DEFINE C == {x \in Cells : Linker(x)}
<1>1. DOMAIN to = Cells /\ Types
  BY DEF RefInv, Types
<1>2. Root \in C
  BY DEF Linker, Cells
<1>3. ASSUME NEW x \in C, to[x] \in Cells PROVE to[x] \in C
  <2>1. to[x] \in Nodes
    BY <1>1, <1>3, LinkTargets, RefCountAssumption DEF Pointers, Cells
  <2>2. Target(to[x])
    BY <1>1, <2>1, LinkTargets
  <2> QED
    BY <2>1, <2>2, TargetFacts DEF Cells
<1>4. Reach(to, {Root}) \subseteq C
  <2> HIDE DEF C
  <2> QED
    BY <1>1, <1>2, <1>3, ReachLeast
<1>5. Root \in Reach(to, {Root})
  BY <1>1, <1>2, ReachClosed
<1>6. \A x \in Reach(to, {Root}) : to[x] \in Nodes => to[x] \in InList
  BY <1>1, ReachClosed, RefCountAssumption DEF InList, Cells
<1> QED
  BY <1>4, <1>5, <1>6 DEF InList, Cells

\* The nodes of a free list are claimed, and so is one in a call of reclaim.
LEMMA ClaimedFacts ==
    ASSUME RefInv, NEW t \in Threads
    PROVE  /\ FreeSet(t) \subseteq Nodes
           /\ \A n \in FreeSet(t) : to[n] \in Nodes => to[n] \in FreeSet(t)
           /\ \A n \in Nodes : n \in FreeSet(t) \/ Occ(todo[t], <<"reclaim", n>>) >= 1 =>
                  Claims(n) = 1 /\ n \notin fresh /\ ~ Linker(n) /\ ~ Target(n)
<1>1. DOMAIN to = Cells /\ Types
  BY DEF RefInv, Types
<1>2. FreeSet(t) \subseteq Nodes
  <2>1. freeList[t] \in Cells => freeList[t] \in Nodes
    BY RefCountAssumption DEF RefInv, Types, Pointers, Cells
  <2>2. \A x \in Nodes : to[x] \in Cells => to[x] \in Nodes
    BY RefCountAssumption DEF RefInv, Types, Pointers, Cells
  <2> QED
    BY <1>1, <2>1, <2>2, ReachLeast DEF FreeSet
<1>3. \A n \in FreeSet(t) : to[n] \in Nodes => to[n] \in FreeSet(t)
  BY <1>1, ReachClosed DEF FreeSet, Cells
<1>4. ASSUME NEW n \in Nodes, n \in FreeSet(t) \/ Occ(todo[t], <<"reclaim", n>>) >= 1
      PROVE  Claims(n) = 1 /\ n \notin fresh /\ ~ Linker(n) /\ ~ Target(n)
  <2>1. Claims(n) \in Nat /\ Owned(t, n) \in Nat /\ Claims(n) >= Owned(t, n)
    BY <1>1, ClaimsBounds
  <2>2. Is(InFree(n)[t], n) \in Nat /\ Is(Unclaiming[t], n) \in Nat /\ Occ(todo[t], <<"reclaim", n>>) \in Nat
    BY <1>1, IsType, Domains, OccType DEF CallSeq
  <2>3. n \in FreeSet(t) => Is(InFree(n)[t], n) = 1
    BY DEF InFree, Is
  <2>4. Owned(t, n) >= 1
    BY <1>4, <2>2, <2>3 DEF Owned
  <2>5. Claims(n) = 1 /\ n \notin fresh
    BY <2>1, <2>4 DEF RefInv, Counted
  <2> QED
    BY <2>5, RefCountAssumption DEF RefInv, Live, Linker
<1> QED
  BY <1>2, <1>3, <1>4

\* A change outside the free list of a thread does not change it.
LEMMA StillFree ==
    ASSUME RefInv, Types', NEW x, \A y \in Cells \ {x} : to'[y] = to[y],
           NEW u \in Threads, x \notin FreeSet(u)
    PROVE  /\ Reach(to', {freeList[u]}) = FreeSet(u)
           /\ \A n \in FreeSet(u) : n \notin Reach(to', {to'[n]})
<1> DEFINE W == {x}
<1>1. DOMAIN to = Cells /\ DOMAIN to' = Cells /\ FreeSet(u) \subseteq Cells
  BY ClaimedFacts DEF RefInv, Types, Cells
<1>2. Reach(to', {freeList[u]}) = FreeSet(u)
  <2>0. W \cap Reach(to, {freeList[u]}) = {} /\ \A y \in DOMAIN to \ W : to'[y] = to[y]
    BY <1>1 DEF FreeSet
  <2> HIDE DEF W
  <2>1. Reach(to', {freeList[u]}) = Reach(to, {freeList[u]})
    BY <1>1, <2>0, ReachOutside
  <2> QED
    BY <2>1 DEF FreeSet
<1>3. ASSUME NEW n \in FreeSet(u) PROVE n \notin Reach(to', {to'[n]})
  <2>1. to'[n] = to[n]
    BY <1>1
  <2>2. {to[n]} \cap DOMAIN to \subseteq Reach(to, {freeList[u]})
    BY <1>3, ReachClosed DEF FreeSet
  <2>3. Reach(to, {to[n]}) \subseteq FreeSet(u)
    BY <2>2, ReachIdempotent DEF FreeSet
  <2>6. W \cap Reach(to, {to[n]}) = {} /\ \A y \in DOMAIN to \ W : to'[y] = to[y]
    BY <1>1, <2>3
  <2> HIDE DEF W
  <2>4. Reach(to', {to[n]}) = Reach(to, {to[n]})
    BY <1>1, <2>6, ReachOutside
  <2>5. n \notin Reach(to, {to[n]})
    BY <1>3 DEF RefInv, NoLoop
  <2> QED
    BY <2>1, <2>4, <2>5
<1> QED
  BY <1>2, <1>3

\* The same, for a thread whose free list starts where it did.
LEMMA SameFree ==
    ASSUME RefInv, Types', NEW x, \A y \in Cells \ {x} : to'[y] = to[y],
           NEW u \in Threads, freeList'[u] = freeList[u], x \notin FreeSet(u)
    PROVE  /\ FreeSet(u)' = FreeSet(u)
           /\ \A n \in FreeSet(u)' : n \notin Reach(to', {to'[n]})
<1>1. /\ Reach(to', {freeList[u]}) = FreeSet(u)
      /\ \A n \in FreeSet(u) : n \notin Reach(to', {to'[n]})
  BY StillFree
<1>2. FreeSet(u)' = Reach(to', {freeList'[u]})
  BY DEF FreeSet
<1> QED
  BY <1>1, <1>2

-----------------------------------------------------------------------------
(* Steps that neither claim a node nor hand one out.                       *)

\* What such a step of t changes: at most the link of x.
Calm(t, x) ==
    /\ OthersStay(t) /\ fresh' = fresh /\ freeList' = freeList /\ key' = key
    /\ \A y \in Cells \ {x} : to'[y] = to[y]
    /\ pc[t] \notin {"unclaim", "fill"} /\ pc'[t] \notin {"unclaim", "fill"}
    /\ new'[t] = Null
    /\ \A n \in Nodes : Occ(todo'[t], <<"reclaim", n>>) = Occ(todo[t], <<"reclaim", n>>)
    /\ \A y \in Cells : del[y] => del'[y]
    /\ \A y \in Nodes : del'[y] # del[y] => Target(y)

\* It changes the counts with the references.
Balanced(t, x) ==
    \A n \in Nodes :
        /\ count'[n] = count[n] + 2 * (Mine(t, n)' + Is(to'[x], n) - Mine(t, n) - Is(to[x], n))
        /\ count'[n] >= 1 \/ n \in fresh
        /\ n \in fresh => count'[n] = count[n]

\* Such a step leaves the claims, the free lists and all links but one alone.
LEMMA CalmLinks ==
    ASSUME RefInv, Types', NEW t \in Threads, NEW x \in Cells, Linker(x), Calm(t, x)
    PROVE  /\ \A n \in Nodes : Claims(n)' = Claims(n)
           /\ \A y \in Cells : Linker(y)' = Linker(y)
           /\ \A y \in Cells \ {x} : Links'[y] = Links[y]
           /\ Links'[x] = to'[x] /\ Links[x] = to[x]
           /\ \A u \in Threads : FreeSet(u)' = FreeSet(u)
           /\ NoLoop'
<1>1. Types /\ OthersStay(t) /\ \A y \in Cells \ {x} : to'[y] = to[y]
  BY DEF RefInv, Calm
<1>2. \A u \in Threads : freeList'[u] = freeList[u] /\ x \notin FreeSet(u)
  BY ClaimedFacts DEF Calm
<1>3. \A u \in Threads : FreeSet(u)' = FreeSet(u) /\ \A n \in FreeSet(u)' : n \notin Reach(to', {to'[n]})
  BY <1>1, <1>2, SameFree
<1>4. NoLoop'
  BY <1>3 DEF NoLoop
<1>5. ASSUME NEW n \in Nodes PROVE Claims(n)' = Claims(n)
  <2>1. /\ Claims(n) \in Nat /\ Claims(n)' \in Nat /\ Owned(t, n) \in Nat /\ Owned(t, n)' \in Nat
        /\ Claims(n)' = Claims(n) - Owned(t, n) + Owned(t, n)'
    BY <1>1, <1>3, ClaimsStep
  <2>2. InFree(n)'[t] = InFree(n)[t]
    BY <1>3 DEF InFree
  <2>3. Unclaiming'[t] = Unclaiming[t]
    BY DEF Calm, Unclaiming
  <2>4. Occ(todo'[t], <<"reclaim", n>>) = Occ(todo[t], <<"reclaim", n>>)
    BY DEF Calm
  <2>5. Owned(t, n)' = Owned(t, n)
    BY <2>2, <2>3, <2>4 DEF Owned
  <2> QED
    BY <2>1, <2>5
<1>6. \A n \in Nodes : Filling(n)' = Filling(n)
  BY DEF Calm, OthersStay, Filling
<1>7. ASSUME NEW y \in Cells PROVE Linker(y)' = Linker(y)
  <2>1. fresh' = fresh
    BY DEF Calm
  <2> QED
    BY <1>5, <1>6, <2>1 DEF Linker, Cells
<1>8. \A y \in Cells : Links'[y] = IF Linker(y) THEN to'[y] ELSE Null
  BY <1>7 DEF Links
<1>9. \A y \in Cells : Links[y] = IF Linker(y) THEN to[y] ELSE Null
  BY DEF Links
<1>10. (\A y \in Cells \ {x} : Links'[y] = Links[y]) /\ Links'[x] = to'[x] /\ Links[x] = to[x]
  BY <1>1, <1>8, <1>9
<1> QED
  BY <1>3, <1>4, <1>5, <1>7, <1>10

\* If it changes the counts as it changes the references, they stay equal.
LEMMA CalmCounted ==
    ASSUME RefInv, Types', NEW t \in Threads, NEW x \in Cells, Linker(x), Calm(t, x), Balanced(t, x)
    PROVE  Counted'
<1>0. Types /\ OthersStay(t) /\ fresh' = fresh
  BY DEF RefInv, Calm
<1>1. (\A y \in Cells \ {x} : Links'[y] = Links[y]) /\ Links'[x] = to'[x] /\ Links[x] = to[x]
  BY CalmLinks
<1> SUFFICES ASSUME NEW n \in Nodes
             PROVE  IF n \in fresh THEN Refs(n)' = 0 /\ Claims(n)' = 0
                    ELSE /\ count'[n] = 2 * Refs(n)' + Claims(n)' /\ Claims(n)' <= 1
                         /\ Refs(n)' + Claims(n)' >= 1
  BY <1>0 DEF Counted
<1>2. /\ Refs(n) \in Nat /\ Refs(n)' \in Nat /\ Mine(t, n) \in Nat /\ Mine(t, n)' \in Nat
      /\ Refs(n)' = Refs(n) - Mine(t, n) - Is(to[x], n) + Mine(t, n)' + Is(to'[x], n)
  BY <1>0, <1>1, RefsStep
<1>3. Claims(n)' = Claims(n) /\ Claims(n) \in Nat
  BY <1>0, CalmLinks, RefsType
<1>4. /\ count'[n] = count[n] + 2 * (Mine(t, n)' + Is(to'[x], n) - Mine(t, n) - Is(to[x], n))
      /\ count'[n] >= 1 \/ n \in fresh
      /\ n \in fresh => count'[n] = count[n]
  BY DEF Balanced
<1>5. IF n \in fresh THEN Refs(n) = 0 /\ Claims(n) = 0
      ELSE count[n] = 2 * Refs(n) + Claims(n) /\ Claims(n) <= 1
  BY DEF RefInv, Counted
<1>6. Is(to[x], n) \in Nat /\ Is(to'[x], n) \in Nat /\ count[n] \in Nat
  BY <1>0, IsType DEF Types
<1>7. count'[n] = count[n] + 2 * (Refs(n)' - Refs(n))
  BY <1>2, <1>4, <1>6
<1> QED
  BY <1>2, <1>3, <1>4, <1>5, <1>6, <1>7

\* A step after which only what could be followed before can be followed, or t's own
\* new node, which is now linked.
Tame(t, x) ==
    /\ \A n \in Nodes : n \in Held(t)' => Target(n)
    /\ to'[x] \in Nodes => Target(to'[x]) \/ (pc[t] = "link" /\ to'[x] = new[t])
    /\ to'[x] = to[x]
       \/ (/\ ~ del[x] /\ (x = Root \/ Target(x))
           /\ (x \in Nodes /\ to'[x] \in Nodes => key[x] < key[to'[x]]))

\* What can be followed after it could be followed before, or is the node it links.
LEMMA CalmTargets ==
    ASSUME RefInv, Types', NEW t \in Threads, NEW x \in Cells, Linker(x), Calm(t, x), Tame(t, x),
           NEW n \in Nodes, Target(n)'
    PROVE  Target(n) \/ (pc[t] = "link" /\ n = new[t] /\ n = to'[x])
<1>1. CASE \E y \in Cells : Links'[y] = n
  <2>1. PICK y \in Cells : Links'[y] = n
    BY <1>1
  <2>2. CASE y = x
    BY <2>1, <2>2, CalmLinks DEF Tame
  <2>3. CASE y # x
    BY <2>1, <2>3, CalmLinks DEF Target
  <2> QED
    BY <2>2, <2>3
<1>2. CASE \E u \in Threads : n \in Held(u)'
  <2>1. PICK u \in Threads : n \in Held(u)'
    BY <1>2
  <2>2. CASE u = t
    BY <2>1, <2>2 DEF Tame
  <2>3. CASE u # t
    <3>1. prev'[u] = prev[u] /\ cur'[u] = cur[u] /\ NxtHeld'[u] = NxtHeld[u]
      BY <2>3 DEF Calm, OthersStay, NxtHeld, Place
    <3>2. n \in Held(u)
      BY <2>1, <3>1 DEF Held
    <3> QED
      BY <3>2 DEF Target
  <2> QED
    BY <2>2, <2>3
<1> QED
  BY <1>1, <1>2 DEF Target

\* Such a step keeps the invariant.
LEMMA CalmInv ==
    ASSUME RefInv, Types', NEW t \in Threads, NEW x \in Cells, Linker(x), Calm(t, x), Balanced(t, x),
           Tame(t, x), Control(t)', Searched(t)', OnList'
    PROVE  RefInv'
<1>0. /\ Types /\ OthersStay(t) /\ fresh' = fresh /\ key' = key /\ new'[t] = Null
      /\ \A y \in Cells \ {x} : to'[y] = to[y]
  BY DEF RefInv, Calm
<1>1. Counted' /\ NoLoop'
  BY CalmCounted, CalmLinks
<1>2. Live'
  <2> SUFFICES ASSUME NEW n \in Nodes, Target(n)' PROVE Claims(n)' = 0
    BY DEF Live
  <2>1. Claims(n)' = Claims(n)
    BY CalmLinks
  <2>2. CASE Target(n)
    BY <2>1, <2>2, TargetFacts
  <2>3. CASE pc[t] = "link" /\ n = new[t]
    <3>1. Claims(n) = Is(pc[t], "unclaim")
      BY <2>3 DEF RefInv, Private
    <3> QED
      BY <2>1, <2>3, <3>1 DEF Is
  <2> QED
    BY <2>2, <2>3, CalmTargets
<1>3. Order'
  <2> SUFFICES ASSUME NEW y \in Nodes, Linker(y)'
               PROVE  key'[y] \in Keys /\ (to'[y] \in Nodes => key'[y] < key'[to'[y]])
    BY DEF Order
  <2>1. Linker(y)
    BY CalmLinks DEF Cells
  <2>2. key[y] \in Keys /\ (to[y] \in Nodes => key[y] < key[to[y]])
    BY <2>1 DEF RefInv, Order
  <2> QED
    BY <1>0, <2>2 DEF Tame, Cells
<1>4. ASSUME NEW u \in Threads PROVE Control(u)'
  <2>1. CASE u = t
    BY <2>1
  <2>2. CASE u # t
    <3>1. Control(u)
      BY DEF RefInv
    <3>2. /\ pc'[u] = pc[u] /\ todo'[u] = todo[u] /\ then'[u] = then[u] /\ dst'[u] = dst[u]
          /\ prev'[u] = prev[u] /\ cur'[u] = cur[u] /\ q'[u] = q[u] /\ new'[u] = new[u]
          /\ nxt'[u] = nxt[u]
      BY <1>0, <2>2 DEF OthersStay
    <3> QED
      BY <1>0, <3>1, <3>2 DEF Control, Place
  <2> QED
    BY <2>1, <2>2
<1>5. ASSUME NEW u \in Threads PROVE Searched(u)'
  <2>1. CASE u = t
    BY <2>1
  <2>2. CASE u # t
    <3>1. Searched(u) /\ Control(u) /\ Private(u)
      BY DEF RefInv
    <3>2. /\ pc'[u] = pc[u] /\ then'[u] = then[u] /\ nd'[u] = nd[u] /\ arg'[u] = arg[u]
          /\ prev'[u] = prev[u] /\ cur'[u] = cur[u] /\ nxt'[u] = nxt[u] /\ new'[u] = new[u]
      BY <1>0, <2>2 DEF OthersStay
    <3>3. Place(u)' = Place(u)
      BY <3>2 DEF Place
    <3>4. ASSUME cur[u] \in Cells, del[cur[u]], to[cur[u]] = nxt[u]
          PROVE  del'[cur[u]] /\ to'[cur[u]] = nxt[u]
      <4>1. del'[cur[u]]
        BY <3>4 DEF Calm
      <4>2. to'[cur[u]] = to[cur[u]]
        BY <1>0, <3>4 DEF Tame
      <4> QED
        BY <3>4, <4>1, <4>2
    <3>5. ASSUME pc[u] = "link" PROVE to'[new[u]] = to[new[u]] /\ del'[new[u]] = del[new[u]]
      <4>1. new[u] \in Nodes /\ ~ Target(new[u])
        BY <3>1, <3>5 DEF Control, Private
      <4>2. to'[new[u]] = to[new[u]]
        BY <1>0, <4>1, RefCountAssumption DEF Tame, Cells
      <4> QED
        BY <4>1, <4>2 DEF Calm
    <3>6. Place(u) = "addLink" \/ (Place(u) = "judge" /\ nd[u]) => cur[u] \in Nodes
      <4>1. dst[u] \in {"cur", "nxt"}
        BY <1>0 DEF Types
      <4> QED
        BY <3>1, <4>1 DEF Control, Reading
    <3> QED
      BY <1>0, <3>1, <3>2, <3>3, <3>4, <3>5, <3>6 DEF Searched, Cells
  <2> QED
    BY <2>1, <2>2
<1>6. ASSUME NEW u \in Threads PROVE Private(u)'
  <2> SUFFICES ASSUME NEW n \in Nodes, n = new'[u]
               PROVE  /\ ~ Target(n)'
                      /\ \A v \in Threads : new'[v] = n => v = u
                      /\ Claims(n)' = Is(pc'[u], "unclaim")
    BY DEF Private
  <2>1. u # t
    BY <1>0, RefCountAssumption
  <2>2. new[u] = n /\ pc'[u] = pc[u]
    BY <1>0, <2>1 DEF OthersStay
  <2>3. /\ ~ Target(n) /\ \A v \in Threads : new[v] = n => v = u
        /\ Claims(n) = Is(pc[u], "unclaim")
    BY <2>2 DEF RefInv, Private
  <2>4. ~ Target(n)'
    BY <2>1, <2>2, <2>3, CalmTargets
  <2>5. \A v \in Threads : new'[v] = n => v = u
    BY <1>0, <2>2, <2>3, RefCountAssumption DEF OthersStay
  <2>6. Claims(n)' = Claims(n)
    BY CalmLinks
  <2> QED
    BY <2>2, <2>3, <2>4, <2>5, <2>6
<1> QED
  BY <1>1, <1>2, <1>3, <1>4, <1>5, <1>6 DEF RefInv

-----------------------------------------------------------------------------
(* Calls of release and reclaim.                                           *)

\* release(m) is one call if m is a node, and none of reclaim.
LEMMA CallFacts ==
    ASSUME NEW m
    PROVE  /\ Call(m) \in CallSeq /\ (Call(m) = <<>> <=> m \notin Nodes)
           /\ \A n \in Nodes : Occ(Call(m), <<"release", n>>) = Is(m, n)
           /\ \A n \in Nodes : Occ(Call(m), <<"reclaim", n>>) = 0
<1>1. CASE m \in Nodes
  <2>1. Call(m) = << <<"release", m>> >>
    BY <1>1 DEF Call
  <2>2. Call(m) \in CallSeq /\ Call(m) # <<>>
    BY <1>1, <2>1 DEF CallSeq
  <2>3. \A c : Occ(Call(m), c) = Is(<<"release", m>>, c)
    BY <2>1, OccOne
  <2> QED
    BY <1>1, <2>2, <2>3 DEF Is
<1>2. CASE m \notin Nodes
  <2>1. Call(m) = <<>>
    BY <1>2 DEF Call
  <2> QED
    BY <1>2, <2>1, OccEmpty, EmptySeq DEF Is, CallSeq
<1> QED
  BY <1>1, <1>2

\* Two lists of calls one after the other.
LEMMA CallConcat ==
    ASSUME NEW s \in CallSeq, NEW u \in CallSeq
    PROVE  /\ s \o u \in CallSeq
           /\ s \o u = <<>> <=> s = <<>> /\ u = <<>>
           /\ \A c : /\ Occ(s, c) \in Nat /\ Occ(u, c) \in Nat
                     /\ Occ(s \o u, c) = Occ(s, c) + Occ(u, c)
  BY ConcatProperties, ConcatEqualIffEmpty, OccType, OccConcat DEF CallSeq

\* Three calls in a row.
LEMMA ThreeCalls ==
    ASSUME NEW a, NEW b, NEW d
    PROVE  LET s == Call(a) \o Call(b) \o Call(d)
           IN  /\ s \in CallSeq /\ (s = <<>> <=> a \notin Nodes /\ b \notin Nodes /\ d \notin Nodes)
               /\ \A n \in Nodes : Occ(s, <<"release", n>>) = Is(a, n) + Is(b, n) + Is(d, n)
               /\ \A n \in Nodes : Occ(s, <<"reclaim", n>>) = 0
<1> DEFINE r == Call(a) \o Call(b)
           s == r \o Call(d)
<1>1. r \in CallSeq /\ (r = <<>> <=> a \notin Nodes /\ b \notin Nodes)
  BY CallFacts, CallConcat
<1>2. \A c : Occ(r, c) = Occ(Call(a), c) + Occ(Call(b), c)
  BY CallFacts, CallConcat
<1> HIDE DEF r
<1>3. s \in CallSeq /\ (s = <<>> <=> r = <<>> /\ d \notin Nodes)
  BY <1>1, CallFacts, CallConcat
<1>4. \A c : Occ(s, c) = Occ(r, c) + Occ(Call(d), c)
  BY <1>1, CallFacts, CallConcat
<1> HIDE DEF s
<1>5. ASSUME NEW n \in Nodes
      PROVE  /\ Occ(s, <<"release", n>>) = Is(a, n) + Is(b, n) + Is(d, n)
             /\ Occ(s, <<"reclaim", n>>) = 0
  <2>1. \A c : Occ(s, c) = Occ(Call(a), c) + Occ(Call(b), c) + Occ(Call(d), c)
    BY <1>2, <1>4
  <2>2. \A m : Occ(Call(m), <<"release", n>>) = Is(m, n) /\ Occ(Call(m), <<"reclaim", n>>) = 0
    BY CallFacts
  <2>3. Occ(s, <<"release", n>>) = Is(a, n) + Is(b, n) + Is(d, n)
    BY <2>1, <2>2
  <2>4. Occ(s, <<"reclaim", n>>) = 0 + 0 + 0
    BY <2>1, <2>2
  <2> QED
    BY <2>3, <2>4
<1> QED
  BY <1>1, <1>3, <1>5 DEF s, r

\* One call before the three of FoundNext.
LEMMA FourCalls ==
    ASSUME NEW m, NEW t
    PROVE  LET s == Call(m) \o FoundNext(t)
           IN  /\ s \in CallSeq
               /\ s = <<>> <=> m \notin Nodes /\ cur[t] \notin Nodes /\ nxt[t] \notin Nodes
                               /\ prev[t] \notin Nodes
               /\ \A n \in Nodes : Occ(s, <<"release", n>>)
                      = Is(m, n) + Is(cur[t], n) + Is(nxt[t], n) + Is(prev[t], n)
               /\ \A n \in Nodes : Occ(s, <<"reclaim", n>>) = 0
<1> DEFINE f == FoundNext(t)
           s == Call(m) \o f
<1>1. /\ f \in CallSeq
      /\ f = <<>> <=> cur[t] \notin Nodes /\ nxt[t] \notin Nodes /\ prev[t] \notin Nodes
      /\ \A n \in Nodes : Occ(f, <<"release", n>>) = Is(nxt[t], n) + Is(cur[t], n) + Is(prev[t], n)
      /\ \A n \in Nodes : Occ(f, <<"reclaim", n>>) = 0
  BY ThreeCalls DEF FoundNext
<1> HIDE DEF f
<1>2. s \in CallSeq /\ (s = <<>> <=> m \notin Nodes /\ f = <<>>)
  BY <1>1, CallFacts, CallConcat
<1>3. \A c : Occ(s, c) = Occ(Call(m), c) + Occ(f, c)
  BY <1>1, CallFacts, CallConcat
<1> HIDE DEF s
<1>4. ASSUME NEW n \in Nodes
      PROVE  /\ Occ(s, <<"release", n>>) = Is(m, n) + Is(cur[t], n) + Is(nxt[t], n) + Is(prev[t], n)
             /\ Occ(s, <<"reclaim", n>>) = 0
  <2>1. /\ Occ(Call(m), <<"release", n>>) = Is(m, n) /\ Occ(Call(m), <<"reclaim", n>>) = 0
        /\ Occ(f, <<"release", n>>) = Is(nxt[t], n) + Is(cur[t], n) + Is(prev[t], n)
        /\ Occ(f, <<"reclaim", n>>) = 0
    BY <1>1, CallFacts
  <2>2. Occ(s, <<"reclaim", n>>) = 0 + 0
    BY <1>3, <2>1
  <2>3. Occ(s, <<"release", n>>) = Is(m, n) + (Is(nxt[t], n) + Is(cur[t], n) + Is(prev[t], n))
    BY <1>3, <2>1
  <2>4. /\ Is(m, n) \in Nat /\ Is(cur[t], n) \in Nat /\ Is(nxt[t], n) \in Nat
        /\ Is(prev[t], n) \in Nat
    BY IsType
  <2> QED
    BY <2>2, <2>3, <2>4
<1> QED
  BY <1>1, <1>2, <1>4 DEF s, f

\* The call that is next, and the ones after it.
LEMMA CalledFacts ==
    ASSUME Types, NEW t \in Threads, Control(t), pc[t] = "release"
    PROVE  /\ todo[t] \in CallSeq /\ todo[t] # <<>> /\ Tail(todo[t]) \in CallSeq
           /\ Called(t) \in Nodes /\ Head(todo[t]) = <<Head(todo[t])[1], Called(t)>>
           /\ \A c : Occ(todo[t], c) = Is(Head(todo[t]), c) + Occ(Tail(todo[t]), c)
<1>1. todo[t] \in CallSeq /\ todo[t] # <<>>
  BY DEF Types, Control, CallSeq
<1>2. Head(todo[t]) \in {"release", "reclaim"} \X Nodes /\ Tail(todo[t]) \in CallSeq
  BY <1>1, HeadTailProperties DEF CallSeq
<1>3. \A c : Occ(todo[t], c) = Is(Head(todo[t]), c) + Occ(Tail(todo[t]), c)
  BY <1>1, OccTail DEF CallSeq
<1> QED
  BY <1>1, <1>2, <1>3 DEF Called

\* A node with a call of release to come has a reference; one with a call of reclaim is
\* claimed.
LEMMA CalledCounts ==
    ASSUME RefInv, NEW t \in Threads, pc[t] = "release"
    PROVE  /\ Calling(t, "release") =>
                  /\ Called(t) \notin fresh /\ Refs(Called(t)) \in Nat /\ Refs(Called(t)) >= 1
                  /\ count[Called(t)] = 2 * Refs(Called(t)) + Claims(Called(t))
                  /\ Claims(Called(t)) \in {0, 1} /\ count[Called(t)] >= 2
                  /\ Occ(todo[t], <<"release", Called(t)>>) >= 1
           /\ Calling(t, "reclaim") => Occ(todo[t], <<"reclaim", Called(t)>>) >= 1
<1> DEFINE n == Called(t)
<1>1. Types /\ Control(t)
  BY DEF RefInv
<1>2. /\ todo[t] \in CallSeq /\ Tail(todo[t]) \in CallSeq
      /\ n \in Nodes /\ Head(todo[t]) = <<Head(todo[t])[1], n>>
      /\ \A c : Occ(todo[t], c) = Is(Head(todo[t]), c) + Occ(Tail(todo[t]), c)
  BY <1>1, CalledFacts
<1> HIDE DEF n
<1>3. \A c : Occ(Tail(todo[t]), c) \in Nat
  BY <1>2, OccType DEF CallSeq
<1>4. \A f \in {"release", "reclaim"} : Calling(t, f) => Occ(todo[t], <<f, n>>) >= 1
  BY <1>2, <1>3 DEF Calling, Is
<1>5. ASSUME Calling(t, "release")
      PROVE  /\ n \notin fresh /\ Refs(n) \in Nat /\ Refs(n) >= 1
             /\ count[n] = 2 * Refs(n) + Claims(n) /\ Claims(n) \in {0, 1} /\ count[n] >= 2
  <2>1. Refs(n) \in Nat /\ Claims(n) \in Nat /\ Refs(n) >= Mine(t, n) /\ Mine(t, n) \in Nat
    BY <1>1, RefsBounds, RefsType
  <2>0. /\ Is(prev[t], n) \in Nat /\ Is(cur[t], n) \in Nat /\ Is(NxtHeld[t], n) \in Nat
        /\ Is(QHeld[t], n) \in Nat /\ Is(new[t], n) \in Nat
        /\ Occ(todo[t], <<"release", n>>) \in Nat /\ Occ(todo[t], <<"release", n>>) >= 1
    BY <1>2, <1>4, <1>5, IsType, OccType DEF CallSeq
  <2>2. Mine(t, n) >= 1
    BY <2>0 DEF Mine
  <2>3. n \notin fresh
    BY <1>2, <2>1, <2>2 DEF RefInv, Counted
  <2>4. count[n] = 2 * Refs(n) + Claims(n) /\ Claims(n) <= 1
    BY <1>2, <2>3 DEF RefInv, Counted
  <2> QED
    BY <2>1, <2>2, <2>3, <2>4
<1> QED
  BY <1>4, <1>5 DEF n

-----------------------------------------------------------------------------
(* What every step does.                                                   *)

\* A step changes the variables of one thread.
LEMMA OthersStep ==
    ASSUME Types, NEW t \in Threads, Thread(t)
    PROVE  OthersStay(t)
<1> SUFFICES ASSUME NEW u \in Threads, u # t
             PROVE  /\ prev'[u] = prev[u] /\ cur'[u] = cur[u] /\ nxt'[u] = nxt[u] /\ nd'[u] = nd[u]
                    /\ dst'[u] = dst[u] /\ q'[u] = q[u] /\ qd'[u] = qd[u] /\ new'[u] = new[u]
                    /\ todo'[u] = todo[u] /\ then'[u] = then[u] /\ pc'[u] = pc[u]
                    /\ op'[u] = op[u] /\ arg'[u] = arg[u] /\ freeList'[u] = freeList[u]
  BY DEF OthersStay
<1>0. /\ DOMAIN prev = Threads /\ DOMAIN cur = Threads /\ DOMAIN nxt = Threads /\ DOMAIN nd = Threads
      /\ DOMAIN dst = Threads /\ DOMAIN q = Threads /\ DOMAIN qd = Threads /\ DOMAIN new = Threads
      /\ DOMAIN todo = Threads /\ DOMAIN then = Threads /\ DOMAIN pc = Threads
      /\ DOMAIN op = Threads /\ DOMAIN arg = Threads /\ DOMAIN freeList = Threads
  BY DEF Types
<1> USE DEF heap, reg, Goto, ReleaseThen, GiveUpThen, Return, Continue, LetGo, Assign, Forget
<1>1. CASE Release(t)
  BY <1>0, <1>1 DEF Release
<1>2. CASE Reclaim(t)
  BY <1>0, <1>2 DEF Reclaim
<1>3. CASE SafeReadLoad(t)
  BY <1>0, <1>3 DEF SafeReadLoad
<1>4. CASE SafeReadCount(t)
  BY <1>0, <1>4 DEF SafeReadCount
<1>5. CASE SafeReadConfirm(t)
  BY <1>0, <1>5 DEF SafeReadConfirm
<1>6. CASE Unlink(t)
  BY <1>0, <1>6 DEF Unlink
<1>7. CASE AddLink(t)
  BY <1>0, <1>7 DEF AddLink
<1>8. CASE Step(t)
  BY <1>0, <1>8 DEF Step
<1>9. CASE Start(t)
  BY <1>0, <1>9 DEF Start
<1>10. CASE NothingToDo(t)
  BY <1>0, <1>10 DEF NothingToDo
<1>11. CASE NewRC(t)
  BY <1>0, <1>11 DEF NewRC
<1>12. CASE Unclaim(t)
  BY <1>0, <1>12 DEF Unclaim
<1>13. CASE Fill(t)
  BY <1>0, <1>13 DEF Fill
<1>14. CASE Link(t)
  BY <1>0, <1>14 DEF Link
<1>15. CASE Mark(t)
  BY <1>0, <1>15 DEF Mark
<1> QED
  BY <1>1, <1>2, <1>3, <1>4, <1>5, <1>6, <1>7, <1>8, <1>9, <1>10, <1>11, <1>12, <1>13, <1>14, <1>15 DEF Thread

\* The types after ReleaseThen.
LEMMA ReleaseTypes ==
    ASSUME Types, NEW t \in Threads, NEW s \in CallSeq, NEW l \in {"idle", "read", "addLink", "end"},
           ReleaseThen(t, s, l)
    PROVE  /\ todo' \in [Threads -> CallSeq] /\ then' \in [Threads -> {"idle", "read", "addLink", "end"}]
           /\ pc' \in [Threads -> RefCountPC]
<1>1. /\ todo \in [Threads -> CallSeq] /\ then \in [Threads -> {"idle", "read", "addLink", "end"}]
      /\ pc \in [Threads -> RefCountPC]
  BY DEF Types, CallSeq
<1>2. l \in RefCountPC /\ "release" \in RefCountPC
  BY DEF RefCountPC
<1> QED
  BY <1>1, <1>2 DEF ReleaseThen, Goto

\* The types after GiveUpThen.
LEMMA GiveUpTypes ==
    ASSUME Types, NEW t \in Threads, NEW s \in CallSeq, NEW l \in {"idle", "read", "addLink", "end"},
           GiveUpThen(t, s, l)
    PROVE  /\ todo' \in [Threads -> CallSeq] /\ then' \in [Threads -> {"idle", "read", "addLink", "end"}]
           /\ pc' \in [Threads -> RefCountPC]
           /\ prev' \in [Threads -> Cells] /\ cur' \in [Threads -> Pointers]
           /\ nxt' \in [Threads -> Pointers] /\ nd' \in [Threads -> BOOLEAN]
           /\ dst' \in [Threads -> {"cur", "nxt"}]
<1>1. ReleaseThen(t, s, l)
  BY DEF GiveUpThen
<1>2. /\ prev' \in [Threads -> Cells] /\ cur' \in [Threads -> Pointers]
      /\ nxt' \in [Threads -> Pointers] /\ nd' \in [Threads -> BOOLEAN]
      /\ dst' \in [Threads -> {"cur", "nxt"}]
  BY DEF GiveUpThen, Types, Cells, Pointers
<1> QED
  BY <1>1, <1>2, ReleaseTypes

\* The types after Continue.
LEMMA ContinueTypes ==
    ASSUME Types, NEW t \in Threads, NEW s \in CallSeq, Tail(todo[t]) \in CallSeq, Continue(t, s)
    PROVE  todo' \in [Threads -> CallSeq] /\ pc' \in [Threads -> RefCountPC]
<1>1. todo \in [Threads -> CallSeq] /\ pc \in [Threads -> RefCountPC]
  BY DEF Types, CallSeq
<1>2. s \o Tail(todo[t]) \in CallSeq
  BY CallConcat
<1>3. then[t] \in RefCountPC /\ "release" \in RefCountPC
  BY DEF Types, RefCountPC
<1> QED
  BY <1>1, <1>2, <1>3 DEF Continue, Goto

\* The types after Assign.
LEMMA AssignTypes ==
    ASSUME Types, NEW t \in Threads, NEW n \in Pointers, NEW b \in BOOLEAN, Assign(t, n, b)
    PROVE  /\ cur' \in [Threads -> Pointers] /\ nxt' \in [Threads -> Pointers]
           /\ nd' \in [Threads -> BOOLEAN] /\ dst' \in [Threads -> {"cur", "nxt"}]
           /\ pc' \in [Threads -> RefCountPC]
<1>1. {"end", "read", "judge"} \subseteq RefCountPC
  BY DEF RefCountPC
<1>2. /\ cur \in [Threads -> Pointers] /\ nxt \in [Threads -> Pointers]
      /\ nd \in [Threads -> BOOLEAN] /\ dst \in [Threads -> {"cur", "nxt"}]
      /\ pc \in [Threads -> RefCountPC]
  BY DEF Types
<1>3. cur' = cur \/ cur' = [cur EXCEPT ![t] = n]
  BY DEF Assign
<1>4. nxt' = nxt \/ nxt' = [nxt EXCEPT ![t] = n]
  BY DEF Assign
<1>5. nd' = nd \/ nd' = [nd EXCEPT ![t] = b]
  BY DEF Assign
<1>6. dst' = dst \/ dst' = [dst EXCEPT ![t] = "nxt"]
  BY DEF Assign
<1>7. \E l \in RefCountPC : pc' = [pc EXCEPT ![t] = l]
  BY <1>1 DEF Assign, Goto
<1>8. nd' \in [Threads -> BOOLEAN]
  BY <1>2, <1>5
<1>9. pc' \in [Threads -> RefCountPC]
  BY <1>2, <1>7
<1> QED
  BY <1>2, <1>3, <1>4, <1>6, <1>8, <1>9

\* Where a thread reads; a count that is decremented is not zero.
LEMMA PlaceFacts ==
    ASSUME RefInv, NEW t \in Threads
    PROVE  /\ pc[t] \in Reading => Source(t) \in Cells /\ Linker(Source(t))
           /\ pc[t] \in {"judge", "addLink"} => cur[t] \in Nodes
           /\ pc[t] = "confirm" => q[t] \in Nodes
           /\ pc[t] = "unclaim" => new[t] \in Nodes \ fresh /\ Claims(new[t]) = 1 /\ count[new[t]] >= 1
           /\ pc[t] \in {"fill", "link"} => new[t] \in Nodes \ fresh /\ Claims(new[t]) = 0
           /\ prev[t] \in Cells /\ Linker(prev[t])
           /\ \A n \in Nodes : n \in Held(t) => Target(n) /\ Linker(n) /\ n \notin fresh
<1>1. Types /\ Control(t) /\ Private(t)
  BY DEF RefInv
<1>2. dst[t] \in {"cur", "nxt"} /\ prev[t] \in Cells /\ cur[t] \in Pointers
  BY <1>1 DEF Types
<1>3. \A n \in Nodes : n \in Held(t) => Target(n) /\ Linker(n) /\ n \notin fresh
  BY TargetFacts DEF Target
<1>4. prev[t] \in Cells /\ Linker(prev[t])
  BY <1>2, <1>3 DEF Held, Cells, Linker
<1>5. pc[t] \in Reading \cup {"judge", "addLink"} => Place(t) = pc[t]
  BY DEF Place, Reading
<1>6. pc[t] \in {"judge", "addLink"} => cur[t] \in Nodes
  BY <1>1, <1>2, <1>5 DEF Control, Reading
<1>7. pc[t] \in Reading => Source(t) \in Cells /\ Linker(Source(t))
  <2>1. CASE dst[t] = "cur"
    BY <2>1 DEF Source, Cells, Linker
  <2>2. CASE dst[t] = "nxt" /\ pc[t] \in Reading
    <3>1. cur[t] \in Nodes
      BY <1>1, <1>5, <2>2 DEF Control
    <3>2. cur[t] \in Held(t)
      BY DEF Held
    <3> QED
      BY <1>3, <2>2, <3>1, <3>2 DEF Source, Cells
  <2> QED
    BY <1>2, <2>1, <2>2
<1>8. ASSUME pc[t] \in {"unclaim", "fill", "link"}
      PROVE  new[t] \in Nodes \ fresh /\ Claims(new[t]) = Is(pc[t], "unclaim")
  <2>1. new[t] \in Nodes
    BY <1>1, <1>8 DEF Control
  <2>2. Claims(new[t]) = Is(pc[t], "unclaim")
    BY <1>1, <2>1 DEF Private
  <2>3. Refs(new[t]) \in Nat /\ Mine(t, new[t]) \in Nat /\ Refs(new[t]) >= Mine(t, new[t])
    BY <1>1, RefsBounds
  <2>4. Mine(t, new[t]) >= 1
    <3> DEFINE n == new[t]
    <3>1. /\ Is(prev[t], n) \in Nat /\ Is(cur[t], n) \in Nat /\ Is(NxtHeld[t], n) \in Nat
          /\ Is(QHeld[t], n) \in Nat /\ Is(new[t], n) = 1
          /\ Occ(todo[t], <<"release", n>>) \in Nat
      BY <1>1, IsType, Domains, OccType DEF CallSeq, Is
    <3> QED
      BY <3>1 DEF Mine
  <2>5. new[t] \notin fresh
    BY <2>1, <2>3, <2>4 DEF RefInv, Counted
  <2> QED
    BY <2>1, <2>2, <2>5
<1>9. ASSUME pc[t] = "unclaim" PROVE Claims(new[t]) = 1 /\ count[new[t]] >= 1
  <2>1. Claims(new[t]) = 1 /\ new[t] \in Nodes \ fresh /\ Refs(new[t]) \in Nat
    BY <1>1, <1>8, <1>9, RefsType DEF Is
  <2> QED
    BY <2>1 DEF RefInv, Counted
<1>10. pc[t] = "confirm" => q[t] \in Nodes
  BY <1>1 DEF Control
<1> QED
  BY <1>3, <1>4, <1>6, <1>7, <1>8, <1>9, <1>10 DEF Is

\* The types are kept.
LEMMA TypesStep ==
    ASSUME RefInv, NEW t \in Threads, Thread(t)
    PROVE  Types'
<1> DEFINE D == {"idle", "read", "addLink", "end"}
<1>0. /\ to \in [Cells -> Pointers] /\ del \in [Cells -> BOOLEAN]
      /\ count \in [Nodes -> Nat] /\ key \in [Nodes -> Keys \cup {0}]
      /\ fresh \in SUBSET Nodes /\ freeList \in [Threads -> Pointers]
      /\ op \in [Threads -> {"none", "insert", "delete", "search", "unlink"}]
      /\ arg \in [Threads -> Keys \cup {0}]
      /\ prev \in [Threads -> Cells] /\ cur \in [Threads -> Pointers]
      /\ nxt \in [Threads -> Pointers] /\ nd \in [Threads -> BOOLEAN]
      /\ dst \in [Threads -> {"cur", "nxt"}]
      /\ q \in [Threads -> Pointers] /\ qd \in [Threads -> BOOLEAN]
      /\ new \in [Threads -> Pointers]
      /\ todo \in [Threads -> CallSeq] /\ then \in [Threads -> D]
      /\ pc \in [Threads -> RefCountPC] /\ Types /\ Control(t)
  BY DEF RefInv, Types, CallSeq
<1> DEFINE H == /\ to' \in [Cells -> Pointers] /\ del' \in [Cells -> BOOLEAN]
                /\ count' \in [Nodes -> Nat] /\ key' \in [Nodes -> Keys \cup {0}]
                /\ fresh' \in SUBSET Nodes /\ freeList' \in [Threads -> Pointers]
           O == /\ op' \in [Threads -> {"none", "insert", "delete", "search", "unlink"}]
                /\ arg' \in [Threads -> Keys \cup {0}]
           F == /\ prev' \in [Threads -> Cells] /\ cur' \in [Threads -> Pointers]
                /\ nxt' \in [Threads -> Pointers] /\ nd' \in [Threads -> BOOLEAN]
                /\ dst' \in [Threads -> {"cur", "nxt"}]
           Q == q' \in [Threads -> Pointers] /\ qd' \in [Threads -> BOOLEAN]
           N == new' \in [Threads -> Pointers]
           T == todo' \in [Threads -> CallSeq] /\ then' \in [Threads -> D]
           C == pc' \in [Threads -> RefCountPC]
<1> SUFFICES H /\ O /\ F /\ Q /\ N /\ T /\ C
  BY DEF Types, CallSeq
<1>a. UNCHANGED heap => H
  BY <1>0 DEF heap
<1>b. UNCHANGED <<op, arg>> => O
  BY <1>0
<1>c. UNCHANGED <<prev, cur, nxt, nd, dst>> => F
  BY <1>0
<1>d. UNCHANGED <<q, qd>> => Q
  BY <1>0
<1>e. UNCHANGED new => N
  BY <1>0
<1>f. UNCHANGED <<todo, then>> => T
  BY <1>0
<1>g. UNCHANGED <<to, del, key, fresh, freeList>> /\ count' \in [Nodes -> Nat] => H
  BY <1>0
<1>h. \A n \in Nodes : \A i \in Int : count[n] + i >= 0 => [count EXCEPT ![n] = @ + i] \in [Nodes -> Nat]
  BY <1>0
<1>i. ASSUME NEW s \in CallSeq, NEW l \in D, ReleaseThen(t, s, l) PROVE T /\ C
  BY <1>0, <1>i, ReleaseTypes
<1>j. ASSUME NEW s \in CallSeq, NEW l \in D, GiveUpThen(t, s, l) PROVE T /\ C /\ F
  BY <1>0, <1>j, GiveUpTypes
<1>k. ASSUME NEW s \in CallSeq, Tail(todo[t]) \in CallSeq, Continue(t, s), UNCHANGED then PROVE T /\ C
  BY <1>0, <1>k, ContinueTypes
<1>l. ASSUME NEW n \in Pointers, NEW b \in BOOLEAN, Assign(t, n, b), UNCHANGED prev PROVE F /\ C
  BY <1>0, <1>l, AssignTypes
<1>r. ASSUME NEW s \in CallSeq, Return(t, s) PROVE T /\ C /\ F /\ O
  <2>1. T /\ C /\ F
    BY <1>r, <1>j DEF Return
  <2>2. O
    BY <1>0, <1>r DEF Return
  <2> QED
    BY <2>1, <2>2
<1>m. ASSUME NEW l \in RefCountPC, Goto(t, l) PROVE C
  BY <1>0, <1>m DEF Goto
<1>n. /\ \A m : Call(m) \in CallSeq /\ Call(m) \o FoundNext(t) \in CallSeq
      /\ Found(t) \in CallSeq /\ FoundNext(t) \in CallSeq /\ <<>> \in CallSeq
  BY CallFacts, ThreeCalls, FourCalls, EmptySeq DEF Found, FoundNext, CallSeq
<1>o. Root \in Cells /\ Null \in Pointers /\ Nodes \subseteq Cells /\ Nodes \subseteq Pointers
  BY DEF Cells, Pointers
<1>p. /\ pc[t] \in Reading => to[Source(t)] \in Pointers /\ del[Source(t)] \in BOOLEAN
      /\ pc[t] \in {"judge", "addLink"} => cur[t] \in Nodes
      /\ pc[t] \in {"count", "confirm"} => q[t] \in Nodes
      /\ pc[t] = "unclaim" => new[t] \in Nodes /\ count[new[t]] >= 1
      /\ pc[t] \in {"fill", "link"} => new[t] \in Nodes
  BY <1>0, PlaceFacts DEF Control
<1> HIDE DEF H, O, F, Q, N, T, C
<1>1. CASE Release(t)
  <2>1. /\ pc[t] = "release" /\ Calling(t, "release")
        /\ UNCHANGED <<to, del, key, fresh, freeList>> /\ UNCHANGED <<op, arg>>
        /\ UNCHANGED <<prev, cur, nxt, nd, dst>> /\ UNCHANGED <<q, qd>> /\ UNCHANGED new /\ UNCHANGED then
    BY <1>1 DEF Release, Calling, reg
  <2>2. Called(t) \in Nodes /\ Tail(todo[t]) \in CallSeq /\ count[Called(t)] >= 2
    BY <1>0, <2>1, CalledFacts, CalledCounts
  <2>3. count' \in [Nodes -> Nat]
    <3>1. count' = [count EXCEPT ![Called(t)] = 1] \/ count' = [count EXCEPT ![Called(t)] = @ - 2]
      BY <1>1 DEF Release
    <3>2. count[Called(t)] \in Nat
      BY <1>0, <2>2
    <3> HIDE DEF Called
    <3> QED
      BY <1>0, <2>2, <3>1, <3>2
  <2>4. \E s \in CallSeq : Continue(t, s)
    <3>1. << <<"reclaim", Called(t)>> >> \in CallSeq
      BY <2>2 DEF CallSeq
    <3>2. Call(to[Called(t)]) \o << <<"reclaim", Called(t)>> >> \in CallSeq
      BY <1>n, <3>1, CallConcat
    <3> QED
      BY <1>1, <1>n, <3>2 DEF Release, LetGo
  <2> QED
    BY <1>b, <1>c, <1>d, <1>e, <1>g, <1>k, <2>1, <2>2, <2>3, <2>4
<1>2. CASE Reclaim(t)
  <2>1. /\ pc[t] = "release" /\ UNCHANGED <<count, key, fresh>> /\ UNCHANGED <<op, arg>>
        /\ UNCHANGED <<prev, cur, nxt, nd, dst>> /\ UNCHANGED <<q, qd>> /\ UNCHANGED new /\ UNCHANGED then
        /\ Continue(t, <<>>)
    BY <1>2 DEF Reclaim, Calling, reg
  <2>2. Called(t) \in Nodes /\ Tail(todo[t]) \in CallSeq
    BY <1>0, <2>1, CalledFacts
  <2>3. H
    <3>1. to' \in [Cells -> Pointers] /\ del' \in [Cells -> BOOLEAN] /\ freeList' \in [Threads -> Pointers]
      BY <1>0, <1>2, <1>o, <2>2 DEF Reclaim
    <3> QED
      BY <1>0, <2>1, <3>1 DEF H
  <2> QED
    BY <1>b, <1>c, <1>d, <1>e, <1>k, <1>n, <2>1, <2>2, <2>3
<1>3. CASE SafeReadLoad(t)
  <2>1. /\ pc[t] \in Reading /\ UNCHANGED heap /\ UNCHANGED <<op, arg>> /\ UNCHANGED prev
        /\ UNCHANGED new /\ UNCHANGED <<todo, then>>
    BY <1>3 DEF SafeReadLoad, Reading
  <2>2. CASE to[Source(t)] = Null
    BY <1>3, <1>a, <1>b, <1>d, <1>e, <1>f, <1>l, <1>o, <1>p, <2>1, <2>2 DEF SafeReadLoad
  <2>3. CASE to[Source(t)] # Null
    <3>1. Q
      BY <1>0, <1>3, <1>p, <2>1, <2>3 DEF SafeReadLoad, Q
    <3>2. Goto(t, "count") /\ UNCHANGED <<cur, nxt, nd, dst>> /\ "count" \in RefCountPC
      BY <1>3, <2>3 DEF SafeReadLoad, RefCountPC
    <3> QED
      BY <1>a, <1>b, <1>c, <1>e, <1>f, <1>m, <2>1, <3>1, <3>2
  <2> QED
    BY <2>2, <2>3
<1>4. CASE SafeReadCount(t)
  <2>1. /\ pc[t] = "count" /\ UNCHANGED <<to, del, key, fresh, freeList>> /\ UNCHANGED <<op, arg>>
        /\ UNCHANGED <<prev, cur, nxt, nd, dst>> /\ UNCHANGED <<q, qd>> /\ UNCHANGED new
        /\ UNCHANGED <<todo, then>> /\ Goto(t, "confirm") /\ "confirm" \in RefCountPC
    BY <1>4 DEF SafeReadCount, reg, RefCountPC
  <2>2. count' \in [Nodes -> Nat]
    BY <1>0, <1>4, <1>h, <1>p, <2>1 DEF SafeReadCount
  <2> QED
    BY <1>b, <1>c, <1>d, <1>e, <1>f, <1>g, <1>m, <2>1, <2>2
<1>5. CASE SafeReadConfirm(t)
  <2>1. /\ pc[t] = "confirm" /\ UNCHANGED heap /\ UNCHANGED <<op, arg>> /\ UNCHANGED prev
        /\ UNCHANGED new
    BY <1>5 DEF SafeReadConfirm
  <2>2. Q
    BY <1>0, <1>5, <1>o DEF SafeReadConfirm, Forget, Q
  <2>3. CASE to[Source(t)] = q[t] /\ del[Source(t)] = qd[t]
    <3>1. Assign(t, q[t], qd[t]) /\ UNCHANGED <<todo, then>>
      BY <1>5, <2>3 DEF SafeReadConfirm
    <3>2. q[t] \in Pointers /\ qd[t] \in BOOLEAN
      BY <1>0
    <3> QED
      BY <1>a, <1>b, <1>e, <1>f, <1>l, <2>1, <2>2, <3>1, <3>2
  <2>4. CASE ~ (to[Source(t)] = q[t] /\ del[Source(t)] = qd[t])
    <3>1. ReleaseThen(t, Call(q[t]), "read") /\ UNCHANGED <<cur, nxt, nd, dst>>
      BY <1>5, <2>4 DEF SafeReadConfirm
    <3> QED
      BY <1>a, <1>b, <1>c, <1>e, <1>i, <1>n, <2>1, <2>2, <3>1
  <2> QED
    BY <2>3, <2>4
<1>6. CASE Unlink(t)
  <2>1. /\ UNCHANGED <<del, count, key, fresh, freeList>> /\ UNCHANGED <<op, arg>>
        /\ UNCHANGED <<q, qd>> /\ UNCHANGED new
    BY <1>6 DEF Unlink
  <2>2. to' \in [Cells -> Pointers]
    BY <1>0, <1>6 DEF Unlink
  <2>3. H
    BY <1>0, <2>1, <2>2 DEF H
  <2>4. T /\ C /\ F
    <3>1. CASE PrevIntact(t)
      BY <1>6, <1>c, <1>i, <1>n, <3>1 DEF Unlink
    <3>2. CASE ~ PrevIntact(t)
      BY <1>6, <1>j, <1>n, <3>2 DEF Unlink
    <3> QED
      BY <3>1, <3>2
  <2> QED
    BY <1>b, <1>d, <1>e, <2>1, <2>3, <2>4
<1>7. CASE AddLink(t)
  <2>1. /\ UNCHANGED <<to, del, key, fresh, freeList>> /\ UNCHANGED <<op, arg>>
        /\ UNCHANGED <<prev, nxt, dst>> /\ UNCHANGED <<q, qd>> /\ UNCHANGED new
    BY <1>7 DEF AddLink
  <2>2. count' \in [Nodes -> Nat]
    <3>1. nxt[t] # Null => nxt[t] \in Nodes
      BY <1>0 DEF Pointers
    <3> QED
      BY <1>0, <1>7, <1>h, <3>1 DEF AddLink
  <2>3. F
    BY <1>0, <1>7, <2>1 DEF AddLink, F
  <2>4. T /\ C
    BY <1>7, <1>i, <1>n DEF AddLink
  <2> QED
    BY <1>b, <1>d, <1>e, <1>g, <2>1, <2>2, <2>3, <2>4
<1>8. CASE Step(t)
  <2>1. UNCHANGED heap /\ UNCHANGED <<op, arg>> /\ UNCHANGED <<q, qd>> /\ UNCHANGED new /\ cur[t] \in Nodes
    BY <1>8, <1>p DEF Step
  <2>2. T /\ C /\ F
    <3>1. CASE ~ PrevIntact(t)
      BY <1>8, <1>j, <1>n, <3>1 DEF Step
    <3>2. CASE PrevIntact(t) /\ key[cur[t]] >= arg[t]
      <4>1. Goto(t, "end") /\ UNCHANGED <<prev, cur, nxt, nd, dst>> /\ UNCHANGED <<todo, then>>
        BY <1>8, <3>2 DEF Step
      <4> QED
        BY <1>c, <1>f, <1>m, <4>1 DEF RefCountPC
    <3>3. CASE PrevIntact(t) /\ ~ (key[cur[t]] >= arg[t])
      <4>1. /\ ReleaseThen(t, Call(prev[t]), IF nxt[t] = Null THEN "end" ELSE "read")
            /\ prev' = [prev EXCEPT ![t] = cur[t]] /\ cur' = [cur EXCEPT ![t] = nxt[t]]
            /\ UNCHANGED <<nxt, nd, dst>>
        BY <1>8, <3>3 DEF Step
      <4>2. F
        BY <1>0, <1>o, <2>1, <4>1 DEF F
      <4> QED
        BY <1>i, <1>n, <4>1, <4>2
    <3> QED
      BY <3>1, <3>2, <3>3
  <2> QED
    BY <1>a, <1>b, <1>d, <1>e, <2>1, <2>2
<1>9. CASE Start(t)
  <2>1. /\ UNCHANGED heap /\ UNCHANGED <<prev, cur, nxt, nd, dst>> /\ UNCHANGED <<q, qd>> /\ UNCHANGED new
        /\ UNCHANGED <<todo, then>> /\ Goto(t, "read")
    BY <1>9 DEF Start, reg
  <2>2. O
    BY <1>0, <1>9 DEF Start, O
  <2> QED
    BY <1>a, <1>c, <1>d, <1>e, <1>f, <1>m, <2>1, <2>2 DEF RefCountPC
<1>10. CASE NothingToDo(t)
  <2>1. UNCHANGED heap /\ UNCHANGED <<q, qd>> /\ UNCHANGED new
    BY <1>10 DEF NothingToDo
  <2> QED
    BY <1>10, <1>a, <1>d, <1>e, <1>n, <1>r, <2>1 DEF NothingToDo
<1>11. CASE NewRC(t)
  <2>1. /\ UNCHANGED <<to, del, key>> /\ UNCHANGED <<op, arg>> /\ UNCHANGED <<prev, cur, nxt, nd, dst>>
        /\ UNCHANGED <<q, qd>> /\ UNCHANGED <<todo, then>>
    BY <1>11 DEF NewRC
  <2>2. CASE freeList[t] # Null
    <3>1. freeList[t] \in Nodes
      BY <1>0, <2>2 DEF Pointers
    <3>2. /\ new' = [new EXCEPT ![t] = freeList[t]] /\ freeList' = [freeList EXCEPT ![t] = to[freeList[t]]]
          /\ count' = [count EXCEPT ![freeList[t]] = @ + 2] /\ Goto(t, "unclaim") /\ UNCHANGED fresh
      BY <1>11, <2>2 DEF NewRC
    <3>3. count' \in [Nodes -> Nat]
      BY <1>0, <1>h, <3>1, <3>2
    <3>4. to[freeList[t]] \in Pointers
      BY <1>0, <1>o, <3>1
    <3>5. H
      BY <1>0, <2>1, <3>2, <3>3, <3>4 DEF H
    <3>6. N
      BY <1>0, <3>2 DEF N
    <3> QED
      BY <1>b, <1>c, <1>d, <1>f, <1>m, <2>1, <3>2, <3>5, <3>6 DEF RefCountPC
  <2>3. CASE freeList[t] = Null
    <3>1. PICK n \in fresh : /\ new' = [new EXCEPT ![t] = n] /\ fresh' = fresh \ {n}
                             /\ count' = [count EXCEPT ![n] = 2] /\ Goto(t, "fill") /\ UNCHANGED freeList
      BY <1>11, <2>3 DEF NewRC
    <3>2. H
      BY <1>0, <2>1, <3>1 DEF H
    <3>3. N
      BY <1>0, <1>o, <3>1 DEF N
    <3> QED
      BY <1>b, <1>c, <1>d, <1>f, <1>m, <2>1, <3>1, <3>2, <3>3 DEF RefCountPC
  <2> QED
    BY <2>2, <2>3
<1>12. CASE Unclaim(t)
  <2>1. /\ pc[t] = "unclaim" /\ UNCHANGED <<to, del, key, fresh, freeList>> /\ UNCHANGED <<op, arg>>
        /\ UNCHANGED <<prev, cur, nxt, nd, dst>> /\ UNCHANGED <<q, qd>> /\ UNCHANGED new
        /\ UNCHANGED <<todo, then>> /\ Goto(t, "fill") /\ "fill" \in RefCountPC
    BY <1>12 DEF Unclaim, reg, RefCountPC
  <2>2. count' \in [Nodes -> Nat]
    <3>1. new[t] \in Nodes /\ count[new[t]] - 1 \in Nat
      BY <1>0, <1>p, <2>1
    <3> QED
      BY <1>0, <1>12, <3>1 DEF Unclaim
  <2> QED
    BY <1>b, <1>c, <1>d, <1>e, <1>f, <1>g, <1>m, <2>1, <2>2
<1>13. CASE Fill(t)
  <2>1. /\ pc[t] = "fill" /\ UNCHANGED <<fresh, freeList>> /\ UNCHANGED <<op, arg>>
        /\ UNCHANGED <<prev, cur, nxt, nd, dst>> /\ UNCHANGED <<q, qd>> /\ UNCHANGED new
        /\ UNCHANGED <<todo, then>> /\ Goto(t, "link") /\ "link" \in RefCountPC
    BY <1>13 DEF Fill, reg, RefCountPC
  <2>2. count' \in [Nodes -> Nat]
    <3>1. cur[t] # Null => cur[t] \in Nodes
      BY <1>0 DEF Pointers
    <3> QED
      BY <1>0, <1>13, <1>h, <3>1 DEF Fill
  <2>3. key' \in [Nodes -> Keys \cup {0}]
    BY <1>0, <1>13 DEF Fill
  <2>4. to' \in [Cells -> Pointers] /\ del' \in [Cells -> BOOLEAN]
    BY <1>0, <1>13 DEF Fill
  <2>5. H
    BY <1>0, <2>1, <2>2, <2>3, <2>4 DEF H
  <2> QED
    BY <1>b, <1>c, <1>d, <1>e, <1>f, <1>m, <2>1, <2>5
<1>14. CASE Link(t)
  <2>1. UNCHANGED <<del, count, key, fresh, freeList>> /\ UNCHANGED <<q, qd>>
    BY <1>14 DEF Link
  <2>2. to' \in [Cells -> Pointers]
    BY <1>0, <1>14 DEF Link
  <2>3. H
    BY <1>0, <2>1, <2>2 DEF H
  <2>4. N
    BY <1>0, <1>14, <1>o DEF Link, N
  <2>5. T /\ C /\ F /\ O
    BY <1>14, <1>b, <1>j, <1>n, <1>r DEF Link
  <2> QED
    BY <1>d, <2>1, <2>3, <2>4, <2>5
<1>15. CASE Mark(t)
  <2>1. UNCHANGED <<to, count, key, fresh, freeList>> /\ UNCHANGED <<q, qd>> /\ UNCHANGED new
    BY <1>15 DEF Mark
  <2>2. del' \in [Cells -> BOOLEAN]
    BY <1>0, <1>15 DEF Mark
  <2>3. H
    BY <1>0, <2>1, <2>2 DEF H
  <2>4. T /\ C /\ F /\ O
    <3>1. CASE Return(t, Found(t))
      BY <1>n, <1>r, <3>1
    <3>2. CASE GiveUpThen(t, Found(t), "read") /\ UNCHANGED arg /\ (op' = op \/ op' = [op EXCEPT ![t] = "unlink"])
      <4>1. O
        BY <1>0, <3>2 DEF O
      <4> QED
        BY <1>j, <1>n, <3>2, <4>1
    <3> QED
      BY <1>15, <3>1, <3>2 DEF Mark
  <2> QED
    BY <1>d, <1>e, <2>1, <2>3, <2>4
<1> QED
  BY <1>1, <1>2, <1>3, <1>4, <1>5, <1>6, <1>7, <1>8, <1>9, <1>10, <1>11, <1>12, <1>13, <1>14, <1>15 DEF Thread

-----------------------------------------------------------------------------
(* Steps that leave the links alone.                                       *)

\* A step that changes no link keeps the invariant.
LEMMA StillInv ==
    ASSUME RefInv, Types', NEW t \in Threads, Calm(t, Root), to' = to,
           \A n \in Nodes : count'[n] = count[n] + 2 * (Mine(t, n)' - Mine(t, n)),
           \A n \in Nodes : count'[n] >= 1 \/ n \in fresh,
           \A n \in fresh : count'[n] = count[n],
           \A n \in Nodes : n \in Held(t)' => Target(n),
           Control(t)', Searched(t)'
    PROVE  RefInv'
<1>1. Root \in Cells /\ Linker(Root) /\ Types /\ OthersStay(t)
  BY DEF RefInv, Cells, Linker, Calm
<1>2. Balanced(t, Root)
  <2> SUFFICES ASSUME NEW n \in Nodes
               PROVE  count'[n] = count[n] + 2 * (Mine(t, n)' + Is(to'[Root], n) - Mine(t, n) - Is(to[Root], n))
    BY DEF Balanced
  <2>1. (\A y \in Cells \ {Root} : Links'[y] = Links[y])
    BY <1>1, CalmLinks
  <2>2. Mine(t, n) \in Nat /\ Mine(t, n)' \in Nat /\ Is(to[Root], n) \in Nat
    BY <1>1, <2>1, RefsStep, IsType
  <2> QED
    BY <2>2
<1>3. to[Root] \in Nodes => Target(to[Root])
  BY <1>1, LinkTargets
<1>4. Tame(t, Root)
  BY <1>3 DEF Tame
<1>5. OnList'
  <2> SUFFICES ASSUME NEW n \in Nodes, Target(n)' PROVE n \in InList' \/ del'[n]
    BY DEF OnList
  <2>1. Target(n)
    BY <1>1, <1>3, <1>4, CalmTargets
  <2>2. n \in InList \/ del[n]
    BY <2>1 DEF RefInv, OnList
  <2>3. InList' = InList
    BY DEF InList
  <2> QED
    BY <2>2, <2>3 DEF Calm, Cells
<1> QED
  BY <1>1, <1>2, <1>4, <1>5, CalmInv

\* After the calls of release a thread is where it was sent.
LEMMA ReleaseThenFacts ==
    ASSUME Types, NEW t \in Threads, NEW s, NEW l \in {"idle", "read", "addLink", "end"},
           ReleaseThen(t, s, l)
    PROVE  /\ todo'[t] = s /\ Place(t)' = l /\ QHeld'[t] = Null
           /\ pc'[t] \in {"idle", "read", "addLink", "end", "release"}
           /\ (pc'[t] = "release" <=> todo'[t] # <<>>)
           /\ NxtHeld'[t] = IF l = "end" THEN nxt'[t] ELSE Null
<1>1. todo'[t] = s /\ then'[t] = l /\ pc'[t] = IF s = <<>> THEN l ELSE "release"
  BY DEF ReleaseThen, Goto, Types
<1>2. Place(t)' = l
  BY <1>1 DEF Place
<1> QED
  BY <1>1, <1>2 DEF QHeld, NxtHeld, Filled

\* With the calls in progress it is where it was.
LEMMA ContinueFacts ==
    ASSUME Types, NEW t \in Threads, NEW s, Continue(t, s), pc[t] = "release", then' = then
    PROVE  /\ todo'[t] = s \o Tail(todo[t]) /\ Place(t)' = Place(t)
           /\ QHeld'[t] = Null /\ QHeld[t] = Null
           /\ pc'[t] \in {"idle", "read", "addLink", "end", "release"}
           /\ (pc'[t] = "release" <=> todo'[t] # <<>>)
<1> DEFINE r == s \o Tail(todo[t])
<1>1. todo'[t] = r /\ then[t] \in {"idle", "read", "addLink", "end"}
      /\ pc'[t] = IF r = <<>> THEN then[t] ELSE "release"
  BY DEF Continue, Goto, Types
<1> HIDE DEF r
<1>2. Place(t)' = Place(t)
  BY <1>1 DEF Place
<1>3. QHeld'[t] = Null /\ QHeld[t] = Null
  BY <1>1 DEF QHeld
<1> QED
  BY <1>1, <1>2, <1>3 DEF r

\* After giving up a thread holds nothing, and has its calls to make.
LEMMA GiveUpFacts ==
    ASSUME Types, Types', NEW t \in Threads, NEW s, NEW l \in {"idle", "read"}, GiveUpThen(t, s, l),
           l = "read" => arg'[t] \in Keys, new'[t] = Null
    PROVE  /\ todo'[t] = s /\ prev'[t] = Root /\ cur'[t] = Null /\ NxtHeld'[t] = Null
           /\ QHeld'[t] = Null /\ pc'[t] \notin {"unclaim", "fill"}
           /\ Control(t)' /\ Searched(t)' /\ \A n \in Nodes : n \notin Held(t)'
<1>1. ReleaseThen(t, s, l)
  BY DEF GiveUpThen
<1>2. /\ todo'[t] = s /\ Place(t)' = l /\ QHeld'[t] = Null
      /\ pc'[t] \in {"idle", "read", "addLink", "end", "release"}
      /\ (pc'[t] = "release" <=> todo'[t] # <<>>)
      /\ NxtHeld'[t] = Null
  BY <1>1, ReleaseThenFacts
<1>3. /\ prev'[t] = Root /\ cur'[t] = Null /\ nxt'[t] = Null /\ nd'[t] = FALSE /\ dst'[t] = "cur"
  BY DEF GiveUpThen, Types
<1>4. Control(t)'
  BY <1>2, <1>3 DEF Control, Reading
<1>5. Searched(t)'
  BY <1>2, <1>3, RefCountAssumption DEF Searched, Filled
<1>6. \A n \in Nodes : n \notin Held(t)'
  BY <1>2, <1>3, RefCountAssumption DEF Held
<1> QED
  BY <1>2, <1>3, <1>4, <1>5, <1>6

\* An attempt or an operation ends: what find held goes to the calls of release.
LEMMA GiveUpInv ==
    ASSUME RefInv, Types', NEW t \in Threads, OthersStay(t), pc[t] \in {"judge", "end", "link"},
           UNCHANGED <<to, count, key, fresh, freeList>>, new'[t] = Null,
           NEW s \in CallSeq, NEW l \in {"idle", "read"}, GiveUpThen(t, s, l), l = "read" => arg' = arg,
           \A n \in Nodes : /\ Occ(s, <<"reclaim", n>>) = 0
                            /\ Occ(s, <<"release", n>>)
                               = Is(cur[t], n) + Is(nxt[t], n) + Is(prev[t], n) + Is(new[t], n),
           del' = del \/ (cur[t] \in Nodes /\ del' = [del EXCEPT ![cur[t]] = TRUE])
    PROVE  RefInv'
<1>1. Types /\ Control(t) /\ Searched(t)
  BY DEF RefInv
<1>2. Place(t) = pc[t] /\ NxtHeld[t] = nxt[t] /\ QHeld[t] = Null /\ todo[t] = <<>>
  BY <1>1 DEF Place, NxtHeld, QHeld, Control, Filled
<1>3. arg[t] \in Keys
  BY <1>1, <1>2 DEF Searched
<1>4. /\ todo'[t] = s /\ prev'[t] = Root /\ cur'[t] = Null /\ NxtHeld'[t] = Null
      /\ QHeld'[t] = Null /\ pc'[t] \notin {"unclaim", "fill"}
      /\ Control(t)' /\ Searched(t)' /\ \A n \in Nodes : n \notin Held(t)'
  BY <1>1, <1>3, GiveUpFacts
<1>5. \A n \in Nodes : Occ(todo[t], <<"reclaim", n>>) = 0 /\ Occ(todo[t], <<"release", n>>) = 0
  BY <1>2, OccEmpty
<1>6. ASSUME NEW n \in Nodes PROVE Mine(t, n)' = Mine(t, n) /\ Mine(t, n) \in Nat
  <2>1. /\ Is(cur[t], n) \in Nat /\ Is(nxt[t], n) \in Nat /\ Is(prev[t], n) \in Nat /\ Is(new[t], n) \in Nat
        /\ Is(Null, n) = 0 /\ Is(Root, n) = 0
    BY IsType, RefCountAssumption DEF Is
  <2>2. Mine(t, n) = Is(prev[t], n) + Is(cur[t], n) + Is(nxt[t], n) + 0 + Is(new[t], n) + 0
    BY <1>2, <1>5, <2>1 DEF Mine
  <2>3. Mine(t, n)' = 0 + 0 + 0 + 0 + 0 + Occ(s, <<"release", n>>)
    BY <1>4, <2>1 DEF Mine
  <2>4. Occ(s, <<"release", n>>) = Is(cur[t], n) + Is(nxt[t], n) + Is(prev[t], n) + Is(new[t], n)
    OBVIOUS
  <2>5. Mine(t, n)' = 0 + 0 + 0 + 0 + 0 + (Is(cur[t], n) + Is(nxt[t], n) + Is(prev[t], n) + Is(new[t], n))
    BY <2>3, <2>4
  <2> QED
    BY <2>1, <2>2, <2>5
<1>7. Calm(t, Root)
  <2>1. /\ \A y \in Cells : del[y] => del'[y]
        /\ \A y \in Nodes : del'[y] # del[y] => Target(y)
    <3>1. cur[t] \in Nodes => Target(cur[t])
      BY DEF Held, Target
    <3>2. del \in [Cells -> BOOLEAN] /\ Nodes \subseteq Cells
      BY <1>1 DEF Types, Cells
    <3> QED
      BY <3>1, <3>2
  <2>2. \A n \in Nodes : Occ(todo'[t], <<"reclaim", n>>) = Occ(todo[t], <<"reclaim", n>>)
    BY <1>4, <1>5
  <2> QED
    BY <1>4, <2>1, <2>2 DEF Calm
<1>8. \A n \in Nodes : count'[n] = count[n] + 2 * (Mine(t, n)' - Mine(t, n))
  BY <1>1, <1>6 DEF Types
<1>9. \A n \in Nodes : count'[n] >= 1 \/ n \in fresh
  <2> SUFFICES ASSUME NEW n \in Nodes \ fresh PROVE count[n] >= 1
    OBVIOUS
  <2>1. Refs(n) \in Nat /\ Claims(n) \in Nat
    BY <1>1, RefsType
  <2> QED
    BY <2>1 DEF RefInv, Counted
<1>10. to' = to /\ \A n \in fresh : count'[n] = count[n]
  OBVIOUS
<1> QED
  BY <1>4, <1>7, <1>8, <1>9, <1>10, StillInv

-----------------------------------------------------------------------------
(* The steps that end an attempt or an operation.                          *)

\* What find holds, and nothing new.
LEMMA FoundCalls ==
    ASSUME RefInv, NEW t \in Threads, pc[t] \in {"judge", "end"}
    PROVE  /\ Found(t) \in CallSeq
           /\ \A n \in Nodes : /\ Occ(Found(t), <<"reclaim", n>>) = 0
                               /\ Occ(Found(t), <<"release", n>>)
                                  = Is(cur[t], n) + Is(nxt[t], n) + Is(prev[t], n) + Is(new[t], n)
           /\ new[t] = Null
<1>1. new[t] = Null
  BY DEF RefInv, Control
<1>2. /\ Found(t) \in CallSeq
      /\ \A n \in Nodes : Occ(Found(t), <<"release", n>>) = Is(cur[t], n) + Is(nxt[t], n) + Is(prev[t], n)
      /\ \A n \in Nodes : Occ(Found(t), <<"reclaim", n>>) = 0
  BY ThreeCalls DEF Found
<1>3. ASSUME NEW n \in Nodes
      PROVE  Is(cur[t], n) + Is(nxt[t], n) + Is(prev[t], n)
             = Is(cur[t], n) + Is(nxt[t], n) + Is(prev[t], n) + Is(new[t], n)
  <2>1. Is(new[t], n) = 0
    BY <1>1, RefCountAssumption DEF Is
  <2>2. Is(cur[t], n) \in Nat /\ Is(nxt[t], n) \in Nat /\ Is(prev[t], n) \in Nat
    BY IsType
  <2> QED
    BY <2>1, <2>2
<1> QED
  BY <1>1, <1>2, <1>3

\* The end of an operation that changes nothing.
LEMMA NothingToDoInv ==
    ASSUME RefInv, Types', NEW t \in Threads, OthersStay(t), NothingToDo(t)
    PROVE  RefInv'
<1>1. /\ pc[t] \in {"judge", "end", "link"} /\ pc[t] \in {"judge", "end"}
      /\ UNCHANGED <<to, count, key, fresh, freeList>> /\ new' = new
      /\ GiveUpThen(t, Found(t), "idle") /\ del' = del
  BY DEF NothingToDo, Return, heap
<1>2. "idle" \in {"idle", "read"}
  OBVIOUS
<1> QED
  BY <1>1, <1>2, FoundCalls, GiveUpInv

\* A node is marked, or is not any more what find left.
LEMMA MarkInv ==
    ASSUME RefInv, Types', NEW t \in Threads, OthersStay(t), Mark(t)
    PROVE  RefInv'
<1>1. /\ pc[t] \in {"judge", "end", "link"} /\ pc[t] \in {"judge", "end"}
      /\ UNCHANGED <<to, count, key, fresh, freeList>> /\ new' = new
  BY DEF Mark
<1>2. PICK l \in {"idle", "read"} : GiveUpThen(t, Found(t), l) /\ (l = "read" => arg' = arg)
  BY DEF Mark, Return
<1>3. cur[t] \in Nodes
  BY DEF Mark, Present, RefInv, Types, Pointers
<1>4. del' = del \/ del' = [del EXCEPT ![cur[t]] = TRUE]
  BY DEF Mark
<1> QED
  BY <1>1, <1>2, <1>3, <1>4, FoundCalls, GiveUpInv

\* prev is not what find left, and the attempt is given up.
LEMMA FailedInv ==
    ASSUME RefInv, Types', NEW t \in Threads, OthersStay(t), ~ PrevIntact(t),
           Unlink(t) \/ Step(t) \/ Link(t)
    PROVE  RefInv'
<1>1. /\ pc[t] \in {"judge", "end", "link"}
      /\ UNCHANGED <<to, count, key, fresh, freeList>> /\ arg' = arg /\ del' = del
  BY DEF Unlink, Step, Link, heap
<1>2. CASE Unlink(t) \/ Step(t)
  <2>1. GiveUpThen(t, Found(t), "read") /\ pc[t] \in {"judge", "end"} /\ new' = new
    BY <1>2 DEF Unlink, Step
  <2>2. "read" \in {"idle", "read"}
    OBVIOUS
  <2> QED
    BY <1>1, <2>1, <2>2, FoundCalls, GiveUpInv
<1>3. CASE Link(t)
  <2> DEFINE s == Call(new[t]) \o FoundNext(t)
  <2>1. GiveUpThen(t, s, "read") /\ new'[t] = Null
    BY <1>3 DEF Link, RefInv, Types
  <2>2. /\ s \in CallSeq
        /\ \A n \in Nodes : Occ(s, <<"release", n>>)
               = Is(new[t], n) + Is(cur[t], n) + Is(nxt[t], n) + Is(prev[t], n)
        /\ \A n \in Nodes : Occ(s, <<"reclaim", n>>) = 0
    BY FourCalls
  <2> HIDE DEF s
  <2>3. ASSUME NEW n \in Nodes
        PROVE  /\ Occ(s, <<"reclaim", n>>) = 0
               /\ Occ(s, <<"release", n>>)
                  = Is(cur[t], n) + Is(nxt[t], n) + Is(prev[t], n) + Is(new[t], n)
    <3>1. Is(cur[t], n) \in Nat /\ Is(nxt[t], n) \in Nat /\ Is(prev[t], n) \in Nat /\ Is(new[t], n) \in Nat
      BY IsType
    <3>2. Occ(s, <<"release", n>>)
               = Is(new[t], n) + Is(cur[t], n) + Is(nxt[t], n) + Is(prev[t], n)
      BY <2>2
    <3> QED
      BY <2>2, <3>1, <3>2
  <2>4. "read" \in {"idle", "read"}
    OBVIOUS
  <2> QED
    BY <1>1, <2>1, <2>2, <2>3, <2>4, GiveUpInv
<1> QED
  BY <1>2, <1>3

-----------------------------------------------------------------------------
(* The other steps that leave the links alone.                             *)

\* The count of a node that has been handed out is not zero.
LEMMA CountedFacts ==
    ASSUME RefInv, NEW n \in Nodes
    PROVE  count[n] \in Nat /\ (n \notin fresh => count[n] >= 1)
<1>1. Refs(n) \in Nat /\ Claims(n) \in Nat
  BY RefsType DEF RefInv
<1> QED
  BY <1>1 DEF RefInv, Counted, Types

\* What makes a step that changes nothing of the heap but counts a calm one.
LEMMA StillCalm ==
    ASSUME RefInv, NEW t \in Threads, OthersStay(t), UNCHANGED <<to, del, key, fresh, freeList>>, new' = new,
           pc[t] \notin {"unclaim", "fill", "link"}, pc'[t] \notin {"unclaim", "fill"},
           \A n \in Nodes : Occ(todo'[t], <<"reclaim", n>>) = Occ(todo[t], <<"reclaim", n>>)
    PROVE  Calm(t, Root) /\ new[t] = Null
  BY DEF Calm, RefInv, Control

\* The calls go on: the variables of the thread are as they were.
LEMMA ContinueControl ==
    ASSUME RefInv, NEW t \in Threads, NEW s, Continue(t, s), pc[t] = "release",
           UNCHANGED <<reg, then, arg, key>>,
           cur[t] \in Nodes /\ Target(cur[t]) => to'[cur[t]] = to[cur[t]] /\ del'[cur[t]] = del[cur[t]]
    PROVE  /\ Control(t)' /\ Searched(t)' /\ Held(t)' = Held(t)
           /\ prev'[t] = prev[t] /\ cur'[t] = cur[t] /\ NxtHeld'[t] = NxtHeld[t]
           /\ QHeld'[t] = Null /\ QHeld[t] = Null /\ new'[t] = Null /\ new[t] = Null
           /\ pc'[t] \notin {"unclaim", "fill"}
<1>0. Types /\ Control(t) /\ Searched(t)
  BY DEF RefInv
<1>1. /\ todo'[t] = s \o Tail(todo[t]) /\ Place(t)' = Place(t)
      /\ QHeld'[t] = Null /\ QHeld[t] = Null
      /\ pc'[t] \in {"idle", "read", "addLink", "end", "release"}
      /\ (pc'[t] = "release" <=> todo'[t] # <<>>)
  BY <1>0, ContinueFacts
<1>2. UNCHANGED <<prev, cur, nxt, nd, dst, q, qd, new>>
  BY DEF reg
<1>3. new[t] = Null
  BY <1>0 DEF Control
<1>4. Control(t)'
  BY <1>0, <1>1, <1>2, <1>3 DEF Control
<1>5. NxtHeld'[t] = NxtHeld[t]
  BY <1>1, <1>2 DEF NxtHeld
<1>6. Place(t) = "addLink" \/ (Place(t) = "judge" /\ nd[t]) => cur[t] \in Nodes
  <2>1. dst[t] \in {"cur", "nxt"}
    BY <1>0 DEF Types
  <2> QED
    BY <1>0, <2>1 DEF Control, Reading
<1>7. cur[t] \in Nodes => to'[cur[t]] = to[cur[t]] /\ del'[cur[t]] = del[cur[t]]
  BY DEF Held, Target
<1>8. Searched(t)'
  BY <1>0, <1>1, <1>2, <1>6, <1>7 DEF Searched
<1>9. Held(t)' = Held(t)
  BY <1>2, <1>5 DEF Held
<1> QED
  BY <1>1, <1>2, <1>3, <1>4, <1>5, <1>8, <1>9

\* release, of a node that has other references or is claimed.
LEMMA ReleaseInv ==
    ASSUME RefInv, Types', NEW t \in Threads, OthersStay(t), Release(t), count[Called(t)] # 2
    PROVE  RefInv'
<1> DEFINE m == Called(t)
<1>0. Types /\ Control(t) /\ pc[t] = "release" /\ Calling(t, "release")
  BY DEF RefInv, Release, Calling
<1>1. /\ UNCHANGED <<to, del, key, fresh, freeList>> /\ new' = new
      /\ count' = [count EXCEPT ![m] = @ - 2] /\ Continue(t, <<>>)
      /\ UNCHANGED <<reg, then, arg, key>>
  BY DEF Release, reg
<1>2. /\ todo[t] \in CallSeq /\ Tail(todo[t]) \in CallSeq
      /\ m \in Nodes /\ Head(todo[t]) = <<"release", m>>
      /\ \A c : Occ(todo[t], c) = Is(Head(todo[t]), c) + Occ(Tail(todo[t]), c)
  BY <1>0, CalledFacts DEF Calling
<1>3. m \notin fresh /\ count[m] >= 2 /\ count[m] # 2 /\ count[m] \in Nat
  BY <1>0, <1>2, CalledCounts, CountedFacts
<1>4. /\ Control(t)' /\ Searched(t)' /\ Held(t)' = Held(t)
      /\ prev'[t] = prev[t] /\ cur'[t] = cur[t] /\ NxtHeld'[t] = NxtHeld[t]
      /\ QHeld'[t] = Null /\ QHeld[t] = Null /\ new'[t] = Null /\ new[t] = Null
      /\ pc'[t] \notin {"unclaim", "fill"}
  BY <1>0, <1>1, ContinueControl
<1>5. todo'[t] = Tail(todo[t])
  <2>1. todo'[t] = <<>> \o Tail(todo[t])
    BY <1>0, <1>1, ContinueFacts
  <2>2. <<>> \o Tail(todo[t]) = Tail(todo[t])
    BY <1>2, ConcatEmptySeq DEF CallSeq
  <2> QED
    BY <2>1, <2>2
<1> HIDE DEF m
<1>6. ASSUME NEW n \in Nodes
      PROVE  /\ Occ(todo[t], <<"reclaim", n>>) = Occ(todo'[t], <<"reclaim", n>>)
             /\ Occ(todo[t], <<"release", n>>) = Is(m, n) + Occ(todo'[t], <<"release", n>>)
  <2>1. Is(<<"release", m>>, <<"reclaim", n>>) = 0 /\ Is(<<"release", m>>, <<"release", n>>) = Is(m, n)
    BY DEF Is
  <2>2. Occ(todo'[t], <<"reclaim", n>>) \in Nat
    BY <1>2, <1>5, OccType DEF CallSeq
  <2>3. Occ(todo[t], <<"reclaim", n>>) = 0 + Occ(todo'[t], <<"reclaim", n>>)
    BY <1>2, <1>5, <2>1
  <2>4. Occ(todo[t], <<"release", n>>) = Is(m, n) + Occ(todo'[t], <<"release", n>>)
    BY <1>2, <1>5, <2>1
  <2> QED
    BY <2>2, <2>3, <2>4
<1>7. ASSUME NEW n \in Nodes PROVE Mine(t, n)' - Mine(t, n) = 0 - Is(m, n)
  <2>1. /\ Is(prev[t], n) \in Nat /\ Is(cur[t], n) \in Nat /\ Is(NxtHeld[t], n) \in Nat
        /\ Is(Null, n) \in Nat /\ Is(m, n) \in Nat /\ Occ(todo'[t], <<"release", n>>) \in Nat
    BY <1>2, <1>5, IsType, OccType DEF CallSeq
  <2>2. Mine(t, n)' = Is(prev[t], n) + Is(cur[t], n) + Is(NxtHeld[t], n) + Is(Null, n) + Is(Null, n)
                      + Occ(todo'[t], <<"release", n>>)
    BY <1>4 DEF Mine
  <2>3. Mine(t, n) = Is(prev[t], n) + Is(cur[t], n) + Is(NxtHeld[t], n) + Is(Null, n) + Is(Null, n)
                      + (Is(m, n) + Occ(todo'[t], <<"release", n>>))
    BY <1>4, <1>6 DEF Mine
  <2> QED
    BY <2>1, <2>2, <2>3
<1>8. Calm(t, Root)
  BY <1>0, <1>1, <1>4, <1>6, StillCalm
<1>9. ASSUME NEW n \in Nodes
      PROVE  /\ count'[n] = count[n] + 2 * (Mine(t, n)' - Mine(t, n))
             /\ count'[n] >= 1 \/ n \in fresh
             /\ n \in fresh => count'[n] = count[n]
  <2>1. count'[n] = IF n = m THEN count[n] - 2 ELSE count[n]
    BY <1>0, <1>1 DEF Types
  <2>2. count[n] \in Nat /\ (n \notin fresh => count[n] >= 1)
    BY CountedFacts
  <2>3. Is(m, n) = IF n = m THEN 1 ELSE 0
    BY DEF Is
  <2>4. count'[n] = count[n] + 2 * (0 - Is(m, n))
    BY <2>1, <2>2, <2>3
  <2>5. count'[n] >= 1 \/ n \in fresh
    BY <1>3, <2>1, <2>2
  <2> QED
    BY <1>3, <1>7, <2>1, <2>4, <2>5
<1>10. \A n \in Nodes : n \in Held(t)' => Target(n)
  BY <1>4 DEF Target
<1>11. \A n \in fresh : count'[n] = count[n]
  BY <1>0, <1>9 DEF Types
<1>12. to' = to
  BY <1>1
<1> QED
  BY <1>4, <1>8, <1>9, <1>10, <1>11, <1>12, StillInv

\* The pointer that is read leads to a node that may be followed.
LEMMA ReadFacts ==
    ASSUME RefInv, NEW t \in Threads, pc[t] \in Reading
    PROVE  /\ to[Source(t)] \in Pointers /\ (to[Source(t)] \in Nodes => Target(to[Source(t)]))
           /\ Place(t) = pc[t] /\ NxtHeld[t] = Null /\ todo[t] = <<>> /\ new[t] = Null
           /\ arg[t] \in Keys /\ dst[t] \in {"cur", "nxt"}
           /\ dst[t] = "cur" => prev[t] = Root /\ cur[t] = Null /\ nxt[t] = Null
           /\ dst[t] = "nxt" => cur[t] \in Nodes /\ Source(t) = cur[t]
           /\ prev[t] \in Nodes => key[prev[t]] < arg[t]
           /\ QHeld[t] = IF pc[t] = "confirm" THEN q[t] ELSE Null
<1>1. Types /\ Control(t) /\ Searched(t)
  BY DEF RefInv
<1>2. Place(t) = pc[t]
  BY DEF Place, Reading
<1>3. to[Source(t)] \in Pointers /\ (to[Source(t)] \in Nodes => Target(to[Source(t)]))
  BY <1>1, PlaceFacts, LinkTargets
<1>4. NxtHeld[t] = Null /\ QHeld[t] = IF pc[t] = "confirm" THEN q[t] ELSE Null
  BY <1>2 DEF NxtHeld, QHeld, Reading, Filled
<1>5. dst[t] \in {"cur", "nxt"}
  BY <1>1 DEF Types
<1>6. todo[t] = <<>> /\ new[t] = Null
  BY <1>1 DEF Control, Reading
<1>7. arg[t] \in Keys /\ (prev[t] \in Nodes => key[prev[t]] < arg[t])
  BY <1>1, <1>2 DEF Searched, Reading
<1>8. dst[t] = "cur" => prev[t] = Root /\ cur[t] = Null /\ nxt[t] = Null
  BY <1>1 DEF Control
<1>9. dst[t] = "nxt" => cur[t] \in Nodes /\ Source(t) = cur[t]
  BY <1>1, <1>2 DEF Control, Source
<1> QED
  BY <1>2, <1>3, <1>4, <1>5, <1>6, <1>7, <1>8, <1>9

\* What safeRead returns.
LEMMA AssignFacts ==
    ASSUME RefInv, NEW t \in Threads, pc[t] \in {"read", "confirm"}, NEW n, n = to[Source(t)],
           Assign(t, n, del[Source(t)]), UNCHANGED <<to, del, key, fresh, arg, prev, new, todo, then>>
    PROVE  /\ Control(t)' /\ Searched(t)' /\ pc'[t] \notin {"unclaim", "fill"}
           /\ QHeld'[t] = Null /\ \A m \in Nodes : m \in Held(t)' => Target(m)
           /\ \/ cur'[t] = n /\ cur[t] = Null /\ NxtHeld'[t] = Null
              \/ NxtHeld'[t] = n /\ cur'[t] = cur[t]
<1>1. Types
  BY DEF RefInv
<1>2. /\ n \in Pointers /\ (n \in Nodes => Target(n))
      /\ NxtHeld[t] = Null /\ todo[t] = <<>> /\ new[t] = Null
      /\ arg[t] \in Keys /\ dst[t] \in {"cur", "nxt"}
      /\ dst[t] = "cur" => prev[t] = Root /\ cur[t] = Null /\ nxt[t] = Null
      /\ dst[t] = "nxt" => cur[t] \in Nodes /\ Source(t) = cur[t]
      /\ prev[t] \in Nodes => key[prev[t]] < arg[t]
  BY ReadFacts DEF Reading
<1>3. CASE dst[t] = "cur"
  <2>1. /\ cur'[t] = n /\ dst'[t] = "nxt" /\ pc'[t] = (IF n = Null THEN "end" ELSE "read")
        /\ nxt'[t] = Null /\ prev'[t] = Root
    BY <1>1, <1>2, <1>3 DEF Assign, Goto, Types
  <2>2. Place(t)' = pc'[t]
    BY <2>1 DEF Place
  <2>3. NxtHeld'[t] = Null /\ QHeld'[t] = Null
    BY <2>1, <2>2 DEF NxtHeld, QHeld, Filled
  <2>4. Control(t)'
    BY <1>2, <2>1, <2>2 DEF Control, Reading, Pointers
  <2>5. Searched(t)'
    BY <1>2, <2>1, <2>2, RefCountAssumption DEF Searched, Filled
  <2>6. \A m \in Nodes : m \in Held(t)' => Target(m)
    BY <1>2, <2>1, <2>3, RefCountAssumption DEF Held
  <2> QED
    BY <1>2, <1>3, <2>1, <2>3, <2>4, <2>5, <2>6
<1>4. CASE dst[t] = "nxt"
  <2>1. /\ nxt'[t] = n /\ nd'[t] = del[cur[t]] /\ pc'[t] = "judge" /\ cur' = cur /\ dst' = dst /\ prev' = prev
    BY <1>1, <1>2, <1>4 DEF Assign, Goto, Types
  <2>2. Place(t)' = "judge"
    BY <2>1 DEF Place
  <2>3. NxtHeld'[t] = n /\ QHeld'[t] = Null
    BY <2>1, <2>2 DEF NxtHeld, QHeld
  <2>4. Control(t)'
    BY <1>2, <1>4, <2>1, <2>2 DEF Control, Reading
  <2>5. Searched(t)'
    BY <1>2, <1>4, <2>1, <2>2 DEF Searched, Filled
  <2>6. \A m \in Nodes : m \in Held(t)' => Target(m)
    BY <1>2, <2>1, <2>3 DEF Held, Target
  <2> QED
    BY <1>2, <1>4, <2>1, <2>3, <2>4, <2>5, <2>6
<1> QED
  BY <1>2, <1>3, <1>4

\* The pointer is read: nothing is counted yet.
LEMMA SafeReadLoadInv ==
    ASSUME RefInv, Types', NEW t \in Threads, OthersStay(t), SafeReadLoad(t)
    PROVE  RefInv'
<1>0. Types
  BY DEF RefInv
<1>1. /\ pc[t] = "read" /\ pc[t] \in Reading /\ pc[t] \in {"read", "confirm"}
      /\ UNCHANGED <<to, del, count, key, fresh, freeList, arg, prev, new, todo, then>>
  BY DEF SafeReadLoad, heap, Reading
<1>2. /\ to[Source(t)] \in Pointers /\ (to[Source(t)] \in Nodes => Target(to[Source(t)]))
      /\ Place(t) = pc[t] /\ NxtHeld[t] = Null /\ todo[t] = <<>> /\ new[t] = Null
      /\ QHeld[t] = Null
  BY <1>1, ReadFacts
<1>3. /\ Control(t)' /\ Searched(t)' /\ pc'[t] \notin {"unclaim", "fill"}
      /\ QHeld'[t] = Null /\ \A m \in Nodes : m \in Held(t)' => Target(m)
      /\ cur'[t] = cur[t] /\ NxtHeld'[t] = Null
  <2>1. CASE to[Source(t)] = Null
    <3>1. Assign(t, Null, del[Source(t)])
      BY <2>1 DEF SafeReadLoad
    <3> QED
      BY <1>1, <2>1, <3>1, AssignFacts
  <2>2. CASE to[Source(t)] # Null
    <3>1. q'[t] = to[Source(t)] /\ pc'[t] = "count" /\ UNCHANGED <<cur, nxt, nd, dst>>
      BY <1>0, <2>2 DEF SafeReadLoad, Goto, Types
    <3>2. Place(t)' = "count"
      BY <3>1 DEF Place
    <3>3. NxtHeld'[t] = Null /\ QHeld'[t] = Null
      BY <3>1, <3>2 DEF NxtHeld, QHeld, Filled
    <3>4. q'[t] \in Nodes \ fresh
      BY <1>2, <2>2, <3>1, TargetFacts DEF Pointers
    <3>5. Control(t)'
      BY <1>1, <1>2, <3>1, <3>2, <3>4 DEF Control, RefInv, Reading
    <3>6. Searched(t)'
      BY <1>1, <1>2, <3>1, <3>2 DEF Searched, RefInv, Filled
    <3>7. \A m \in Nodes : m \in Held(t)' => Target(m)
      BY <1>1, <3>1, <3>3, RefCountAssumption DEF Held, Target
    <3> QED
      BY <3>1, <3>3, <3>5, <3>6, <3>7
  <2> QED
    BY <2>1, <2>2
<1>4. Calm(t, Root)
  BY <1>1, <1>3, StillCalm
<1>5. ASSUME NEW n \in Nodes
      PROVE  /\ count'[n] = count[n] + 2 * (Mine(t, n)' - Mine(t, n))
             /\ count'[n] >= 1 \/ n \in fresh
  <2>1. Mine(t, n) = Mine(t, n)'
    BY <1>1, <1>2, <1>3 DEF Mine
  <2>2. Mine(t, n) \in Nat
    BY <1>0, RefsBounds
  <2> QED
    BY <1>1, <2>1, <2>2, CountedFacts
<1>6. to' = to /\ \A n \in fresh : count'[n] = count[n]
  BY <1>1
<1> QED
  BY <1>3, <1>4, <1>5, <1>6, StillInv

\* The node that was read is counted, whatever has become of it.
LEMMA SafeReadCountInv ==
    ASSUME RefInv, Types', NEW t \in Threads, OthersStay(t), SafeReadCount(t)
    PROVE  RefInv'
<1>0. Types
  BY DEF RefInv
<1>1. /\ pc[t] = "count" /\ pc[t] \in Reading /\ pc'[t] = "confirm"
      /\ UNCHANGED <<to, del, key, fresh, freeList, arg, todo, then>>
      /\ UNCHANGED <<prev, cur, nxt, nd, dst, q, qd, new>>
  BY <1>0 DEF SafeReadCount, reg, Reading, Goto, Types
<1>2. /\ Place(t) = pc[t] /\ NxtHeld[t] = Null /\ todo[t] = <<>> /\ new[t] = Null
      /\ QHeld[t] = Null
  BY <1>1, ReadFacts
<1>3. q[t] \in Nodes \ fresh
  BY <1>1 DEF RefInv, Control
<1>4. Place(t)' = "confirm"
  BY <1>1 DEF Place
<1>5. NxtHeld'[t] = Null /\ QHeld'[t] = q[t]
  BY <1>1, <1>4 DEF NxtHeld, QHeld, Filled
<1>6. Control(t)'
  BY <1>1, <1>2, <1>3, <1>4 DEF Control, RefInv, Reading
<1>7. Searched(t)'
  BY <1>1, <1>2, <1>4 DEF Searched, RefInv, Filled
<1>8. \A m \in Nodes : m \in Held(t)' => Target(m)
  BY <1>1, <1>5, RefCountAssumption DEF Held, Target
<1>9. Calm(t, Root)
  BY <1>1, StillCalm
<1>10. ASSUME NEW n \in Nodes
       PROVE  /\ count'[n] = count[n] + 2 * (Mine(t, n)' - Mine(t, n))
              /\ count'[n] >= 1 \/ n \in fresh
              /\ n \in fresh => count'[n] = count[n]
  <2>1. /\ Mine(t, n) = Is(prev[t], n) + Is(cur[t], n) + Is(Null, n) + Is(Null, n) + Is(new[t], n)
                        + Occ(todo[t], <<"release", n>>)
        /\ Mine(t, n)' = Is(prev[t], n) + Is(cur[t], n) + Is(Null, n) + Is(q[t], n) + Is(new[t], n)
                         + Occ(todo[t], <<"release", n>>)
    BY <1>1, <1>2, <1>5 DEF Mine
  <2>2. /\ Is(prev[t], n) \in Nat /\ Is(cur[t], n) \in Nat /\ Is(Null, n) = 0 /\ Is(new[t], n) \in Nat
        /\ Is(q[t], n) = (IF n = q[t] THEN 1 ELSE 0)
        /\ Occ(todo[t], <<"release", n>>) \in Nat
    BY <1>0, IsType, Domains, OccType, RefCountAssumption DEF Is, CallSeq
  <2>3. Mine(t, n)' - Mine(t, n) = Is(q[t], n)
    BY <2>1, <2>2
  <2>4. count'[n] = IF n = q[t] THEN count[n] + 2 ELSE count[n]
    BY <1>0, <1>3 DEF SafeReadCount, Types
  <2> QED
    BY <1>3, <2>2, <2>3, <2>4, CountedFacts
<1>11. to' = to /\ \A n \in fresh : count'[n] = count[n]
  BY <1>0, <1>1, <1>10 DEF Types
<1> QED
  BY <1>6, <1>7, <1>8, <1>9, <1>10, <1>11, StillInv

\* The pointer is as it was and the node is held, or its count is given back.
LEMMA SafeReadConfirmInv ==
    ASSUME RefInv, Types', NEW t \in Threads, OthersStay(t), SafeReadConfirm(t)
    PROVE  RefInv'
<1>0. Types
  BY DEF RefInv
<1>1. /\ pc[t] = "confirm" /\ pc[t] \in Reading /\ pc[t] \in {"read", "confirm"}
      /\ UNCHANGED <<to, del, count, key, fresh, freeList, arg, prev, new>>
  BY DEF SafeReadConfirm, heap, Reading
<1>2. /\ Place(t) = pc[t] /\ NxtHeld[t] = Null /\ todo[t] = <<>> /\ new[t] = Null
      /\ QHeld[t] = q[t] /\ q[t] \in Nodes
  BY <1>1, ReadFacts, PlaceFacts
<1>3. \A n \in Nodes : Occ(todo[t], <<"release", n>>) = 0 /\ Occ(todo[t], <<"reclaim", n>>) = 0
  BY <1>2, OccEmpty
<1>4. /\ Control(t)' /\ Searched(t)' /\ pc'[t] \notin {"unclaim", "fill"}
      /\ QHeld'[t] = Null /\ \A m \in Nodes : m \in Held(t)' => Target(m)
      /\ \A n \in Nodes :
            /\ Occ(todo'[t], <<"reclaim", n>>) = 0
            /\ Is(cur'[t], n) + Is(NxtHeld'[t], n) + Occ(todo'[t], <<"release", n>>)
               = Is(cur[t], n) + Is(q[t], n)
  <2>1. CASE to[Source(t)] = q[t] /\ del[Source(t)] = qd[t]
    <3>1. Assign(t, q[t], del[Source(t)]) /\ UNCHANGED <<todo, then>>
      BY <2>1 DEF SafeReadConfirm
    <3>2. /\ Control(t)' /\ Searched(t)' /\ pc'[t] \notin {"unclaim", "fill"}
          /\ QHeld'[t] = Null /\ \A m \in Nodes : m \in Held(t)' => Target(m)
          /\ \/ cur'[t] = q[t] /\ cur[t] = Null /\ NxtHeld'[t] = Null
             \/ NxtHeld'[t] = q[t] /\ cur'[t] = cur[t]
      BY <1>1, <2>1, <3>1, AssignFacts
    <3>3. ASSUME NEW n \in Nodes
          PROVE  Is(cur'[t], n) + Is(NxtHeld'[t], n) + Occ(todo'[t], <<"release", n>>)
                 = Is(cur[t], n) + Is(q[t], n)
      <4>1. Is(Null, n) = 0 /\ Is(q[t], n) \in Nat /\ Is(cur[t], n) \in Nat
        BY IsType, RefCountAssumption DEF Is
      <4>2. Occ(todo'[t], <<"release", n>>) = 0
        BY <1>3, <3>1
      <4> QED
        BY <3>2, <4>1, <4>2
    <3> QED
      BY <1>3, <3>1, <3>2, <3>3
  <2>2. CASE ~ (to[Source(t)] = q[t] /\ del[Source(t)] = qd[t])
    <3>1. ReleaseThen(t, Call(q[t]), "read") /\ UNCHANGED <<cur, nxt, nd, dst>>
      BY <2>2 DEF SafeReadConfirm
    <3>2. /\ todo'[t] = Call(q[t]) /\ Place(t)' = "read" /\ QHeld'[t] = Null
          /\ pc'[t] \in {"idle", "read", "addLink", "end", "release"}
          /\ (pc'[t] = "release" <=> todo'[t] # <<>>)
          /\ NxtHeld'[t] = Null
      BY <1>0, <3>1, ReleaseThenFacts
    <3>3. Control(t)'
      BY <1>1, <1>2, <3>1, <3>2 DEF Control, RefInv, Reading
    <3>4. Searched(t)'
      BY <1>1, <1>2, <3>1, <3>2 DEF Searched, RefInv, Filled
    <3>5. \A m \in Nodes : m \in Held(t)' => Target(m)
      BY <1>1, <3>1, <3>2, RefCountAssumption DEF Held, Target
    <3>6. ASSUME NEW n \in Nodes
          PROVE  /\ Occ(todo'[t], <<"reclaim", n>>) = 0
                 /\ Is(cur'[t], n) + Is(NxtHeld'[t], n) + Occ(todo'[t], <<"release", n>>)
                    = Is(cur[t], n) + Is(q[t], n)
      <4>1. Is(Null, n) = 0 /\ Is(q[t], n) \in Nat /\ Is(cur[t], n) \in Nat
        BY IsType, RefCountAssumption DEF Is
      <4>2. Occ(todo'[t], <<"release", n>>) = Is(q[t], n) /\ Occ(todo'[t], <<"reclaim", n>>) = 0
        BY <3>2, CallFacts
      <4> QED
        BY <3>1, <3>2, <4>1, <4>2
    <3> QED
      BY <3>2, <3>3, <3>4, <3>5, <3>6
  <2> QED
    BY <2>1, <2>2
<1>5. Calm(t, Root)
  BY <1>1, <1>3, <1>4, StillCalm
<1>6. ASSUME NEW n \in Nodes
      PROVE  /\ count'[n] = count[n] + 2 * (Mine(t, n)' - Mine(t, n))
             /\ count'[n] >= 1 \/ n \in fresh
  <2> DEFINE a == Is(cur'[t], n)
             b == Is(NxtHeld'[t], n)
             c == Occ(todo'[t], <<"release", n>>)
  <2>1. a \in Nat /\ b \in Nat /\ c \in Nat
    BY IsType, OccType DEF Types, CallSeq
  <2>2. /\ Is(prev[t], n) \in Nat /\ Is(cur[t], n) \in Nat /\ Is(Null, n) = 0 /\ Is(new[t], n) \in Nat
        /\ Is(q[t], n) \in Nat
    BY IsType, RefCountAssumption DEF Is
  <2>3. Mine(t, n) = Is(prev[t], n) + Is(cur[t], n) + 0 + Is(q[t], n) + Is(new[t], n) + 0
    BY <1>2, <1>3, <2>2 DEF Mine
  <2>4. Mine(t, n)' = Is(prev[t], n) + a + b + 0 + Is(new[t], n) + c
    BY <1>1, <1>4, <2>2 DEF Mine
  <2>5. a + b + c = Is(cur[t], n) + Is(q[t], n)
    BY <1>4
  <2> HIDE DEF a, b, c
  <2>6. Mine(t, n)' = Mine(t, n) /\ Mine(t, n) \in Nat
    BY <2>1, <2>2, <2>3, <2>4, <2>5
  <2> QED
    BY <1>1, <2>6, CountedFacts
<1>7. to' = to /\ \A n \in fresh : count'[n] = count[n]
  BY <1>1
<1> QED
  BY <1>4, <1>5, <1>6, <1>7, StillInv

\* An operation starts.
LEMMA StartInv ==
    ASSUME RefInv, Types', NEW t \in Threads, OthersStay(t), Start(t)
    PROVE  RefInv'
<1>0. Types /\ Control(t) /\ Searched(t)
  BY DEF RefInv
<1>1. /\ pc[t] = "idle" /\ pc'[t] = "read" /\ arg'[t] \in Keys
      /\ UNCHANGED <<to, del, count, key, fresh, freeList, todo, then>>
      /\ UNCHANGED <<prev, cur, nxt, nd, dst, q, qd, new>>
  BY <1>0 DEF Start, heap, reg, Goto, Types
<1>2. Place(t) = "idle" /\ Place(t)' = "read"
  BY <1>1 DEF Place
<1>3. NxtHeld[t] = Null /\ NxtHeld'[t] = Null /\ QHeld[t] = Null /\ QHeld'[t] = Null
  BY <1>1, <1>2 DEF NxtHeld, QHeld, Filled
<1>4. dst[t] = "cur" /\ prev[t] = Root /\ cur[t] = Null /\ nxt[t] = Null /\ todo[t] = <<>> /\ new[t] = Null
  BY <1>0, <1>1, <1>2 DEF Control
<1>5. Control(t)' /\ Searched(t)'
  BY <1>1, <1>2, <1>4, RefCountAssumption DEF Control, Searched, Reading, Filled
<1>6. \A m \in Nodes : m \in Held(t)' => Target(m)
  BY <1>1, <1>3, RefCountAssumption DEF Held, Target
<1>7. Calm(t, Root)
  BY <1>1, StillCalm
<1>8. ASSUME NEW n \in Nodes
      PROVE  /\ count'[n] = count[n] + 2 * (Mine(t, n)' - Mine(t, n))
             /\ count'[n] >= 1 \/ n \in fresh
  <2>1. Mine(t, n)' = Mine(t, n)
    BY <1>1, <1>3 DEF Mine
  <2>2. Mine(t, n) \in Nat
    BY <1>0, RefsBounds
  <2> QED
    BY <1>1, <2>1, <2>2, CountedFacts
<1>9. to' = to /\ \A n \in fresh : count'[n] = count[n]
  BY <1>1
<1> QED
  BY <1>5, <1>6, <1>7, <1>8, <1>9, StillInv

\* find goes on, or has found its place.
LEMMA StepInv ==
    ASSUME RefInv, Types', NEW t \in Threads, OthersStay(t), Step(t), PrevIntact(t)
    PROVE  RefInv'
<1>0. Types /\ Control(t) /\ Searched(t)
  BY DEF RefInv
<1>1. /\ pc[t] = "judge" /\ ~ nd[t]
      /\ UNCHANGED <<to, del, count, key, fresh, freeList, arg, q, qd, new, nxt, nd, dst>>
  BY DEF Step, heap
<1>2. Place(t) = "judge" /\ NxtHeld[t] = nxt[t] /\ QHeld[t] = Null /\ todo[t] = <<>> /\ new[t] = Null
  BY <1>0, <1>1 DEF Place, NxtHeld, QHeld, Control
<1>3. dst[t] = "nxt" /\ cur[t] \in Nodes /\ nxt[t] \in Pointers
  BY <1>0, <1>1, <1>2, PlaceFacts DEF Control, Types, Reading
<1>4. arg[t] \in Keys /\ arg[t] \in Int /\ key[cur[t]] \in Int /\ (prev[t] \in Nodes => key[prev[t]] < arg[t])
  <2>1. (\A k \in Keys : k \in Int) /\ (key[cur[t]] \in Keys \/ key[cur[t]] = 0)
    BY <1>0, <1>3, RefCountAssumption DEF Types
  <2>2. arg[t] \in Keys /\ (prev[t] \in Nodes => key[prev[t]] < arg[t])
    BY <1>0, <1>2 DEF Searched
  <2> QED
    BY <2>1, <2>2
<1>5. \A n \in Nodes : Occ(todo[t], <<"release", n>>) = 0 /\ Occ(todo[t], <<"reclaim", n>>) = 0
  BY <1>2, OccEmpty
<1>6. ASSUME Control(t)', Searched(t)', pc'[t] \notin {"unclaim", "fill"}, QHeld'[t] = Null,
             \A m \in Nodes : m \in Held(t)' => Target(m),
             \A n \in Nodes :
                 /\ Occ(todo'[t], <<"reclaim", n>>) = 0
                 /\ Is(prev'[t], n) + Is(cur'[t], n) + Is(NxtHeld'[t], n) + Occ(todo'[t], <<"release", n>>)
                    = Is(prev[t], n) + Is(cur[t], n) + Is(nxt[t], n)
      PROVE  RefInv'
  <2>1. Calm(t, Root)
    BY <1>1, <1>5, <1>6, StillCalm
  <2>2. ASSUME NEW n \in Nodes
        PROVE  /\ count'[n] = count[n] + 2 * (Mine(t, n)' - Mine(t, n))
               /\ count'[n] >= 1 \/ n \in fresh
    <3> DEFINE a == Is(cur'[t], n)
               b == Is(NxtHeld'[t], n)
               c == Occ(todo'[t], <<"release", n>>)
               d == Is(prev'[t], n)
    <3>1. a \in Nat /\ b \in Nat /\ c \in Nat /\ d \in Nat
      BY IsType, OccType DEF Types, CallSeq
    <3>2. /\ Is(prev[t], n) \in Nat /\ Is(cur[t], n) \in Nat /\ Is(nxt[t], n) \in Nat
          /\ Is(Null, n) = 0 /\ Is(new[t], n) \in Nat
      BY IsType, RefCountAssumption DEF Is
    <3>3. Mine(t, n) = Is(prev[t], n) + Is(cur[t], n) + Is(nxt[t], n) + 0 + Is(new[t], n) + 0
      BY <1>2, <1>5, <3>2 DEF Mine
    <3>4. Mine(t, n)' = d + a + b + 0 + Is(new[t], n) + c
      BY <1>1, <1>6, <3>2 DEF Mine
    <3>5. d + a + b + c = Is(prev[t], n) + Is(cur[t], n) + Is(nxt[t], n)
      BY <1>6
    <3> HIDE DEF a, b, c, d
    <3>6. Mine(t, n)' = Mine(t, n) /\ Mine(t, n) \in Nat
      BY <3>1, <3>2, <3>3, <3>4, <3>5
    <3> QED
      BY <1>1, <3>6, CountedFacts
  <2>3. to' = to /\ \A n \in fresh : count'[n] = count[n]
    BY <1>1
  <2> QED
    BY <1>6, <2>1, <2>2, <2>3, StillInv
<1>7. CASE key[cur[t]] >= arg[t]
  <2>1. pc'[t] = "end" /\ UNCHANGED <<prev, cur, todo, then>>
    BY <1>0, <1>7 DEF Step, Goto, Types
  <2>2. Place(t)' = "end"
    BY <2>1 DEF Place
  <2>3. NxtHeld'[t] = nxt[t] /\ QHeld'[t] = Null
    BY <1>1, <2>1, <2>2 DEF NxtHeld, QHeld, Filled
  <2>4. Control(t)'
    BY <1>1, <1>2, <1>3, <2>1, <2>2 DEF Control, Reading
  <2>5. Searched(t)'
    BY <1>1, <1>4, <1>7, <2>1, <2>2 DEF Searched, Filled
  <2>6. \A m \in Nodes : m \in Held(t)' => Target(m)
    BY <1>2, <2>1, <2>3 DEF Held, Target
  <2>7. ASSUME NEW n \in Nodes
        PROVE  /\ Occ(todo'[t], <<"reclaim", n>>) = 0
               /\ Is(prev'[t], n) + Is(cur'[t], n) + Is(NxtHeld'[t], n) + Occ(todo'[t], <<"release", n>>)
                  = Is(prev[t], n) + Is(cur[t], n) + Is(nxt[t], n)
    <3>1. Is(prev[t], n) \in Nat /\ Is(cur[t], n) \in Nat /\ Is(nxt[t], n) \in Nat
      BY IsType
    <3> QED
      BY <1>5, <2>1, <2>3, <3>1
  <2> QED
    BY <1>6, <2>1, <2>3, <2>4, <2>5, <2>6, <2>7
<1>8. CASE ~ (key[cur[t]] >= arg[t])
  <2> DEFINE l == IF nxt[t] = Null THEN "end" ELSE "read"
  <2>1. /\ ReleaseThen(t, Call(prev[t]), l) /\ l \in {"idle", "read", "addLink", "end"}
        /\ prev'[t] = cur[t] /\ cur'[t] = nxt[t]
    BY <1>0, <1>8 DEF Step, Types
  <2>2. /\ todo'[t] = Call(prev[t]) /\ Place(t)' = l /\ QHeld'[t] = Null
        /\ pc'[t] \in {"idle", "read", "addLink", "end", "release"}
        /\ (pc'[t] = "release" <=> todo'[t] # <<>>)
        /\ NxtHeld'[t] = IF l = "end" THEN nxt'[t] ELSE Null
    BY <1>0, <2>1, ReleaseThenFacts
  <2>3. NxtHeld'[t] = Null
    BY <1>1, <2>2
  <2>4. Control(t)'
    BY <1>1, <1>2, <1>3, <2>1, <2>2 DEF Control, Reading, Pointers
  <2>5. Searched(t)'
    BY <1>1, <1>4, <1>8, <2>1, <2>2, RefCountAssumption DEF Searched, Filled
  <2>6. \A m \in Nodes : m \in Held(t)' => Target(m)
    BY <1>2, <2>1, <2>3, RefCountAssumption DEF Held, Target
  <2>7. ASSUME NEW n \in Nodes
        PROVE  /\ Occ(todo'[t], <<"reclaim", n>>) = 0
               /\ Is(prev'[t], n) + Is(cur'[t], n) + Is(NxtHeld'[t], n) + Occ(todo'[t], <<"release", n>>)
                  = Is(prev[t], n) + Is(cur[t], n) + Is(nxt[t], n)
    <3>1. Is(prev[t], n) \in Nat /\ Is(cur[t], n) \in Nat /\ Is(nxt[t], n) \in Nat /\ Is(Null, n) = 0
      BY IsType, RefCountAssumption DEF Is
    <3>2. Occ(todo'[t], <<"release", n>>) = Is(prev[t], n) /\ Occ(todo'[t], <<"reclaim", n>>) = 0
      BY <2>2, CallFacts
    <3> QED
      BY <2>1, <2>3, <3>1, <3>2
  <2> QED
    BY <1>6, <2>2, <2>4, <2>5, <2>6, <2>7
<1> QED
  BY <1>7, <1>8

\* The unlinked node is left, its successor counted once more.
LEMMA AddLinkInv ==
    ASSUME RefInv, Types', NEW t \in Threads, OthersStay(t), AddLink(t)
    PROVE  RefInv'
<1> DEFINE l == IF nxt[t] = Null THEN "end" ELSE "read"
<1>0. Types /\ Control(t) /\ Searched(t)
  BY DEF RefInv
<1>1. /\ pc[t] = "addLink" /\ cur'[t] = nxt[t] /\ nd'[t] = FALSE
      /\ ReleaseThen(t, Call(cur[t]), l) /\ l \in {"idle", "read", "addLink", "end"}
      /\ UNCHANGED <<to, del, key, fresh, freeList, arg, prev, nxt, dst, q, qd, new>>
  BY <1>0 DEF AddLink, Types
<1>2. Place(t) = "addLink" /\ NxtHeld[t] = Null /\ QHeld[t] = Null /\ todo[t] = <<>> /\ new[t] = Null
  BY <1>0, <1>1 DEF Place, NxtHeld, QHeld, Control, Filled
<1>3. dst[t] = "nxt" /\ cur[t] \in Nodes /\ nxt[t] \in Pointers
  BY <1>0, <1>1, <1>2, PlaceFacts DEF Control, Types, Reading
<1>4. nxt[t] \in Nodes => Target(nxt[t]) /\ nxt[t] \notin fresh
  <2>1. to[cur[t]] = nxt[t]
    BY <1>0, <1>2 DEF Searched
  <2>2. cur[t] \in Cells /\ Linker(cur[t])
    BY <1>3, PlaceFacts DEF Held, Cells
  <2> QED
    BY <1>0, <2>1, <2>2, LinkTargets, TargetFacts
<1>5. \A n \in Nodes : Occ(todo[t], <<"release", n>>) = 0 /\ Occ(todo[t], <<"reclaim", n>>) = 0
  BY <1>2, OccEmpty
<1>6. /\ todo'[t] = Call(cur[t]) /\ Place(t)' = l /\ QHeld'[t] = Null
      /\ pc'[t] \in {"idle", "read", "addLink", "end", "release"}
      /\ (pc'[t] = "release" <=> todo'[t] # <<>>)
      /\ NxtHeld'[t] = IF l = "end" THEN nxt'[t] ELSE Null
  BY <1>0, <1>1, ReleaseThenFacts
<1>7. NxtHeld'[t] = Null
  BY <1>1, <1>6
<1>8. Control(t)'
  BY <1>1, <1>2, <1>3, <1>6 DEF Control, Reading, Pointers
<1>9. Searched(t)'
  BY <1>0, <1>1, <1>2, <1>6, RefCountAssumption DEF Searched, Filled
<1>10. \A m \in Nodes : m \in Held(t)' => Target(m)
  BY <1>1, <1>4, <1>7, RefCountAssumption DEF Held, Target
<1>11. \A n \in Nodes : Occ(todo'[t], <<"release", n>>) = Is(cur[t], n) /\ Occ(todo'[t], <<"reclaim", n>>) = 0
  BY <1>6, CallFacts
<1>12. Calm(t, Root)
  BY <1>1, <1>5, <1>6, <1>11, StillCalm
<1>13. ASSUME NEW n \in Nodes
       PROVE  /\ count'[n] = count[n] + 2 * (Mine(t, n)' - Mine(t, n))
              /\ count'[n] >= 1 \/ n \in fresh
              /\ n \in fresh => count'[n] = count[n]
  <2>1. /\ Is(prev[t], n) \in Nat /\ Is(cur[t], n) \in Nat /\ Is(Null, n) = 0 /\ Is(new[t], n) \in Nat
        /\ Is(nxt[t], n) = (IF n = nxt[t] THEN 1 ELSE 0)
    BY IsType, RefCountAssumption DEF Is
  <2>2. Mine(t, n) = Is(prev[t], n) + Is(cur[t], n) + 0 + 0 + Is(new[t], n) + 0
    BY <1>2, <1>5, <2>1 DEF Mine
  <2>3. Mine(t, n)' = Is(prev[t], n) + Is(nxt[t], n) + 0 + 0 + Is(new[t], n) + Is(cur[t], n)
    BY <1>1, <1>6, <1>7, <1>11, <2>1 DEF Mine
  <2>4. Mine(t, n)' - Mine(t, n) = Is(nxt[t], n)
    BY <2>1, <2>2, <2>3
  <2>5. count'[n] = IF n = nxt[t] THEN count[n] + 2 ELSE count[n]
    BY <1>0, <1>3, RefCountAssumption DEF AddLink, Types, Pointers
  <2> QED
    BY <1>4, <2>1, <2>4, <2>5, CountedFacts
<1>14. to' = to /\ \A n \in fresh : count'[n] = count[n]
  BY <1>0, <1>1, <1>13 DEF Types
<1>15. pc'[t] \notin {"unclaim", "fill"}
  BY <1>6
<1> QED
  BY <1>8, <1>9, <1>10, <1>12, <1>13, <1>14, StillInv

-----------------------------------------------------------------------------
(* Unlinking and linking.                                                  *)

\* The nodes of the list may be followed, and their keys increase.
LEMMA ListFacts ==
    ASSUME RefInv, NEW n \in InList
    PROVE  /\ n \in Nodes /\ Target(n) /\ Linker(n) /\ key[n] \in Nat /\ n \in Reach(to, {Root})
           /\ Reach(to, {n}) \subseteq InList
           /\ to[n] \in Nodes => to[n] \in InList /\ key[n] < key[to[n]]
<1> DEFINE C == {Root} \cup {x \in Nodes : Target(x)}
<1>0. DOMAIN to = Cells /\ Types
  BY DEF RefInv, Types
<1>1. ASSUME NEW x \in C, to[x] \in Cells PROVE to[x] \in C
  <2>1. x \in Cells /\ Linker(x)
    BY TargetFacts DEF Cells, Linker
  <2> QED
    BY <1>0, <1>1, <2>1, LinkTargets, RefCountAssumption DEF Pointers, Cells
<1>2. Reach(to, {Root}) \subseteq C
  <2>1. Root \in C
    OBVIOUS
  <2> HIDE DEF C
  <2> QED
    BY <1>0, <1>1, <2>1, ReachLeast
<1>3. n \in Nodes /\ Target(n) /\ n \in Reach(to, {Root})
  BY <1>2 DEF InList
<1>4. Linker(n)
  BY <1>3, TargetFacts
<1>5. key[n] \in Keys /\ (to[n] \in Nodes => key[n] < key[to[n]])
  BY <1>3, <1>4 DEF RefInv, Order
<1>6. to[n] \in Nodes => to[n] \in InList
  BY <1>3, ListLinkers
<1>7. Reach(to, {n}) \subseteq Nodes
  <2>1. n \in Nodes /\ \A x \in Nodes : to[x] \in Cells => to[x] \in Nodes
    BY <1>0, <1>3, RefCountAssumption DEF Types, Pointers, Cells
  <2> QED
    BY <1>0, <2>1, ReachLeast
<1>8. Reach(to, {n}) \subseteq Reach(to, {Root})
  BY <1>3, ReachIdempotent
<1>9. Reach(to, {n}) \subseteq InList
  BY <1>7, <1>8, RefCountAssumption DEF InList
<1> QED
  BY <1>3, <1>4, <1>5, <1>6, <1>9, RefCountAssumption

\* What a node of the list leads to has greater keys.
LEMMA ListAfter ==
    ASSUME RefInv, NEW n \in InList, NEW x \in Reach(to, {n})
    PROVE  x = n \/ key[n] < key[x]
<1>1. Reach(to, {n}) \subseteq InList /\ DOMAIN to = Cells
  BY ListFacts DEF RefInv, Types
<1>2. \A y \in Reach(to, {n}) : key[y] \in Int /\ (to[y] \in DOMAIN to => key[y] < key[to[y]])
  <2> SUFFICES ASSUME NEW y \in InList PROVE key[y] \in Int /\ (to[y] \in Cells => key[y] < key[to[y]])
    BY <1>1
  <2>1. y \in Nodes /\ key[y] \in Nat /\ (to[y] \in Nodes => key[y] < key[to[y]])
    BY ListFacts
  <2>2. to[y] \in Cells => to[y] \in Nodes
    BY <2>1, RefCountAssumption DEF RefInv, Types, Pointers, Cells
  <2> QED
    BY <2>1, <2>2
<1> QED
  BY <1>2, ReachSorted

\* A node of the list has one predecessor in it.
LEMMA OnePredecessor ==
    ASSUME RefInv, NEW x \in Reach(to, {Root}), NEW y \in Reach(to, {Root}),
           to[x] \in Nodes, to[y] = to[x]
    PROVE  x = y
<1> DEFINE c == to[x]
<1>1. c \in InList /\ x \in Cells /\ y \in Cells /\ DOMAIN to = Cells
  BY ListLinkers DEF RefInv, Types
<1>2. ASSUME NEW z \in Reach(to, {Root}), z \in Reach(to, {c}), to[z] = c PROVE FALSE
  <2>1. z = c \/ key[c] < key[z]
    BY <1>1, <1>2, ListAfter
  <2>2. z \in InList
    BY <1>1, <1>2, ListFacts
  <2>3. key[z] < key[c] /\ key[z] \in Nat /\ key[c] \in Nat
    BY <1>1, <1>2, <2>2, ListFacts
  <2> QED
    BY <2>1, <2>3
<1>3. y \in Reach(to, {x}) \/ x \in Reach(to, {to[y]})
  BY ReachLine
<1>4. y \in Reach(to, {x}) => y = x \/ y \in Reach(to, {c})
  BY <1>1, ReachUnfold
<1> QED
  BY <1>2, <1>3, <1>4

\* prev is in the list, or is its head, unless it is marked.
LEMMA IntactFacts ==
    ASSUME RefInv, NEW t \in Threads, PrevIntact(t)
    PROVE  /\ prev[t] \in Cells /\ Linker(prev[t]) /\ ~ del[prev[t]] /\ to[prev[t]] = cur[t]
           /\ prev[t] \in Reach(to, {Root}) /\ (prev[t] = Root \/ Target(prev[t]))
           /\ prev[t] \in Nodes => key[prev[t]] \in Nat /\ (cur[t] \in Nodes => key[prev[t]] < key[cur[t]])
<1>1. prev[t] \in Cells /\ Linker(prev[t]) /\ ~ del[prev[t]] /\ to[prev[t]] = cur[t]
  BY PlaceFacts DEF PrevIntact
<1>2. prev[t] = Root \/ (prev[t] \in Nodes /\ Target(prev[t]))
  BY <1>1, RefCountAssumption DEF Cells, Held, Target
<1>3. prev[t] \in Nodes => prev[t] \in InList
  BY <1>1, <1>2, RefCountAssumption DEF RefInv, OnList
<1>4. prev[t] \in Reach(to, {Root})
  BY <1>2, <1>3, ListLinkers DEF InList
<1> QED
  BY <1>1, <1>2, <1>3, <1>4, ListFacts

\* The list without the node that is unlinked.
LEMMA UnlinkList ==
    ASSUME RefInv, NEW t \in Threads, PrevIntact(t), cur[t] \in Nodes, to[cur[t]] = nxt[t],
           to' = [to EXCEPT ![prev[t]] = nxt[t]]
    PROVE  InList' = InList \ {cur[t]} /\ cur[t] \in InList /\ prev[t] # cur[t]
<1>1. prev[t] \in Reach(to, {Root}) /\ prev[t] \in Cells /\ to[prev[t]] = cur[t]
  BY IntactFacts
<1>2. cur[t] \in InList /\ cur[t] \in Cells /\ DOMAIN to = Cells
  BY <1>1, ListLinkers DEF RefInv, Types, Cells
<1>3. to[cur[t]] # cur[t]
  <2>1. key[cur[t]] \in Nat /\ (to[cur[t]] \in Nodes => key[cur[t]] < key[to[cur[t]]])
    BY <1>2, ListFacts
  <2>2. ~ (key[cur[t]] < key[cur[t]])
    BY <2>1
  <2> QED
    BY <2>1, <2>2
<1>4. \A x \in Reach(to, {Root}) : to[x] = cur[t] => x = prev[t]
  BY <1>1, OnePredecessor
<1> DEFINE R0 == {Root}
<1>5. cur[t] \notin R0 /\ prev[t] \in Reach(to, R0) /\ \A x \in Reach(to, R0) : to[x] = cur[t] => x = prev[t]
  BY <1>1, <1>4, RefCountAssumption
<1> HIDE DEF R0
<1>6. Reach([to EXCEPT ![prev[t]] = to[cur[t]]], R0) = Reach(to, R0) \ {cur[t]}
  BY <1>1, <1>2, <1>3, <1>5, ReachSkip
<1>7. Reach(to', R0) = Reach(to, R0) \ {cur[t]}
  BY <1>6
<1> QED
  BY <1>1, <1>2, <1>3, <1>7 DEF InList, R0

\* The list with the node that is linked.
LEMMA LinkList ==
    ASSUME RefInv, NEW t \in Threads, PrevIntact(t), pc[t] = "link",
           to' = [to EXCEPT ![prev[t]] = new[t]]
    PROVE  /\ InList' = InList \cup {new[t]} /\ new[t] \notin InList /\ new[t] \in Nodes
           /\ to[new[t]] = cur[t] /\ ~ del[new[t]] /\ key[new[t]] = arg[t] /\ arg[t] \in Keys
           /\ prev[t] \in Nodes => key[prev[t]] < arg[t]
           /\ cur[t] \in Nodes => arg[t] < key[cur[t]]
<1> DEFINE p == prev[t]
           n == new[t]
<1>0. Types /\ Control(t) /\ Searched(t) /\ Private(t)
  BY DEF RefInv
<1>1. p \in Reach(to, {Root}) /\ p \in Cells /\ to[p] = cur[t]
  BY IntactFacts
<1>2. n \in Nodes /\ n \in Cells /\ DOMAIN to = Cells /\ ~ Target(n)
  BY <1>0 DEF Types, Control, Private, Cells
<1>3. Place(t) = "link"
  BY DEF Place
<1>4. /\ to[n] = cur[t] /\ ~ del[n] /\ key[n] = arg[t] /\ arg[t] \in Keys
      /\ (prev[t] \in Nodes => key[prev[t]] < arg[t])
  BY <1>0, <1>3 DEF Searched
<1>5. cur[t] \in Nodes => arg[t] < key[cur[t]]
  <2> SUFFICES ASSUME cur[t] \in Nodes PROVE arg[t] < key[cur[t]]
    OBVIOUS
  <2>1. arg[t] <= key[cur[t]] /\ arg[t] # key[cur[t]]
    BY <1>0, <1>3 DEF Searched, Filled
  <2>2. cur[t] \in InList
    BY <1>1, ListLinkers
  <2>3. key[cur[t]] \in Nat
    BY <2>2, ListFacts
  <2>4. arg[t] \in Nat
    BY <1>4, RefCountAssumption
  <2> QED
    BY <2>1, <2>3, <2>4
<1>6. n \notin InList /\ n \notin Reach(to, {Root})
  BY <1>2, ListFacts, RefCountAssumption DEF InList
<1> HIDE DEF p, n
<1>7. Reach([to EXCEPT ![p] = n], {Root}) = Reach(to, {Root}) \cup {n}
  BY <1>1, <1>2, <1>4, <1>6, ReachSplice
<1>8. to' = [to EXCEPT ![p] = n]
  BY DEF p, n
<1>9. Reach(to', {Root}) = Reach(to, {Root}) \cup {n}
  BY <1>7, <1>8
<1>10. InList' = InList \cup {n}
  BY <1>2, <1>9, RefCountAssumption DEF InList
<1> QED
  BY <1>2, <1>4, <1>5, <1>6, <1>10 DEF n

\* A marked node is unlinked.  prev's reference to it is to be released; that of find to
\* the successor is now prev's.
LEMMA UnlinkInv ==
    ASSUME RefInv, Types', NEW t \in Threads, OthersStay(t), Unlink(t), PrevIntact(t)
    PROVE  RefInv'
<1>0. Types /\ Control(t) /\ Searched(t)
  BY DEF RefInv
<1>1. /\ pc[t] = "judge" /\ nd[t] /\ ReleaseThen(t, Call(cur[t]), "addLink")
      /\ to' = [to EXCEPT ![prev[t]] = nxt[t]]
      /\ UNCHANGED <<prev, cur, nxt, nd, dst, del, count, key, fresh, freeList, arg, q, qd, new>>
  BY DEF Unlink
<1>2. Place(t) = "judge" /\ NxtHeld[t] = nxt[t] /\ QHeld[t] = Null /\ todo[t] = <<>> /\ new[t] = Null
  BY <1>0, <1>1 DEF Place, NxtHeld, QHeld, Control
<1>3. dst[t] = "nxt" /\ cur[t] \in Nodes /\ nxt[t] \in Pointers
  BY <1>0, <1>1, <1>2, PlaceFacts DEF Control, Types, Reading
<1>4. del[cur[t]] /\ to[cur[t]] = nxt[t] /\ arg[t] \in Keys /\ (prev[t] \in Nodes => key[prev[t]] < arg[t])
  BY <1>0, <1>1, <1>2 DEF Searched
<1>5. /\ prev[t] \in Cells /\ Linker(prev[t]) /\ ~ del[prev[t]] /\ to[prev[t]] = cur[t]
      /\ (prev[t] = Root \/ Target(prev[t]))
      /\ prev[t] \in Nodes => key[prev[t]] \in Nat /\ (cur[t] \in Nodes => key[prev[t]] < key[cur[t]])
  BY IntactFacts
<1>6. InList' = InList \ {cur[t]} /\ cur[t] \in InList /\ prev[t] # cur[t]
  BY <1>1, <1>3, <1>4, UnlinkList
<1>7. nxt[t] \in Nodes => Target(nxt[t])
  BY <1>2 DEF Held, Target
<1>8. /\ todo'[t] = Call(cur[t]) /\ Place(t)' = "addLink" /\ QHeld'[t] = Null
      /\ pc'[t] \in {"idle", "read", "addLink", "end", "release"}
      /\ (pc'[t] = "release" <=> todo'[t] # <<>>)
      /\ NxtHeld'[t] = Null
  BY <1>0, <1>1, ReleaseThenFacts
<1>9. \A n \in Nodes : /\ Occ(todo'[t], <<"release", n>>) = Is(cur[t], n)
                       /\ Occ(todo'[t], <<"reclaim", n>>) = 0 /\ Occ(todo[t], <<"reclaim", n>>) = 0
                       /\ Occ(todo[t], <<"release", n>>) = 0
  BY <1>2, <1>8, CallFacts, OccEmpty
<1>10. (\A y \in Cells \ {prev[t]} : to'[y] = to[y]) /\ to'[prev[t]] = nxt[t]
  BY <1>0, <1>1, <1>5 DEF Types
<1>11. Calm(t, prev[t])
  BY <1>1, <1>2, <1>8, <1>9, <1>10 DEF Calm
<1>12. Balanced(t, prev[t])
  <2> SUFFICES ASSUME NEW n \in Nodes
               PROVE  /\ count'[n] = count[n] + 2 * (Mine(t, n)' + Is(to'[prev[t]], n)
                                                     - Mine(t, n) - Is(to[prev[t]], n))
                      /\ count'[n] >= 1 \/ n \in fresh
                      /\ n \in fresh => count'[n] = count[n]
    BY DEF Balanced
  <2>1. /\ Is(prev[t], n) \in Nat /\ Is(cur[t], n) \in Nat /\ Is(nxt[t], n) \in Nat
        /\ Is(Null, n) = 0 /\ Is(new[t], n) \in Nat
    BY IsType, RefCountAssumption DEF Is
  <2>2. Mine(t, n) = Is(prev[t], n) + Is(cur[t], n) + Is(nxt[t], n) + 0 + Is(new[t], n) + 0
    BY <1>2, <1>9, <2>1 DEF Mine
  <2>3. Mine(t, n)' = Is(prev[t], n) + Is(cur[t], n) + 0 + 0 + Is(new[t], n) + Is(cur[t], n)
    BY <1>1, <1>8, <1>9, <2>1 DEF Mine
  <2>4. Is(to'[prev[t]], n) = Is(nxt[t], n) /\ Is(to[prev[t]], n) = Is(cur[t], n)
    BY <1>5, <1>10
  <2>5. Mine(t, n)' + Is(to'[prev[t]], n) - Mine(t, n) - Is(to[prev[t]], n) = 0
    BY <2>1, <2>2, <2>3, <2>4
  <2> QED
    BY <1>1, <2>5, CountedFacts
<1>13. Tame(t, prev[t])
  <2>1. \A n \in Nodes : n \in Held(t)' => Target(n)
    BY <1>1, <1>8, RefCountAssumption DEF Held, Target
  <2>2. ASSUME prev[t] \in Nodes, nxt[t] \in Nodes PROVE key[prev[t]] < key[nxt[t]]
    <3>1. key[cur[t]] \in Nat /\ key[cur[t]] < key[nxt[t]] /\ nxt[t] \in InList
      BY <1>4, <1>6, <2>2, ListFacts
    <3>2. key[nxt[t]] \in Nat
      BY <3>1, ListFacts
    <3> QED
      BY <1>3, <1>5, <2>2, <3>1, <3>2
  <2> QED
    BY <1>5, <1>7, <1>10, <2>1, <2>2 DEF Tame
<1>14. Control(t)'
  BY <1>1, <1>2, <1>3, <1>8 DEF Control, Reading
<1>15. Searched(t)'
  <2>1. to'[cur[t]] = nxt[t]
    BY <1>3, <1>4, <1>6, <1>10 DEF Cells
  <2> QED
    BY <1>1, <1>4, <1>8, <2>1 DEF Searched, Filled
<1>16. OnList'
  <2> SUFFICES ASSUME NEW n \in Nodes, Target(n)' PROVE n \in InList' \/ del'[n]
    BY DEF OnList
  <2>1. Target(n)
    BY <1>1, <1>5, <1>11, <1>13, CalmTargets
  <2>2. n \in InList \/ del[n]
    BY <2>1 DEF RefInv, OnList
  <2> QED
    BY <1>1, <1>4, <1>6, <2>2
<1> QED
  BY <1>5, <1>11, <1>12, <1>13, <1>14, <1>15, <1>16, CalmInv

\* The new node is linked.  The reference to cur that was prev's is to be released too.
LEMMA LinkInv ==
    ASSUME RefInv, Types', NEW t \in Threads, OthersStay(t), Link(t), PrevIntact(t)
    PROVE  RefInv'
<1> DEFINE s == Call(cur[t]) \o FoundNext(t)
<1>0. Types /\ Control(t) /\ Searched(t)
  BY DEF RefInv
<1>1. /\ pc[t] = "link" /\ GiveUpThen(t, s, "idle") /\ "idle" \in {"idle", "read"}
      /\ to' = [to EXCEPT ![prev[t]] = new[t]] /\ new'[t] = Null
      /\ UNCHANGED <<del, count, key, fresh, freeList>>
  BY <1>0 DEF Link, Return, Types
<1>2. Place(t) = "link" /\ NxtHeld[t] = nxt[t] /\ QHeld[t] = Null /\ todo[t] = <<>> /\ new[t] \in Nodes
  BY <1>0, <1>1 DEF Place, NxtHeld, QHeld, Control, Filled
<1>3. /\ prev[t] \in Cells /\ Linker(prev[t]) /\ ~ del[prev[t]] /\ to[prev[t]] = cur[t]
      /\ (prev[t] = Root \/ Target(prev[t]))
  BY IntactFacts
<1>4. /\ InList' = InList \cup {new[t]} /\ key[new[t]] = arg[t]
      /\ prev[t] \in Nodes => key[prev[t]] < arg[t]
  BY <1>1, LinkList
<1>5. /\ todo'[t] = s /\ prev'[t] = Root /\ cur'[t] = Null /\ NxtHeld'[t] = Null
      /\ QHeld'[t] = Null /\ pc'[t] \notin {"unclaim", "fill"}
      /\ Control(t)' /\ Searched(t)' /\ \A n \in Nodes : n \notin Held(t)'
  BY <1>0, <1>1, GiveUpFacts
<1>12. /\ \A n \in Nodes : Occ(s, <<"release", n>>)
               = Is(cur[t], n) + Is(cur[t], n) + Is(nxt[t], n) + Is(prev[t], n)
       /\ \A n \in Nodes : Occ(s, <<"reclaim", n>>) = 0
  BY FourCalls
<1> HIDE DEF s
<1>6. \A n \in Nodes : /\ Occ(s, <<"release", n>>) = Is(cur[t], n) + Is(cur[t], n) + Is(nxt[t], n) + Is(prev[t], n)
                       /\ Occ(s, <<"reclaim", n>>) = 0 /\ Occ(todo[t], <<"reclaim", n>>) = 0
                       /\ Occ(todo[t], <<"release", n>>) = 0
  BY <1>2, <1>12, OccEmpty
<1>7. (\A y \in Cells \ {prev[t]} : to'[y] = to[y]) /\ to'[prev[t]] = new[t]
  BY <1>0, <1>1, <1>3 DEF Types
<1>8. Calm(t, prev[t])
  BY <1>1, <1>5, <1>6, <1>7 DEF Calm
<1>9. Balanced(t, prev[t])
  <2> SUFFICES ASSUME NEW n \in Nodes
               PROVE  /\ count'[n] = count[n] + 2 * (Mine(t, n)' + Is(to'[prev[t]], n)
                                                     - Mine(t, n) - Is(to[prev[t]], n))
                      /\ count'[n] >= 1 \/ n \in fresh
                      /\ n \in fresh => count'[n] = count[n]
    BY DEF Balanced
  <2>1. /\ Is(prev[t], n) \in Nat /\ Is(cur[t], n) \in Nat /\ Is(nxt[t], n) \in Nat
        /\ Is(Null, n) = 0 /\ Is(Root, n) = 0 /\ Is(new[t], n) \in Nat
    BY IsType, RefCountAssumption DEF Is
  <2>2. Mine(t, n) = Is(prev[t], n) + Is(cur[t], n) + Is(nxt[t], n) + 0 + Is(new[t], n) + 0
    BY <1>2, <1>6, <2>1 DEF Mine
  <2>3. Mine(t, n)' = 0 + 0 + 0 + 0 + 0
                      + (Is(cur[t], n) + Is(cur[t], n) + Is(nxt[t], n) + Is(prev[t], n))
    BY <1>1, <1>5, <1>6, <2>1 DEF Mine
  <2>4. Is(to'[prev[t]], n) = Is(new[t], n) /\ Is(to[prev[t]], n) = Is(cur[t], n)
    BY <1>3, <1>7
  <2>5. Mine(t, n)' + Is(to'[prev[t]], n) - Mine(t, n) - Is(to[prev[t]], n) = 0
    BY <2>1, <2>2, <2>3, <2>4
  <2> QED
    BY <1>1, <2>5, CountedFacts
<1>10. Tame(t, prev[t])
  BY <1>1, <1>3, <1>4, <1>5, <1>7 DEF Tame
<1>11. OnList'
  <2> SUFFICES ASSUME NEW n \in Nodes, Target(n)' PROVE n \in InList' \/ del'[n]
    BY DEF OnList
  <2>1. Target(n) \/ n = new[t]
    BY <1>3, <1>8, <1>10, CalmTargets
  <2>2. Target(n) => n \in InList \/ del[n]
    BY DEF RefInv, OnList
  <2> QED
    BY <1>1, <1>4, <2>1, <2>2
<1> QED
  BY <1>3, <1>5, <1>8, <1>9, <1>10, <1>11, CalmInv

-----------------------------------------------------------------------------
(* Steps that claim a node, hand one out or fill it in.                    *)

\* A new node has the reference of its thread.
LEMMA NewFacts ==
    ASSUME RefInv, NEW t \in Threads, new[t] \in Nodes
    PROVE  /\ new[t] \notin fresh /\ Refs(new[t]) \in Nat /\ Refs(new[t]) >= 1
           /\ Mine(t, new[t]) \in Nat /\ Mine(t, new[t]) >= 1 + Occ(todo[t], <<"release", new[t]>>)
           /\ count[new[t]] = 2 * Refs(new[t]) + Claims(new[t])
<1> DEFINE n == new[t]
           o == Occ(todo[t], <<"release", n>>)
<1>0. Types /\ n \in Nodes
  BY DEF RefInv
<1>1. Refs(n) \in Nat /\ Mine(t, n) \in Nat /\ Refs(n) >= Mine(t, n)
  BY <1>0, RefsBounds
<1>2. Is(new[t], n) = 1 /\ o \in Nat
  BY <1>0, Domains, OccType DEF Is, CallSeq
<1>3. /\ Is(prev[t], n) \in Nat /\ Is(cur[t], n) \in Nat /\ Is(NxtHeld[t], n) \in Nat
      /\ Is(QHeld[t], n) \in Nat
  BY IsType
<1>4. Mine(t, n) = Is(prev[t], n) + Is(cur[t], n) + Is(NxtHeld[t], n) + Is(QHeld[t], n)
                   + Is(new[t], n) + o
  BY DEF Mine
<1> HIDE DEF n, o
<1>5. Mine(t, n) >= 1 + o
  BY <1>2, <1>3, <1>4
<1>6. Refs(n) >= 1
  BY <1>1, <1>2, <1>5
<1>7. n \notin fresh /\ count[n] = 2 * Refs(n) + Claims(n)
  BY <1>0, <1>6 DEF RefInv, Counted
<1> QED
  BY <1>1, <1>5, <1>6, <1>7 DEF n, o

\* The variables of the other threads that depend on nodes.
LEMMA OthersSearched ==
    ASSUME RefInv, Types', NEW t \in Threads, OthersStay(t), fresh' \subseteq fresh,
           \A y \in Nodes : Linker(y) => to'[y] = to[y] /\ del'[y] = del[y] /\ key'[y] = key[y],
           NEW u \in Threads, u # t
    PROVE  Control(u)' /\ Searched(u)' /\ Held(u)' = Held(u)
<1>0. Types /\ Control(u) /\ Searched(u) /\ Private(u)
  BY DEF RefInv
<1>1. /\ prev'[u] = prev[u] /\ cur'[u] = cur[u] /\ nxt'[u] = nxt[u] /\ nd'[u] = nd[u]
      /\ dst'[u] = dst[u] /\ q'[u] = q[u] /\ new'[u] = new[u]
      /\ todo'[u] = todo[u] /\ then'[u] = then[u] /\ pc'[u] = pc[u] /\ arg'[u] = arg[u]
  BY DEF OthersStay
<1>2. Place(u)' = Place(u) /\ NxtHeld'[u] = NxtHeld[u]
  BY <1>1 DEF Place, NxtHeld
<1>3. Held(u)' = Held(u)
  BY <1>1, <1>2 DEF Held
<1>4. Control(u)'
  BY <1>0, <1>1, <1>2 DEF Control
<1>5. \A n \in Nodes : n \in Held(u) => to'[n] = to[n] /\ del'[n] = del[n] /\ key'[n] = key[n]
  BY TargetFacts DEF Target
<1>6. prev[u] \in Held(u) /\ cur[u] \in Held(u)
  BY DEF Held
<1>7. ASSUME pc[u] = "link"
      PROVE  LET n == new[u] IN to'[n] = to[n] /\ del'[n] = del[n] /\ key'[n] = key[n]
  <2>1. new[u] \in Nodes /\ Claims(new[u]) = 0 /\ ~ Filling(new[u])
    BY <1>0, <1>7 DEF Control, Private, Is, Filling
  <2>2. new[u] \notin fresh
    BY <1>0, <2>1, NewFacts
  <2> QED
    BY <2>1, <2>2 DEF Linker
<1>8. Place(u) = "addLink" \/ (Place(u) = "judge" /\ nd[u]) => cur[u] \in Nodes
  BY <1>0 DEF Control, Types, Reading
<1>9. Searched(u)'
  BY <1>0, <1>1, <1>2, <1>5, <1>6, <1>7, <1>8 DEF Searched
<1> QED
  BY <1>3, <1>4, <1>9

\* A step that leaves the links that count alone, but for one, keeps the invariant.
LEMMA SettledInv ==
    ASSUME RefInv, Types', NEW t \in Threads, OthersStay(t), fresh' \subseteq fresh,
           \A y \in Cells : Linker(y) => to'[y] = to[y],
           \A y \in Nodes : Linker(y) => del'[y] = del[y] /\ key'[y] = key[y],
           NEW x \in Cells, \A y \in Cells \ {x} : Links'[y] = Links[y],
           Links'[x] \in Nodes => Target(Links'[x]),
           \A n \in Nodes : n \in Held(t)' => Target(n),
           \A n \in Nodes : Target(n) => Claims(n)' = 0,
           \A n \in Nodes : \A u \in Threads \ {t} :
               new[u] = n => new'[t] # n /\ Claims(n)' = Claims(n),
           \A n \in Nodes : new'[t] = n => ~ Target(n) /\ Claims(n)' = Is(pc'[t], "unclaim"),
           \A y \in Nodes : Linker(y)' => \/ Linker(y)
                                          \/ /\ key'[y] \in Keys
                                             /\ to'[y] \in Nodes => key'[y] < key'[to'[y]],
           Counted', NoLoop', Control(t)', Searched(t)'
    PROVE  RefInv' /\ InList' = InList
<1> DEFINE W == {y \in Cells : ~ Linker(y)}
           R0 == {Root}
<1>0. Types /\ DOMAIN to = Cells /\ DOMAIN to' = Cells
  BY DEF RefInv, Types
<1>1. InList' = InList
  <2>1. W \cap Reach(to, R0) = {} /\ \A y \in DOMAIN to \ W : to'[y] = to[y]
    BY <1>0, ListLinkers
  <2> HIDE DEF W, R0
  <2>2. Reach(to', R0) = Reach(to, R0)
    BY <1>0, <2>1, ReachOutside
  <2> QED
    BY <2>2 DEF InList, R0
<1>2. \A u \in Threads \ {t} : Control(u)' /\ Searched(u)' /\ Held(u)' = Held(u)
  BY OthersSearched DEF Cells
<1>3. ASSUME NEW n \in Nodes, Target(n)' PROVE Target(n)
  <2>1. CASE \E y \in Cells : Links'[y] = n
    BY <2>1 DEF Target
  <2>2. CASE \E u \in Threads : n \in Held(u)'
    BY <1>2, <2>2 DEF Target
  <2> QED
    BY <1>3, <2>1, <2>2 DEF Target
<1>4. Live'
  BY <1>3 DEF Live
<1>5. Order'
  <2> SUFFICES ASSUME NEW y \in Nodes, Linker(y)'
               PROVE  key'[y] \in Keys /\ (to'[y] \in Nodes => key'[y] < key'[to'[y]])
    BY DEF Order
  <2>1. CASE Linker(y)
    <3>1. key[y] \in Keys /\ (to[y] \in Nodes => key[y] < key[to[y]])
      BY <2>1 DEF RefInv, Order
    <3>2. to'[y] = to[y] /\ key'[y] = key[y]
      BY <2>1 DEF Cells
    <3>3. to[y] \in Nodes => key'[to[y]] = key[to[y]]
      BY <1>0, <2>1, LinkTargets, TargetFacts DEF Cells
    <3> QED
      BY <3>1, <3>2, <3>3
  <2> QED
    BY <2>1
<1>6. OnList'
  BY <1>1, <1>3, TargetFacts DEF OnList, RefInv
<1>7. ASSUME NEW u \in Threads PROVE Private(u)'
  <2> SUFFICES ASSUME NEW n \in Nodes, n = new'[u]
               PROVE  /\ ~ Target(n)'
                      /\ \A v \in Threads : new'[v] = n => v = u
                      /\ Claims(n)' = Is(pc'[u], "unclaim")
    BY DEF Private
  <2>1. \A v \in Threads \ {t} : new'[v] = new[v] /\ pc'[v] = pc[v]
    BY DEF OthersStay
  <2>2. u # t => /\ ~ Target(n) /\ \A v \in Threads : new[v] = n => v = u
                 /\ Claims(n) = Is(pc[u], "unclaim")
    BY <2>1 DEF RefInv, Private
  <2>3. ~ Target(n) /\ Claims(n)' = Is(pc'[u], "unclaim")
    BY <2>1, <2>2
  <2>4. ~ Target(n)'
    BY <1>3, <2>3
  <2>5. \A v \in Threads : new'[v] = n => v = u
    BY <2>1, <2>2
  <2> QED
    BY <2>3, <2>4, <2>5
<1> QED
  BY <1>1, <1>2, <1>4, <1>5, <1>6, <1>7 DEF RefInv

\* Which links count, when that changes for one cell at most.
LEMMA LinksStep ==
    ASSUME NEW x \in Cells, \A y \in Cells \ {x} : Linker(y)' = Linker(y) /\ to'[y] = to[y]
    PROVE  /\ \A y \in Cells \ {x} : Links'[y] = Links[y]
           /\ Links[x] = IF Linker(x) THEN to[x] ELSE Null
           /\ Links'[x] = IF Linker(x)' THEN to'[x] ELSE Null
<1>1. \A y \in Cells : Links'[y] = IF Linker(y)' THEN to'[y] ELSE Null
  BY DEF Links
<1>2. \A y \in Cells : Links[y] = IF Linker(y) THEN to[y] ELSE Null
  BY DEF Links
<1> QED
  BY <1>1, <1>2

\* The calls after a call that goes on with those of s.
LEMMA ContinueCalls ==
    ASSUME RefInv, NEW t \in Threads, NEW s \in CallSeq, Continue(t, s), pc[t] = "release", then' = then,
           NEW c
    PROVE  /\ Occ(todo[t], c) \in Nat /\ Occ(todo'[t], c) \in Nat /\ Occ(s, c) \in Nat
           /\ Occ(todo'[t], c) = Occ(todo[t], c) - Is(Head(todo[t]), c) + Occ(s, c)
<1>0. Types /\ Control(t)
  BY DEF RefInv
<1>1. todo'[t] = s \o Tail(todo[t])
  BY <1>0, ContinueFacts
<1>2. /\ todo[t] \in CallSeq /\ Tail(todo[t]) \in CallSeq
      /\ Occ(todo[t], c) = Is(Head(todo[t]), c) + Occ(Tail(todo[t]), c)
  BY <1>0, CalledFacts
<1>3. Occ(todo'[t], c) = Occ(s, c) + Occ(Tail(todo[t]), c)
  BY <1>1, <1>2, CallConcat
<1>4. Occ(Tail(todo[t]), c) \in Nat /\ Occ(s, c) \in Nat /\ Is(Head(todo[t]), c) \in Nat
  BY <1>2, OccType, IsType DEF CallSeq
<1> QED
  BY <1>2, <1>3, <1>4

\* The count goes to zero: the thread has the node for itself, and its link is to be let
\* go of.
LEMMA ReleaseLastInv ==
    ASSUME RefInv, Types', NEW t \in Threads, OthersStay(t), Release(t), count[Called(t)] = 2
    PROVE  RefInv' /\ InList' = InList
<1>0. Types /\ Control(t) /\ pc[t] = "release" /\ Calling(t, "release")
  BY DEF RefInv, Release, Calling
<1>m. PICK m \in Nodes : m = Called(t)
  BY <1>0, CalledFacts
<1> DEFINE s == Call(to[m]) \o << <<"reclaim", m>> >>
<1>1. /\ to' = to /\ del' = del /\ key' = key /\ fresh' = fresh /\ freeList' = freeList
      /\ new' = new /\ UNCHANGED <<reg, then, arg, key>>
      /\ count' = [count EXCEPT ![m] = 1] /\ Continue(t, s)
  BY <1>m DEF Release, LetGo, reg
<1>2. m \in Nodes /\ Head(todo[t]) = <<"release", m>>
  BY <1>0, <1>m, CalledFacts DEF Calling
<1>3. /\ m \notin fresh /\ Refs(m) = 1 /\ Claims(m) = 0
      /\ Occ(todo[t], <<"release", m>>) \in Nat /\ Occ(todo[t], <<"release", m>>) >= 1
  <2>1. /\ m \notin fresh /\ Refs(m) \in Nat /\ Refs(m) >= 1 /\ 2 = 2 * Refs(m) + Claims(m)
        /\ Claims(m) \in {0, 1} /\ Occ(todo[t], <<"release", m>>) >= 1
    BY <1>0, <1>m, CalledCounts
  <2>2. Occ(todo[t], <<"release", m>>) \in Nat
    BY <1>0, Domains, OccType DEF CallSeq
  <2> QED
    BY <2>1, <2>2
<1>4. s \in CallSeq /\ \A n \in Nodes : /\ Occ(s, <<"release", n>>) = Is(to[m], n)
                                       /\ Occ(s, <<"reclaim", n>>) = Is(m, n)
  <2>1. << <<"reclaim", m>> >> \in CallSeq
    BY <1>2 DEF CallSeq
  <2>2. /\ Call(to[m]) \in CallSeq
        /\ \A n \in Nodes : /\ Occ(Call(to[m]), <<"release", n>>) = Is(to[m], n)
                            /\ Occ(Call(to[m]), <<"reclaim", n>>) = 0
    BY CallFacts
  <2>3. \A n \in Nodes : /\ Occ(<< <<"reclaim", m>> >>, <<"release", n>>) = 0
                         /\ Occ(<< <<"reclaim", m>> >>, <<"reclaim", n>>) = Is(m, n)
    BY OccOne DEF Is
  <2>4. s \in CallSeq /\ \A c : Occ(s, c) = Occ(Call(to[m]), c) + Occ(<< <<"reclaim", m>> >>, c)
    BY <2>1, <2>2, CallConcat
  <2> HIDE DEF s
  <2>5. \A n \in Nodes : Is(to[m], n) \in Nat /\ Is(m, n) \in Nat
    BY IsType
  <2> QED
    BY <2>2, <2>3, <2>4, <2>5
<1> HIDE DEF s
<1>5. /\ Control(t)' /\ Searched(t)' /\ Held(t)' = Held(t)
      /\ prev'[t] = prev[t] /\ cur'[t] = cur[t] /\ NxtHeld'[t] = NxtHeld[t]
      /\ QHeld'[t] = Null /\ QHeld[t] = Null /\ new'[t] = Null /\ new[t] = Null
      /\ pc'[t] \notin {"unclaim", "fill"}
  BY <1>0, <1>1, ContinueControl
<1>6. then' = then
  BY <1>1
<1>7. ASSUME NEW n \in Nodes
      PROVE  /\ Occ(todo'[t], <<"reclaim", n>>) = Occ(todo[t], <<"reclaim", n>>) + Is(m, n)
             /\ Occ(todo'[t], <<"release", n>>) = Occ(todo[t], <<"release", n>>) - Is(m, n) + Is(to[m], n)
  <2>1. Is(<<"release", m>>, <<"reclaim", n>>) = 0 /\ Is(<<"release", m>>, <<"release", n>>) = Is(m, n)
    BY DEF Is
  <2>2. \A c : /\ Occ(todo[t], c) \in Nat
               /\ Occ(todo'[t], c) = Occ(todo[t], c) - Is(Head(todo[t]), c) + Occ(s, c)
    BY <1>0, <1>1, <1>4, <1>6, ContinueCalls
  <2>3. /\ Occ(todo'[t], <<"reclaim", n>>) = Occ(todo[t], <<"reclaim", n>>) - 0 + Is(m, n)
        /\ Occ(todo'[t], <<"release", n>>) = Occ(todo[t], <<"release", n>>) - Is(m, n) + Is(to[m], n)
        /\ Occ(todo[t], <<"reclaim", n>>) \in Nat
    BY <1>2, <1>4, <2>1, <2>2
  <2>4. Is(m, n) \in Nat
    BY IsType
  <2> QED
    BY <2>3, <2>4
<1>8. ~ Target(m) /\ \A u \in Threads : new[u] # m
  <2>1. ~ Target(m)
    BY <1>0, <1>2, <1>3, TargetRefs
  <2>2. ASSUME NEW u \in Threads, new[u] = m PROVE FALSE
    <3>1. u # t
      BY <1>2, <1>5, <2>2, RefCountAssumption
    <3>2. Mine(u, m) \in Nat /\ Mine(u, m) >= 1 /\ Mine(t, m) \in Nat
      <4>1. Occ(todo[u], <<"release", m>>) \in Nat
        BY <1>0, Domains, OccType DEF CallSeq
      <4> QED
        BY <1>0, <1>2, <2>2, <4>1, NewFacts, RefsBounds
    <3>3. Mine(t, m) >= 1
      <4>1. /\ Is(prev[t], m) \in Nat /\ Is(cur[t], m) \in Nat /\ Is(NxtHeld[t], m) \in Nat
            /\ Is(QHeld[t], m) \in Nat /\ Is(new[t], m) \in Nat
        BY IsType
      <4> QED
        BY <1>3, <4>1 DEF Mine
    <3>4. Refs(m) >= Mine(t, m) + Mine(u, m)
      BY <1>0, <3>1, RefsBounds
    <3> QED
      BY <1>3, <3>2, <3>3, <3>4
  <2> QED
    BY <2>1, <2>2
<1>9. \A u \in Threads : FreeSet(u)' = FreeSet(u)
  BY <1>1 DEF FreeSet
<1>10. ASSUME NEW n \in Nodes PROVE Claims(n)' = Claims(n) + Is(m, n) /\ Claims(n) \in Nat
  <2>1. /\ Claims(n) \in Nat /\ Claims(n)' \in Nat /\ Owned(t, n) \in Nat /\ Owned(t, n)' \in Nat
        /\ Claims(n)' = Claims(n) - Owned(t, n) + Owned(t, n)'
    BY <1>0, <1>9, ClaimsStep
  <2>2. InFree(n)'[t] = InFree(n)[t]
    BY <1>9 DEF InFree
  <2>3. Unclaiming'[t] = Unclaiming[t]
    BY <1>0, <1>5 DEF Unclaiming
  <2>4. Is(InFree(n)[t], n) \in Nat /\ Is(Unclaiming[t], n) \in Nat /\ Is(m, n) \in Nat
        /\ Occ(todo[t], <<"reclaim", n>>) \in Nat
    BY <1>0, IsType, Domains, OccType DEF CallSeq
  <2>5. Owned(t, n)' = (Occ(todo[t], <<"reclaim", n>>) + Is(m, n)) + Is(InFree(n)[t], n) + Is(Unclaiming[t], n)
    BY <1>7, <2>2, <2>3 DEF Owned
  <2>6. Owned(t, n) = Occ(todo[t], <<"reclaim", n>>) + Is(InFree(n)[t], n) + Is(Unclaiming[t], n)
    BY DEF Owned
  <2> QED
    BY <2>1, <2>4, <2>5, <2>6
<1>11. \A n \in Nodes : n # m => Claims(n)' = Claims(n)
  BY <1>10 DEF Is
<1>12. Claims(m)' = 1
  BY <1>2, <1>3, <1>10 DEF Is
<1>13. \A n \in Nodes : Filling(n)' = Filling(n)
  BY <1>0, <1>1, <1>5 DEF Filling, OthersStay
<1>14. Linker(m) /\ ~ Linker(m)' /\ \A y \in Cells \ {m} : Linker(y)' = Linker(y)
  <2>1. Linker(m) /\ ~ Linker(m)'
    BY <1>2, <1>3, <1>8, <1>12, RefCountAssumption DEF Linker, Filling
  <2> QED
    BY <1>1, <1>11, <1>13, <2>1 DEF Linker, Cells
<1>15. m \in Cells
  BY <1>2 DEF Cells
<1>16. (\A y \in Cells \ {m} : Links'[y] = Links[y]) /\ Links[m] = to[m] /\ Links'[m] = Null
  BY <1>1, <1>14, <1>15, LinksStep
<1>17. ASSUME NEW n \in Nodes PROVE Refs(n)' = Refs(n) - Is(m, n) /\ Refs(n) \in Nat
  <2>1. /\ Refs(n) \in Nat /\ Refs(n)' \in Nat /\ Mine(t, n) \in Nat /\ Mine(t, n)' \in Nat
        /\ Refs(n)' = Refs(n) - Mine(t, n) - Is(Links[m], n) + Mine(t, n)' + Is(Links'[m], n)
    BY <1>0, <1>15, <1>16, RefsStep
  <2>2. /\ Is(prev[t], n) \in Nat /\ Is(cur[t], n) \in Nat /\ Is(NxtHeld[t], n) \in Nat
        /\ Is(Null, n) = 0 /\ Is(m, n) \in Nat /\ Is(to[m], n) \in Nat
        /\ Occ(todo[t], <<"release", n>>) \in Nat
    BY <1>0, IsType, Domains, OccType, RefCountAssumption DEF CallSeq, Is
  <2>3. Mine(t, n)' = Is(prev[t], n) + Is(cur[t], n) + Is(NxtHeld[t], n) + 0 + 0
                      + (Occ(todo[t], <<"release", n>>) - Is(m, n) + Is(to[m], n))
    BY <1>5, <1>7, <2>2 DEF Mine
  <2>4. Mine(t, n) = Is(prev[t], n) + Is(cur[t], n) + Is(NxtHeld[t], n) + 0 + 0
                      + Occ(todo[t], <<"release", n>>)
    BY <1>5, <2>2 DEF Mine
  <2>5. Is(Links[m], n) = Is(to[m], n) /\ Is(Links'[m], n) = 0
    BY <1>16, <2>2
  <2> QED
    BY <2>1, <2>2, <2>3, <2>4, <2>5
<1>18. Counted'
  <2> SUFFICES ASSUME NEW n \in Nodes
               PROVE  IF n \in fresh THEN Refs(n)' = 0 /\ Claims(n)' = 0
                      ELSE /\ count'[n] = 2 * Refs(n)' + Claims(n)' /\ Claims(n)' <= 1
                           /\ Refs(n)' + Claims(n)' >= 1
    BY <1>1 DEF Counted
  <2>1. CASE n = m
    <3>1. count'[m] = 1
      BY <1>0, <1>1, <1>2 DEF Types
    <3>2. Refs(m)' = 0
      BY <1>2, <1>3, <1>17 DEF Is
    <3> QED
      BY <1>3, <1>12, <2>1, <3>1, <3>2
  <2>2. CASE n # m
    <3>1. count'[n] = count[n]
      BY <1>0, <1>1, <2>2 DEF Types
    <3>2. Refs(n)' = Refs(n) /\ Claims(n)' = Claims(n)
      BY <1>11, <1>17, <2>2 DEF Is
    <3> QED
      BY <3>1, <3>2 DEF RefInv, Counted
  <2> QED
    BY <2>1, <2>2
<1>19. NoLoop'
  BY <1>1, <1>9 DEF RefInv, NoLoop
<1>20. \A n \in Nodes : Target(n) => Claims(n)' = 0
  BY <1>8, <1>11, TargetFacts
<1>21. \A n \in Nodes : \A u \in Threads \ {t} : new[u] = n => new'[t] # n /\ Claims(n)' = Claims(n)
  BY <1>5, <1>8, <1>11, RefCountAssumption
<1>22. \A n \in Nodes : new'[t] = n => ~ Target(n) /\ Claims(n)' = Is(pc'[t], "unclaim")
  BY <1>5, RefCountAssumption
<1>23. \A n \in Nodes : n \in Held(t)' => Target(n)
  BY <1>5 DEF Target
<1>24. \A y \in Nodes : Linker(y)' => Linker(y)
  BY <1>14 DEF Cells
<1>25. Links'[m] \notin Nodes
  BY <1>16, RefCountAssumption
<1> QED
  BY <1>1, <1>5, <1>15, <1>16, <1>18, <1>19, <1>20, <1>21, <1>22, <1>23, <1>24, <1>25, SettledInv

\* The node goes on the free list of the thread that has claimed it.
LEMMA ReclaimFree ==
    ASSUME RefInv, Types', NEW t \in Threads, Reclaim(t)
    PROVE  LET m == Called(t) IN
           /\ m \in Nodes /\ Claims(m) = 1 /\ ~ Linker(m) /\ ~ Target(m)
           /\ \A u \in Threads : m \notin FreeSet(u)
           /\ FreeSet(t)' = FreeSet(t) \cup {m}
           /\ \A u \in Threads \ {t} : FreeSet(u)' = FreeSet(u)
           /\ NoLoop'
<1>0. Types /\ Control(t) /\ pc[t] = "release" /\ Calling(t, "reclaim")
  BY DEF RefInv, Reclaim, Calling
<1>1. PICK m \in Nodes : m = Called(t)
  BY <1>0, CalledFacts
<1>2. to' = [to EXCEPT ![m] = freeList[t]] /\ freeList' = [freeList EXCEPT ![t] = m]
  BY <1>1 DEF Reclaim
<1>3. Occ(todo[t], <<"reclaim", m>>) \in Nat /\ Occ(todo[t], <<"reclaim", m>>) >= 1
  BY <1>0, <1>1, CalledCounts, Domains, OccType DEF CallSeq
<1>4. Claims(m) = 1 /\ ~ Linker(m) /\ ~ Target(m)
  BY <1>3, ClaimedFacts
<1>5. ASSUME NEW u \in Threads PROVE m \notin FreeSet(u)
  <2> SUFFICES ASSUME m \in FreeSet(u) PROVE FALSE
    OBVIOUS
  <2>1. Is(InFree(m)[u], m) = 1
    BY DEF InFree, Is
  <2>2. /\ Occ(todo[u], <<"reclaim", m>>) \in Nat /\ Is(Unclaiming[u], m) \in Nat
        /\ Is(InFree(m)[t], m) \in Nat /\ Is(Unclaiming[t], m) \in Nat
    BY <1>0, IsType, Domains, OccType DEF CallSeq
  <2>3. Owned(u, m) >= 1 /\ Owned(t, m) >= 1 /\ (u = t => Owned(t, m) >= 2)
    BY <1>3, <2>1, <2>2 DEF Owned
  <2>4. /\ Owned(t, m) \in Nat /\ Owned(u, m) \in Nat /\ Claims(m) >= Owned(t, m)
        /\ u # t => Claims(m) >= Owned(t, m) + Owned(u, m)
    BY <1>0, ClaimsBounds
  <2> QED
    BY <1>4, <2>3, <2>4
<1>6. DOMAIN to = Cells /\ DOMAIN to' = Cells /\ m \in Cells
  BY <1>0 DEF Types, Cells
<1>7. (\A y \in Cells \ {m} : to'[y] = to[y]) /\ to'[m] = freeList[t] /\ freeList'[t] = m
      /\ \A u \in Threads \ {t} : freeList'[u] = freeList[u]
  BY <1>0, <1>2, <1>6 DEF Types
<1>8. \A u \in Threads \ {t} :
          FreeSet(u)' = FreeSet(u) /\ \A n \in FreeSet(u)' : n \notin Reach(to', {to'[n]})
  BY <1>5, <1>7, SameFree
<1>9. /\ Reach(to', {freeList[t]}) = FreeSet(t)
      /\ \A n \in FreeSet(t) : n \notin Reach(to', {to'[n]})
  BY <1>5, <1>7, StillFree
<1>10. FreeSet(t)' = {m} \cup FreeSet(t)
  <2>1. Reach(to', {m}) = {m} \cup Reach(to', {to'[m]})
    BY <1>6, ReachUnfold
  <2> QED
    BY <1>7, <1>9, <2>1 DEF FreeSet
<1>11. NoLoop'
  <2>1. m \notin Reach(to', {to'[m]})
    BY <1>5, <1>7, <1>9
  <2> QED
    BY <1>8, <1>9, <1>10, <2>1 DEF NoLoop
<1> QED
  BY <1>1, <1>4, <1>5, <1>8, <1>10, <1>11

\* reclaim: the claim of the call is that of the free list now.
LEMMA ReclaimInv ==
    ASSUME RefInv, Types', NEW t \in Threads, OthersStay(t), Reclaim(t)
    PROVE  RefInv' /\ InList' = InList
<1>0. Types /\ Control(t) /\ pc[t] = "release" /\ Calling(t, "reclaim")
  BY DEF RefInv, Reclaim, Calling
<1>m. PICK m \in Nodes : m = Called(t)
  BY <1>0, CalledFacts
<1>1. /\ key' = key /\ fresh' = fresh /\ new' = new /\ UNCHANGED <<reg, then, arg, key>>
      /\ to' = [to EXCEPT ![m] = freeList[t]] /\ del' = [del EXCEPT ![m] = FALSE]
      /\ count' = count /\ then' = then /\ Continue(t, <<>>)
  BY <1>m DEF Reclaim, reg
<1>2. Head(todo[t]) = <<"reclaim", m>>
  BY <1>0, <1>m, CalledFacts DEF Calling
<1>3. /\ Claims(m) = 1 /\ ~ Linker(m) /\ ~ Target(m)
      /\ m \notin FreeSet(t) /\ FreeSet(t)' = FreeSet(t) \cup {m}
      /\ \A u \in Threads \ {t} : FreeSet(u)' = FreeSet(u)
      /\ NoLoop'
  BY <1>m, ReclaimFree
<1>4. m \in Cells /\ \A y \in Cells \ {m} : to'[y] = to[y] /\ del'[y] = del[y]
  BY <1>0, <1>1 DEF Types, Cells
<1>5. /\ Control(t)' /\ Searched(t)' /\ Held(t)' = Held(t)
      /\ prev'[t] = prev[t] /\ cur'[t] = cur[t] /\ NxtHeld'[t] = NxtHeld[t]
      /\ QHeld'[t] = Null /\ QHeld[t] = Null /\ new'[t] = Null /\ new[t] = Null
      /\ pc'[t] \notin {"unclaim", "fill"}
  <2>1. cur[t] \in Nodes /\ Target(cur[t]) => to'[cur[t]] = to[cur[t]] /\ del'[cur[t]] = del[cur[t]]
    BY <1>3, <1>4 DEF Cells
  <2> QED
    BY <1>0, <1>1, <2>1, ContinueControl
<1>6. ASSUME NEW n \in Nodes
      PROVE  /\ Occ(todo'[t], <<"reclaim", n>>) = Occ(todo[t], <<"reclaim", n>>) - Is(m, n)
             /\ Occ(todo'[t], <<"release", n>>) = Occ(todo[t], <<"release", n>>)
             /\ Occ(todo[t], <<"reclaim", n>>) \in Nat /\ Occ(todo[t], <<"release", n>>) \in Nat
  <2>1. Is(<<"reclaim", m>>, <<"release", n>>) = 0 /\ Is(<<"reclaim", m>>, <<"reclaim", n>>) = Is(m, n)
    BY DEF Is
  <2>2. <<>> \in CallSeq /\ \A c : Occ(<<>>, c) = 0
    BY OccEmpty DEF CallSeq
  <2>3. \A c : /\ Occ(todo[t], c) \in Nat
               /\ Occ(todo'[t], c) = Occ(todo[t], c) - Is(Head(todo[t]), c) + Occ(<<>>, c)
    BY <1>0, <1>1, <2>2, ContinueCalls
  <2>4. /\ Occ(todo'[t], <<"reclaim", n>>) = Occ(todo[t], <<"reclaim", n>>) - Is(m, n) + 0
        /\ Occ(todo'[t], <<"release", n>>) = Occ(todo[t], <<"release", n>>) - 0 + 0
    BY <1>2, <2>1, <2>2, <2>3
  <2>5. Is(m, n) \in Nat
    BY IsType
  <2> QED
    BY <2>3, <2>4, <2>5
<1>7. ASSUME NEW n \in Nodes PROVE Claims(n)' = Claims(n)
  <2>1. /\ Claims(n) \in Nat /\ Claims(n)' \in Nat /\ Owned(t, n) \in Nat /\ Owned(t, n)' \in Nat
        /\ Claims(n)' = Claims(n) - Owned(t, n) + Owned(t, n)'
    BY <1>0, <1>3, ClaimsStep
  <2>2. Is(InFree(n)'[t], n) = Is(InFree(n)[t], n) + Is(m, n)
    BY <1>3, RefCountAssumption DEF InFree, Is
  <2>3. Unclaiming'[t] = Unclaiming[t]
    BY <1>0, <1>5 DEF Unclaiming
  <2>4. /\ Is(InFree(n)[t], n) \in Nat /\ Is(Unclaiming[t], n) \in Nat /\ Is(m, n) \in Nat
        /\ Occ(todo[t], <<"reclaim", n>>) \in Nat
    BY <1>0, IsType, Domains, OccType DEF CallSeq
  <2>5. Owned(t, n)' = (Occ(todo[t], <<"reclaim", n>>) - Is(m, n)) + (Is(InFree(n)[t], n) + Is(m, n))
                       + Is(Unclaiming[t], n)
    BY <1>6, <2>2, <2>3 DEF Owned
  <2>6. Owned(t, n) = Occ(todo[t], <<"reclaim", n>>) + Is(InFree(n)[t], n) + Is(Unclaiming[t], n)
    BY DEF Owned
  <2> QED
    BY <2>1, <2>4, <2>5, <2>6
<1>8. \A n \in Nodes : Filling(n)' = Filling(n)
  BY <1>0, <1>1, <1>5 DEF Filling, OthersStay
<1>9. \A y \in Cells : Linker(y)' = Linker(y)
  BY <1>1, <1>7, <1>8 DEF Linker, Cells
<1>10. (\A y \in Cells \ {m} : Links'[y] = Links[y]) /\ Links[m] = Null /\ Links'[m] = Null
  BY <1>3, <1>4, <1>9, LinksStep
<1>11. ASSUME NEW n \in Nodes PROVE Refs(n)' = Refs(n)
  <2>1. /\ Refs(n) \in Nat /\ Refs(n)' \in Nat /\ Mine(t, n) \in Nat /\ Mine(t, n)' \in Nat
        /\ Refs(n)' = Refs(n) - Mine(t, n) - Is(Links[m], n) + Mine(t, n)' + Is(Links'[m], n)
    BY <1>0, <1>4, <1>10, RefsStep
  <2>2. Mine(t, n)' = Mine(t, n)
    BY <1>5, <1>6 DEF Mine
  <2>3. Is(Links[m], n) \in Nat /\ Is(Links'[m], n) = Is(Links[m], n)
    BY <1>10, IsType
  <2> QED
    BY <2>1, <2>2, <2>3
<1>12. Counted'
  BY <1>1, <1>7, <1>11 DEF RefInv, Counted
<1>13. \A n \in Nodes : Target(n) => Claims(n)' = 0
  BY <1>7, TargetFacts
<1>14. \A n \in Nodes : \A u \in Threads \ {t} : new[u] = n => new'[t] # n /\ Claims(n)' = Claims(n)
  BY <1>5, <1>7, RefCountAssumption
<1>15. \A n \in Nodes : new'[t] = n => ~ Target(n) /\ Claims(n)' = Is(pc'[t], "unclaim")
  BY <1>5, RefCountAssumption
<1>16. \A n \in Nodes : n \in Held(t)' => Target(n)
  BY <1>5 DEF Target
<1>17. Links'[m] \notin Nodes
  BY <1>10, RefCountAssumption
<1>18. \A y \in Cells : Linker(y) => to'[y] = to[y] /\ del'[y] = del[y]
  BY <1>3, <1>4
<1>19. \A y \in Nodes : Linker(y) => del'[y] = del[y] /\ key'[y] = key[y]
  BY <1>1, <1>18 DEF Cells
<1>20. \A y \in Nodes : Linker(y)' => Linker(y)
  BY <1>9 DEF Cells
<1> QED
  BY <1>1, <1>3, <1>4, <1>5, <1>10, <1>12, <1>13, <1>14, <1>15, <1>16, <1>17, <1>18, <1>19, <1>20,
     SettledInv

\* newRC takes a node of the thread's own free list: the claim stays until the low bit is
\* cleared.
LEMMA NewRCListInv ==
    ASSUME RefInv, Types', NEW t \in Threads, OthersStay(t), NewRC(t), freeList[t] # Null
    PROVE  RefInv' /\ InList' = InList
<1>0. Types /\ Control(t) /\ Searched(t) /\ pc[t] = "end" /\ ~ Present(t)
  BY DEF RefInv, NewRC
<1>m. PICK m \in Nodes : m = freeList[t]
  BY <1>0, RefCountAssumption DEF Types, Pointers
<1>1. /\ to' = to /\ del' = del /\ key' = key /\ fresh' = fresh /\ arg' = arg
      /\ new' = [new EXCEPT ![t] = m] /\ freeList' = [freeList EXCEPT ![t] = to[m]]
      /\ count' = [count EXCEPT ![m] = @ + 2] /\ pc' = [pc EXCEPT ![t] = "unclaim"]
      /\ UNCHANGED <<prev, cur, nxt, nd, dst, q, qd, todo, then>>
  BY <1>m DEF NewRC, Goto
<1>2. /\ new'[t] = m /\ freeList'[t] = to[m] /\ pc'[t] = "unclaim"
      /\ \A u \in Threads \ {t} : freeList'[u] = freeList[u]
      /\ \A n \in Nodes : count'[n] = IF n = m THEN count[m] + 2 ELSE count[n]
  BY <1>0, <1>1 DEF Types
<1>3. Place(t) = "end" /\ Place(t)' = "unclaim" /\ new[t] = Null
  BY <1>0, <1>2 DEF Place, Control
<1>4. m \in FreeSet(t) /\ FreeSet(t)' = FreeSet(t) \ {m}
  <2>1. DOMAIN to = Cells /\ m \in Cells
    BY <1>0 DEF Types, Cells
  <2>2. Reach(to, {m}) = {m} \cup Reach(to, {to[m]})
    BY <2>1, ReachUnfold
  <2>3. FreeSet(t) = Reach(to, {m}) /\ FreeSet(t)' = Reach(to, {to[m]})
    BY <1>m, <1>1, <1>2 DEF FreeSet
  <2>4. m \notin Reach(to, {to[m]})
    BY <2>2, <2>3 DEF RefInv, NoLoop
  <2> QED
    BY <2>2, <2>3, <2>4
<1>5. \A u \in Threads \ {t} : FreeSet(u)' = FreeSet(u)
  BY <1>1, <1>2 DEF FreeSet
<1>6. Claims(m) = 1 /\ m \notin fresh /\ ~ Linker(m) /\ ~ Target(m)
  BY <1>4, ClaimedFacts
<1>7. ASSUME NEW u \in Threads, u # t, new[u] = m PROVE FALSE
  <2>1. pc[u] = "unclaim"
    BY <1>6, <1>7 DEF RefInv, Private, Is
  <2>2. Is(Unclaiming[u], m) = 1 /\ Is(InFree(m)[t], m) = 1
    BY <1>4, <1>7, <2>1 DEF Unclaiming, InFree, Is
  <2>3. /\ Occ(todo[u], <<"reclaim", m>>) \in Nat /\ Occ(todo[t], <<"reclaim", m>>) \in Nat
        /\ Is(InFree(m)[u], m) \in Nat /\ Is(Unclaiming[t], m) \in Nat
    BY <1>0, IsType, Domains, OccType DEF CallSeq
  <2>4. Owned(u, m) >= 1 /\ Owned(t, m) >= 1
    BY <2>2, <2>3 DEF Owned
  <2>5. Owned(t, m) \in Nat /\ Owned(u, m) \in Nat /\ Claims(m) >= Owned(t, m) + Owned(u, m)
    BY <1>0, <1>7, ClaimsBounds
  <2> QED
    BY <1>6, <2>4, <2>5
<1>8. ASSUME NEW n \in Nodes PROVE Claims(n)' = Claims(n)
  <2>1. /\ Claims(n) \in Nat /\ Claims(n)' \in Nat /\ Owned(t, n) \in Nat /\ Owned(t, n)' \in Nat
        /\ Claims(n)' = Claims(n) - Owned(t, n) + Owned(t, n)'
    BY <1>0, <1>5, ClaimsStep
  <2>2. Is(InFree(n)[t], n) = Is(InFree(n)'[t], n) + Is(m, n)
    BY <1>4, RefCountAssumption DEF InFree, Is
  <2>3. Is(Unclaiming[t], n) = 0 /\ Is(Unclaiming'[t], n) = Is(m, n)
    BY <1>0, <1>2, RefCountAssumption DEF Unclaiming, Is
  <2>4. /\ Is(InFree(n)[t], n) \in Nat /\ Is(InFree(n)'[t], n) \in Nat /\ Is(m, n) \in Nat
        /\ Occ(todo[t], <<"reclaim", n>>) \in Nat
    BY <1>0, IsType, Domains, OccType DEF CallSeq
  <2>5. Owned(t, n)' = Occ(todo[t], <<"reclaim", n>>) + Is(InFree(n)'[t], n) + Is(m, n)
    BY <1>1, <2>3 DEF Owned
  <2>6. Owned(t, n) = Occ(todo[t], <<"reclaim", n>>) + (Is(InFree(n)'[t], n) + Is(m, n)) + 0
    BY <2>2, <2>3 DEF Owned
  <2> QED
    BY <2>1, <2>4, <2>5, <2>6
<1>9. \A n \in Nodes : Filling(n)' = Filling(n)
  BY <1>0, <1>2 DEF Filling, OthersStay
<1>10. \A y \in Cells : Linker(y)' = Linker(y)
  BY <1>1, <1>8, <1>9 DEF Linker, Cells
<1>11. m \in Cells /\ (\A y \in Cells \ {m} : Links'[y] = Links[y]) /\ Links[m] = Null /\ Links'[m] = Null
  <2>1. m \in Cells
    BY DEF Cells
  <2> QED
    BY <1>1, <1>6, <1>10, <2>1, LinksStep
<1>12. /\ prev'[t] = prev[t] /\ cur'[t] = cur[t] /\ NxtHeld'[t] = NxtHeld[t]
       /\ QHeld'[t] = Null /\ QHeld[t] = Null /\ todo'[t] = todo[t]
  BY <1>0, <1>1, <1>2, <1>3 DEF NxtHeld, QHeld, Filled
<1>13. ASSUME NEW n \in Nodes PROVE Refs(n)' = Refs(n) + Is(m, n) /\ Refs(n) \in Nat
  <2>1. /\ Refs(n) \in Nat /\ Refs(n)' \in Nat /\ Mine(t, n) \in Nat /\ Mine(t, n)' \in Nat
        /\ Refs(n)' = Refs(n) - Mine(t, n) - Is(Links[m], n) + Mine(t, n)' + Is(Links'[m], n)
    BY <1>0, <1>11, RefsStep
  <2>2. /\ Is(prev[t], n) \in Nat /\ Is(cur[t], n) \in Nat /\ Is(NxtHeld[t], n) \in Nat
        /\ Is(Null, n) = 0 /\ Is(m, n) \in Nat /\ Occ(todo[t], <<"release", n>>) \in Nat
    BY <1>0, IsType, Domains, OccType, RefCountAssumption DEF CallSeq, Is
  <2>3. Mine(t, n)' = Is(prev[t], n) + Is(cur[t], n) + Is(NxtHeld[t], n) + 0 + Is(m, n)
                      + Occ(todo[t], <<"release", n>>)
    BY <1>2, <1>12, <2>2 DEF Mine
  <2>4. Mine(t, n) = Is(prev[t], n) + Is(cur[t], n) + Is(NxtHeld[t], n) + 0 + 0
                      + Occ(todo[t], <<"release", n>>)
    BY <1>3, <1>12, <2>2 DEF Mine
  <2>5. Is(Links[m], n) = 0 /\ Is(Links'[m], n) = 0
    BY <1>11, <2>2
  <2> QED
    BY <2>1, <2>2, <2>3, <2>4, <2>5
<1>14. Counted'
  <2> SUFFICES ASSUME NEW n \in Nodes
               PROVE  IF n \in fresh THEN Refs(n)' = 0 /\ Claims(n)' = 0
                      ELSE /\ count'[n] = 2 * Refs(n)' + Claims(n)' /\ Claims(n)' <= 1
                           /\ Refs(n)' + Claims(n)' >= 1
    BY <1>1 DEF Counted
  <2>1. Refs(n) \in Nat /\ Claims(n) \in Nat /\ count[n] \in Nat
    BY <1>0, RefsType, CountedFacts
  <2>2. IF n \in fresh THEN Refs(n) = 0 /\ Claims(n) = 0
        ELSE count[n] = 2 * Refs(n) + Claims(n) /\ Claims(n) <= 1 /\ Refs(n) + Claims(n) >= 1
    BY DEF RefInv, Counted
  <2>3. CASE n = m
    <3>1. Refs(n)' = Refs(n) + 1
      BY <1>13, <2>3 DEF Is
    <3> QED
      BY <1>2, <1>6, <1>8, <2>1, <2>2, <2>3, <3>1
  <2>4. CASE n # m
    <3>1. Refs(n)' = Refs(n)
      BY <1>13, <2>4 DEF Is
    <3> QED
      BY <1>2, <1>8, <2>2, <2>4, <3>1
  <2> QED
    BY <2>3, <2>4
<1>15. NoLoop'
  BY <1>1, <1>4, <1>5 DEF RefInv, NoLoop
<1>16. Control(t)'
  <2>1. dst[t] # "cur"
    BY <1>0, <1>3 DEF Control, Reading
  <2> QED
    BY <1>0, <1>1, <1>2, <1>3, <2>1 DEF Control, Reading
<1>17. Searched(t)'
  BY <1>0, <1>1, <1>2, <1>3, RefCountAssumption DEF Searched, Present, Filled
<1>18. \A n \in Nodes : Target(n) => Claims(n)' = 0
  BY <1>8, TargetFacts
<1>19. \A n \in Nodes : \A u \in Threads \ {t} : new[u] = n => new'[t] # n /\ Claims(n)' = Claims(n)
  BY <1>2, <1>7, <1>8
<1>20. \A n \in Nodes : new'[t] = n => ~ Target(n) /\ Claims(n)' = Is(pc'[t], "unclaim")
  BY <1>2, <1>6, <1>8 DEF Is
<1>21. \A n \in Nodes : n \in Held(t)' => Target(n)
  BY <1>12 DEF Target, Held
<1>22. Links'[m] \notin Nodes
  BY <1>11, RefCountAssumption
<1>23. \A y \in Nodes : Linker(y)' => Linker(y)
  BY <1>10 DEF Cells
<1> QED
  BY <1>1, <1>11, <1>14, <1>15, <1>16, <1>17, <1>18, <1>19, <1>20, <1>21, <1>22, <1>23, SettledInv

\* newRC takes a node from palloc.
LEMMA NewRCFreshInv ==
    ASSUME RefInv, Types', NEW t \in Threads, OthersStay(t), NewRC(t), freeList[t] = Null
    PROVE  RefInv' /\ InList' = InList
<1>0. Types /\ Control(t) /\ Searched(t) /\ pc[t] = "end" /\ ~ Present(t)
  BY DEF RefInv, NewRC
<1>m. PICK m \in fresh : new' = [new EXCEPT ![t] = m] /\ fresh' = fresh \ {m}
                         /\ count' = [count EXCEPT ![m] = 2]
                         /\ pc' = [pc EXCEPT ![t] = "fill"] /\ freeList' = freeList
  BY DEF NewRC, Goto
<1>1. /\ to' = to /\ del' = del /\ key' = key /\ arg' = arg
      /\ UNCHANGED <<prev, cur, nxt, nd, dst, q, qd, todo, then>>
  BY DEF NewRC
<1>2. /\ m \in Nodes /\ new'[t] = m /\ pc'[t] = "fill" /\ fresh' \subseteq fresh
      /\ \A n \in Nodes : count'[n] = IF n = m THEN 2 ELSE count[n]
  BY <1>0, <1>m DEF Types
<1>3. Place(t) = "end" /\ Place(t)' = "fill" /\ new[t] = Null
  BY <1>0, <1>2 DEF Place, Control
<1>4. Refs(m) = 0 /\ Claims(m) = 0 /\ ~ Target(m) /\ \A u \in Threads : new[u] # m
  BY <1>2, TargetFacts, NewFacts DEF RefInv, Counted
<1>5. \A u \in Threads : FreeSet(u)' = FreeSet(u)
  BY <1>1, <1>m DEF FreeSet
<1>6. ASSUME NEW n \in Nodes PROVE Claims(n)' = Claims(n)
  <2>1. /\ Claims(n) \in Nat /\ Claims(n)' \in Nat /\ Owned(t, n) \in Nat /\ Owned(t, n)' \in Nat
        /\ Claims(n)' = Claims(n) - Owned(t, n) + Owned(t, n)'
    BY <1>0, <1>5, ClaimsStep
  <2>2. InFree(n)'[t] = InFree(n)[t] /\ Unclaiming'[t] = Unclaiming[t] /\ todo' = todo
    BY <1>0, <1>1, <1>2, <1>5 DEF InFree, Unclaiming
  <2>3. Owned(t, n)' = Owned(t, n)
    BY <2>2 DEF Owned
  <2> QED
    BY <2>1, <2>3
<1>7. \A n \in Nodes : n # m => Filling(n)' = Filling(n)
  BY <1>0, <1>2 DEF Filling, OthersStay
<1>8. Filling(m)' /\ ~ Linker(m) /\ ~ Linker(m)'
  BY <1>2, RefCountAssumption DEF Filling, Linker
<1>9. \A y \in Cells : Linker(y)' = Linker(y)
  BY <1>m, <1>6, <1>7, <1>8 DEF Linker, Cells
<1>10. m \in Cells /\ (\A y \in Cells \ {m} : Links'[y] = Links[y]) /\ Links[m] = Null /\ Links'[m] = Null
  <2>1. m \in Cells
    BY <1>2 DEF Cells
  <2> QED
    BY <1>1, <1>8, <1>9, <2>1, LinksStep
<1>11. /\ prev'[t] = prev[t] /\ cur'[t] = cur[t] /\ NxtHeld'[t] = NxtHeld[t]
       /\ QHeld'[t] = Null /\ QHeld[t] = Null /\ todo'[t] = todo[t]
  BY <1>0, <1>1, <1>2, <1>3 DEF NxtHeld, QHeld, Filled
<1>12. ASSUME NEW n \in Nodes PROVE Refs(n)' = Refs(n) + Is(m, n) /\ Refs(n) \in Nat
  <2>1. /\ Refs(n) \in Nat /\ Refs(n)' \in Nat /\ Mine(t, n) \in Nat /\ Mine(t, n)' \in Nat
        /\ Refs(n)' = Refs(n) - Mine(t, n) - Is(Links[m], n) + Mine(t, n)' + Is(Links'[m], n)
    BY <1>0, <1>10, RefsStep
  <2>2. /\ Is(prev[t], n) \in Nat /\ Is(cur[t], n) \in Nat /\ Is(NxtHeld[t], n) \in Nat
        /\ Is(Null, n) = 0 /\ Is(m, n) \in Nat /\ Occ(todo[t], <<"release", n>>) \in Nat
    BY <1>0, IsType, Domains, OccType, RefCountAssumption DEF CallSeq, Is
  <2>3. Mine(t, n)' = Is(prev[t], n) + Is(cur[t], n) + Is(NxtHeld[t], n) + 0 + Is(m, n)
                      + Occ(todo[t], <<"release", n>>)
    BY <1>2, <1>11, <2>2 DEF Mine
  <2>4. Mine(t, n) = Is(prev[t], n) + Is(cur[t], n) + Is(NxtHeld[t], n) + 0 + 0
                      + Occ(todo[t], <<"release", n>>)
    BY <1>3, <1>11, <2>2 DEF Mine
  <2>5. Is(Links[m], n) = 0 /\ Is(Links'[m], n) = 0
    BY <1>10, <2>2
  <2> QED
    BY <2>1, <2>2, <2>3, <2>4, <2>5
<1>13. Counted'
  <2> SUFFICES ASSUME NEW n \in Nodes
               PROVE  IF n \in fresh' THEN Refs(n)' = 0 /\ Claims(n)' = 0
                      ELSE /\ count'[n] = 2 * Refs(n)' + Claims(n)' /\ Claims(n)' <= 1
                           /\ Refs(n)' + Claims(n)' >= 1
    BY DEF Counted
  <2>1. CASE n = m
    <3>1. Refs(m)' = 1
      BY <1>2, <1>4, <1>12 DEF Is
    <3> QED
      BY <1>m, <1>2, <1>4, <1>6, <2>1, <3>1
  <2>2. CASE n # m
    <3>1. Refs(n)' = Refs(n) /\ (n \in fresh' <=> n \in fresh)
      BY <1>m, <1>12, <2>2 DEF Is
    <3> QED
      BY <1>2, <1>6, <2>2, <3>1 DEF RefInv, Counted
  <2> QED
    BY <2>1, <2>2
<1>14. NoLoop'
  BY <1>1, <1>5 DEF RefInv, NoLoop
<1>15. Control(t)'
  <2>1. dst[t] # "cur"
    BY <1>0, <1>3 DEF Control, Reading
  <2> QED
    BY <1>0, <1>1, <1>2, <1>3, <2>1 DEF Control, Reading
<1>16. Searched(t)'
  BY <1>0, <1>1, <1>2, <1>3, RefCountAssumption DEF Searched, Present, Filled
<1>17. \A n \in Nodes : Target(n) => Claims(n)' = 0
  BY <1>6, TargetFacts
<1>18. \A n \in Nodes : \A u \in Threads \ {t} : new[u] = n => new'[t] # n /\ Claims(n)' = Claims(n)
  BY <1>2, <1>4, <1>6
<1>19. \A n \in Nodes : new'[t] = n => ~ Target(n) /\ Claims(n)' = Is(pc'[t], "unclaim")
  BY <1>2, <1>4, <1>6 DEF Is
<1>20. \A n \in Nodes : n \in Held(t)' => Target(n)
  BY <1>11 DEF Target, Held
<1>21. Links'[m] \notin Nodes
  BY <1>10, RefCountAssumption
<1>22. \A y \in Nodes : Linker(y)' => Linker(y)
  BY <1>9 DEF Cells
<1> QED
  BY <1>1, <1>2, <1>10, <1>13, <1>14, <1>15, <1>16, <1>17, <1>18, <1>19, <1>20, <1>21, <1>22, SettledInv

\* clearLowestBit ends the claim.
LEMMA UnclaimInv ==
    ASSUME RefInv, Types', NEW t \in Threads, OthersStay(t), Unclaim(t)
    PROVE  RefInv' /\ InList' = InList
<1>0. Types /\ Control(t) /\ Searched(t) /\ Private(t) /\ pc[t] = "unclaim"
  BY DEF RefInv, Unclaim
<1>m. PICK m \in Nodes : m = new[t]
  BY <1>0 DEF Control
<1>1. /\ to' = to /\ del' = del /\ key' = key /\ arg' = arg /\ fresh' = fresh /\ freeList' = freeList
      /\ UNCHANGED <<prev, cur, nxt, nd, dst, q, qd, new, todo, then>>
      /\ count' = [count EXCEPT ![m] = @ - 1] /\ pc' = [pc EXCEPT ![t] = "fill"]
  BY <1>m DEF Unclaim, Goto, reg
<1>2. /\ pc'[t] = "fill" /\ \A n \in Nodes : count'[n] = IF n = m THEN count[m] - 1 ELSE count[n]
  BY <1>0, <1>1 DEF Types
<1>3. Place(t) = "unclaim" /\ Place(t)' = "fill"
  BY <1>0, <1>2 DEF Place
<1>4. /\ Claims(m) = 1 /\ ~ Target(m) /\ m \notin fresh /\ ~ Linker(m)
      /\ \A u \in Threads : new[u] = m => u = t
  <2>1. /\ Claims(m) = 1 /\ ~ Target(m) /\ m \notin fresh
        /\ \A u \in Threads : new[u] = m => u = t
    BY <1>0, <1>m, NewFacts DEF Private, Is
  <2> QED
    BY <2>1, RefCountAssumption DEF Linker
<1>5. \A u \in Threads : FreeSet(u)' = FreeSet(u)
  BY <1>1 DEF FreeSet
<1>6. ASSUME NEW n \in Nodes PROVE Claims(n)' = Claims(n) - Is(m, n) /\ Claims(n) \in Nat
  <2>1. /\ Claims(n) \in Nat /\ Claims(n)' \in Nat /\ Owned(t, n) \in Nat /\ Owned(t, n)' \in Nat
        /\ Claims(n)' = Claims(n) - Owned(t, n) + Owned(t, n)'
    BY <1>0, <1>5, ClaimsStep
  <2>2. /\ InFree(n)'[t] = InFree(n)[t] /\ todo' = todo
        /\ Is(Unclaiming[t], n) = Is(m, n) /\ Is(Unclaiming'[t], n) = 0
    BY <1>0, <1>m, <1>1, <1>2, <1>5, RefCountAssumption DEF InFree, Unclaiming, Is
  <2>3. Is(InFree(n)[t], n) \in Nat /\ Is(m, n) \in Nat /\ Occ(todo[t], <<"reclaim", n>>) \in Nat
    BY <1>0, IsType, Domains, OccType DEF CallSeq
  <2>4. Owned(t, n)' = Occ(todo[t], <<"reclaim", n>>) + Is(InFree(n)[t], n) + 0
    BY <2>2 DEF Owned
  <2>5. Owned(t, n) = Occ(todo[t], <<"reclaim", n>>) + Is(InFree(n)[t], n) + Is(m, n)
    BY <2>2 DEF Owned
  <2> QED
    BY <2>1, <2>3, <2>4, <2>5
<1>7. Claims(m)' = 0 /\ \A n \in Nodes : n # m => Claims(n)' = Claims(n)
  BY <1>4, <1>6 DEF Is
<1>8. Filling(m)' /\ \A n \in Nodes : n # m => Filling(n)' = Filling(n)
  BY <1>0, <1>m, <1>1, <1>2 DEF Filling, OthersStay
<1>9. ~ Linker(m)'
  BY <1>8, RefCountAssumption DEF Linker
<1>10. \A y \in Cells : Linker(y)' = Linker(y)
  BY <1>1, <1>4, <1>7, <1>8, <1>9 DEF Linker, Cells
<1>11. m \in Cells /\ (\A y \in Cells \ {m} : Links'[y] = Links[y]) /\ Links[m] = Null /\ Links'[m] = Null
  <2>1. m \in Cells
    BY DEF Cells
  <2> QED
    BY <1>1, <1>4, <1>9, <1>10, <2>1, LinksStep
<1>12. /\ prev'[t] = prev[t] /\ cur'[t] = cur[t] /\ NxtHeld'[t] = NxtHeld[t] /\ new'[t] = new[t]
       /\ QHeld'[t] = QHeld[t] /\ todo'[t] = todo[t]
  BY <1>0, <1>1, <1>2, <1>3 DEF NxtHeld, QHeld, Filled
<1>13. ASSUME NEW n \in Nodes PROVE Refs(n)' = Refs(n)
  <2>1. /\ Refs(n) \in Nat /\ Refs(n)' \in Nat /\ Mine(t, n) \in Nat /\ Mine(t, n)' \in Nat
        /\ Refs(n)' = Refs(n) - Mine(t, n) - Is(Links[m], n) + Mine(t, n)' + Is(Links'[m], n)
    BY <1>0, <1>11, RefsStep
  <2>2. Mine(t, n)' = Mine(t, n)
    BY <1>12 DEF Mine
  <2>3. Is(Links[m], n) \in Nat /\ Is(Links'[m], n) = Is(Links[m], n)
    BY <1>11, IsType
  <2> QED
    BY <2>1, <2>2, <2>3
<1>14. Counted'
  <2> SUFFICES ASSUME NEW n \in Nodes
               PROVE  IF n \in fresh THEN Refs(n)' = 0 /\ Claims(n)' = 0
                      ELSE /\ count'[n] = 2 * Refs(n)' + Claims(n)' /\ Claims(n)' <= 1
                           /\ Refs(n)' + Claims(n)' >= 1
    BY <1>1 DEF Counted
  <2>1. CASE n = m
    <3>1. Refs(m) \in Nat /\ Refs(m) >= 1 /\ count[m] = 2 * Refs(m) + Claims(m)
      BY <1>m, NewFacts
    <3> QED
      BY <1>2, <1>4, <1>7, <1>13, <2>1, <3>1
  <2>2. CASE n # m
    BY <1>2, <1>7, <1>13, <2>2 DEF RefInv, Counted
  <2> QED
    BY <2>1, <2>2
<1>15. NoLoop'
  BY <1>1, <1>5 DEF RefInv, NoLoop
<1>16. Control(t)'
  <2>1. dst[t] # "cur"
    BY <1>0, <1>3 DEF Control, Reading
  <2> QED
    BY <1>0, <1>m, <1>1, <1>2, <1>3, <2>1 DEF Control, Reading
<1>17. Searched(t)'
  BY <1>0, <1>1, <1>2, <1>3 DEF Searched, Filled
<1>18. \A n \in Nodes : Target(n) => Claims(n)' = 0
  BY <1>4, <1>7, TargetFacts
<1>19. \A n \in Nodes : \A u \in Threads \ {t} : new[u] = n => new'[t] # n /\ Claims(n)' = Claims(n)
  BY <1>m, <1>1, <1>4, <1>7
<1>20. \A n \in Nodes : new'[t] = n => ~ Target(n) /\ Claims(n)' = Is(pc'[t], "unclaim")
  BY <1>m, <1>1, <1>2, <1>4, <1>7 DEF Is
<1>21. \A n \in Nodes : n \in Held(t)' => Target(n)
  BY <1>12 DEF Target, Held
<1>22. Links'[m] \notin Nodes
  BY <1>11, RefCountAssumption
<1>23. \A y \in Nodes : Linker(y)' => Linker(y)
  BY <1>10 DEF Cells
<1> QED
  BY <1>1, <1>11, <1>14, <1>15, <1>16, <1>17, <1>18, <1>19, <1>20, <1>21, <1>22, <1>23, SettledInv

\* The new node is filled in; from here on its link to cur counts.
LEMMA FillInv ==
    ASSUME RefInv, Types', NEW t \in Threads, OthersStay(t), Fill(t)
    PROVE  RefInv' /\ InList' = InList
<1>0. Types /\ Control(t) /\ Searched(t) /\ Private(t) /\ pc[t] = "fill"
  BY DEF RefInv, Fill
<1>m. PICK m \in Nodes : m = new[t]
  BY <1>0 DEF Control
<1>1. /\ arg' = arg /\ fresh' = fresh /\ freeList' = freeList
      /\ UNCHANGED <<prev, cur, nxt, nd, dst, q, qd, new, todo, then>>
      /\ to' = [to EXCEPT ![m] = cur[t]] /\ del' = [del EXCEPT ![m] = FALSE]
      /\ key' = [key EXCEPT ![m] = arg[t]]
      /\ count' = IF cur[t] = Null THEN count ELSE [count EXCEPT ![cur[t]] = @ + 2]
      /\ pc' = [pc EXCEPT ![t] = "link"]
  BY <1>m DEF Fill, Goto, reg
<1>2. /\ pc'[t] = "link" /\ m \in Cells /\ to'[m] = cur[t] /\ ~ del'[m] /\ key'[m] = arg[t]
      /\ \A y \in Cells \ {m} : to'[y] = to[y] /\ del'[y] = del[y]
      /\ \A y \in Nodes \ {m} : key'[y] = key[y]
      /\ cur[t] \in Pointers /\ arg[t] \in Keys
  BY <1>0, <1>1 DEF Types, Cells, Searched, Place
<1>3. Place(t) = "fill" /\ Place(t)' = "link"
  BY <1>0, <1>2 DEF Place
<1>4. /\ Claims(m) = 0 /\ ~ Target(m) /\ m \notin fresh /\ ~ Linker(m)
      /\ \A u \in Threads : new[u] = m => u = t
  <2>1. /\ Claims(m) = 0 /\ ~ Target(m) /\ m \notin fresh
        /\ \A u \in Threads : new[u] = m => u = t
    BY <1>0, <1>m, NewFacts DEF Private, Is
  <2>2. Filling(m)
    BY <1>0, <1>m DEF Filling
  <2> QED
    BY <2>1, <2>2, RefCountAssumption DEF Linker
<1>5. \A u \in Threads : FreeSet(u)' = FreeSet(u) /\ \A n \in FreeSet(u)' : n \notin Reach(to', {to'[n]})
  <2>1. ASSUME NEW u \in Threads PROVE m \notin FreeSet(u)
    <3>1. m \in FreeSet(u) => Claims(m) = 1
      BY ClaimedFacts
    <3> QED
      BY <1>4, <3>1
  <2> QED
    BY <1>1, <1>2, <2>1, SameFree
<1>6. ASSUME NEW n \in Nodes PROVE Claims(n)' = Claims(n)
  <2>1. /\ Claims(n) \in Nat /\ Claims(n)' \in Nat /\ Owned(t, n) \in Nat /\ Owned(t, n)' \in Nat
        /\ Claims(n)' = Claims(n) - Owned(t, n) + Owned(t, n)'
    BY <1>0, <1>5, ClaimsStep
  <2>2. InFree(n)'[t] = InFree(n)[t] /\ Unclaiming'[t] = Unclaiming[t] /\ todo' = todo
    BY <1>0, <1>1, <1>2, <1>5 DEF InFree, Unclaiming
  <2>3. Owned(t, n)' = Owned(t, n)
    BY <2>2 DEF Owned
  <2> QED
    BY <2>1, <2>3
<1>7. ~ Filling(m)' /\ \A n \in Nodes : n # m => Filling(n)' = Filling(n)
  BY <1>0, <1>m, <1>1, <1>2, <1>4 DEF Filling, OthersStay
<1>8. Linker(m)' /\ \A y \in Cells \ {m} : Linker(y)' = Linker(y)
  BY <1>1, <1>4, <1>6, <1>7 DEF Linker, Cells
<1>9. (\A y \in Cells \ {m} : Links'[y] = Links[y]) /\ Links[m] = Null /\ Links'[m] = cur[t]
  BY <1>2, <1>4, <1>8, LinksStep
<1>10. /\ prev'[t] = prev[t] /\ cur'[t] = cur[t] /\ NxtHeld'[t] = NxtHeld[t] /\ new'[t] = new[t]
       /\ QHeld'[t] = QHeld[t] /\ todo'[t] = todo[t]
  BY <1>0, <1>1, <1>2, <1>3 DEF NxtHeld, QHeld, Filled
<1>11. ASSUME NEW n \in Nodes PROVE Refs(n)' = Refs(n) + Is(cur[t], n) /\ Refs(n) \in Nat
  <2>1. /\ Refs(n) \in Nat /\ Refs(n)' \in Nat /\ Mine(t, n) \in Nat /\ Mine(t, n)' \in Nat
        /\ Refs(n)' = Refs(n) - Mine(t, n) - Is(Links[m], n) + Mine(t, n)' + Is(Links'[m], n)
    BY <1>0, <1>2, <1>9, RefsStep
  <2>2. Mine(t, n)' = Mine(t, n)
    BY <1>10 DEF Mine
  <2>3. Is(Links[m], n) = 0 /\ Is(Links'[m], n) = Is(cur[t], n) /\ Is(cur[t], n) \in Nat
    BY <1>9, RefCountAssumption DEF Is
  <2> QED
    BY <2>1, <2>2, <2>3
<1>12. cur[t] \in Nodes => Target(cur[t]) /\ cur[t] \notin fresh /\ key[cur[t]] \in Keys
  BY TargetFacts DEF Target, Held, RefInv, Order
<1>13. Counted'
  <2> SUFFICES ASSUME NEW n \in Nodes
               PROVE  IF n \in fresh THEN Refs(n)' = 0 /\ Claims(n)' = 0
                      ELSE /\ count'[n] = 2 * Refs(n)' + Claims(n)' /\ Claims(n)' <= 1
                           /\ Refs(n)' + Claims(n)' >= 1
    BY <1>1 DEF Counted
  <2>1. Refs(n) \in Nat /\ Claims(n) \in Nat /\ count[n] \in Nat
    BY <1>0, RefsType, CountedFacts
  <2>2. IF n \in fresh THEN Refs(n) = 0 /\ Claims(n) = 0
        ELSE count[n] = 2 * Refs(n) + Claims(n) /\ Claims(n) <= 1 /\ Refs(n) + Claims(n) >= 1
    BY DEF RefInv, Counted
  <2>3. CASE n = cur[t]
    <3>1. Refs(n)' = Refs(n) + 1 /\ count'[n] = count[n] + 2
      BY <1>0, <1>1, <1>11, <2>3, RefCountAssumption DEF Is, Types
    <3> QED
      BY <1>6, <1>12, <2>1, <2>2, <2>3, <3>1
  <2>4. CASE n # cur[t]
    <3>1. Refs(n)' = Refs(n) /\ count'[n] = count[n]
      BY <1>0, <1>1, <1>11, <2>4 DEF Is, Types
    <3> QED
      BY <1>6, <2>2, <3>1
  <2> QED
    BY <2>3, <2>4
<1>14. NoLoop'
  BY <1>5 DEF NoLoop
<1>15. Control(t)'
  <2>1. dst[t] # "cur"
    BY <1>0, <1>3 DEF Control, Reading
  <2> QED
    BY <1>0, <1>m, <1>1, <1>2, <1>3, <2>1 DEF Control, Reading
<1>16. Searched(t)'
  <2>1. prev[t] # m /\ cur[t] # m
    BY <1>4 DEF Target, Held
  <2> QED
    BY <1>0, <1>m, <1>1, <1>2, <1>3, <2>1 DEF Searched, Filled
<1>17. \A n \in Nodes : Target(n) => Claims(n)' = 0
  BY <1>6, TargetFacts
<1>18. \A n \in Nodes : \A u \in Threads \ {t} : new[u] = n => new'[t] # n /\ Claims(n)' = Claims(n)
  BY <1>m, <1>1, <1>4, <1>6
<1>19. \A n \in Nodes : new'[t] = n => ~ Target(n) /\ Claims(n)' = Is(pc'[t], "unclaim")
  BY <1>m, <1>1, <1>2, <1>4, <1>6 DEF Is
<1>20. \A n \in Nodes : n \in Held(t)' => Target(n)
  BY <1>10 DEF Target, Held
<1>21. Links'[m] \in Nodes => Target(Links'[m])
  BY <1>9, <1>12
<1>22. \A y \in Cells : Linker(y) => to'[y] = to[y] /\ del'[y] = del[y]
  BY <1>2, <1>4
<1>23. \A y \in Nodes : Linker(y) => del'[y] = del[y] /\ key'[y] = key[y]
  BY <1>2, <1>4, <1>22 DEF Cells
<1>24. key'[m] \in Keys /\ (to'[m] \in Nodes => key'[m] < key'[to'[m]])
  <2>1. ASSUME cur[t] \in Nodes PROVE arg[t] < key'[cur[t]]
    <3>1. arg[t] <= key[cur[t]] /\ arg[t] # key[cur[t]]
      BY <1>0, <1>3, <2>1 DEF Searched, Filled
    <3>2. key'[cur[t]] = key[cur[t]]
      BY <1>2, <1>4, <1>12, <2>1
    <3>4. \A k \in Keys : k \in Int
      BY RefCountAssumption
    <3>3. key[cur[t]] \in Int /\ arg[t] \in Int
      BY <1>2, <1>12, <2>1, <3>4
    <3> QED
      BY <3>1, <3>2, <3>3
  <2> QED
    BY <1>2, <2>1
<1>25. \A y \in Nodes : Linker(y)' => \/ Linker(y)
                                      \/ /\ key'[y] \in Keys
                                         /\ to'[y] \in Nodes => key'[y] < key'[to'[y]]
  BY <1>8, <1>24 DEF Cells
<1> QED
  BY <1>1, <1>2, <1>9, <1>13, <1>14, <1>15, <1>16, <1>17, <1>18, <1>19, <1>20, <1>21, <1>22, <1>23, <1>25,
     SettledInv

-----------------------------------------------------------------------------
(* The inductive invariant holds.                                          *)

\* The places of the list at the start.
LEMMA AtFacts ==
    /\ \A n \in Range(FirstList) : n \in Nodes /\ At(n) \in 1 .. Len(FirstList) /\ FirstList[At(n)] = n
    /\ \A i \in 1 .. Len(FirstList) : FirstList[i] \in Range(FirstList) /\ At(FirstList[i]) = i
    /\ \A n : n \notin Range(FirstList) => At(n) = 0
    /\ Len(FirstList) \in Nat /\ DOMAIN FirstList = 1 .. Len(FirstList)
    /\ Root \notin Range(FirstList) /\ Null \notin Range(FirstList)
<1>1. /\ Len(FirstList) \in Nat /\ DOMAIN FirstList = 1 .. Len(FirstList)
      /\ \A i \in 1 .. Len(FirstList) : FirstList[i] \in Nodes
  BY RefCountAssumption
<1>2. \A n \in Range(FirstList) : \E i \in DOMAIN FirstList : FirstList[i] = n
  BY DEF Range
<1>3. \A i \in 1 .. Len(FirstList) : FirstList[i] \in Range(FirstList)
  BY <1>1 DEF Range
<1>4. \A n \in Range(FirstList) : n \in Nodes /\ At(n) \in 1 .. Len(FirstList) /\ FirstList[At(n)] = n
  BY <1>1, <1>2 DEF At
<1>5. \A i, j \in DOMAIN FirstList : FirstList[i] = FirstList[j] => i = j
  BY RefCountAssumption DEF IsInjective
<1>6. \A i \in 1 .. Len(FirstList) : At(FirstList[i]) = i
  BY <1>1, <1>3, <1>4, <1>5
<1>7. \A n : n \notin Range(FirstList) => At(n) = 0
  BY DEF At
<1> QED
  BY <1>1, <1>3, <1>4, <1>6, <1>7, RefCountAssumption

\* What follows a node of the list at the start, or the head.
LEMMA AfterFacts ==
    ASSUME NEW n \in Range(FirstList) \cup {Root}
    PROVE  /\ After(At(n)) \in Nodes =>
                  After(At(n)) \in Range(FirstList) /\ At(After(At(n))) = At(n) + 1
           /\ After(At(n)) \notin Nodes => After(At(n)) = Null
           /\ At(n) \in Nat
<1>1. At(n) \in 0 .. Len(FirstList) /\ Len(FirstList) \in Nat
  BY AtFacts
<1>2. CASE At(n) < Len(FirstList)
  <2>1. At(n) + 1 \in 1 .. Len(FirstList) /\ After(At(n)) = FirstList[At(n) + 1]
    BY <1>1, <1>2 DEF After
  <2> QED
    BY <1>1, <2>1, AtFacts
<1>3. CASE ~ (At(n) < Len(FirstList))
  BY <1>1, <1>3, RefCountAssumption DEF After
<1> QED
  BY <1>2, <1>3

\* The types at the start, and the links.
LEMMA InitTypes ==
    ASSUME Init
    PROVE  Types /\ \A x \in Cells : to[x] = IF x \in Range(FirstList) \cup {Root} THEN After(At(x)) ELSE Null
<1>1. \A x \in Cells : to[x] = IF x \in Range(FirstList) \cup {Root} THEN After(At(x)) ELSE Null
  BY RefCountAssumption DEF Init, Cells
<1>2. \A x \in Cells : to[x] \in Pointers
  BY <1>1, AfterFacts DEF Pointers
<1>3. \A n : At(n) \in Keys \cup {0}
  <2>1. \A i \in 1 .. Len(FirstList) : i \in Keys
    BY RefCountAssumption
  <2> QED
    BY <2>1, AtFacts
<1>4. to \in [Cells -> Pointers] /\ key \in [Nodes -> Keys \cup {0}]
  BY <1>2, <1>3 DEF Init
<1>5. /\ del \in [Cells -> BOOLEAN] /\ count \in [Nodes -> Nat] /\ fresh \in SUBSET Nodes
      /\ freeList \in [Threads -> Pointers]
  BY DEF Init, Pointers
<1>6. /\ op \in [Threads -> {"none", "insert", "delete", "search", "unlink"}]
      /\ arg \in [Threads -> Keys \cup {0}]
      /\ prev \in [Threads -> Cells] /\ cur \in [Threads -> Pointers]
      /\ nxt \in [Threads -> Pointers] /\ nd \in [Threads -> BOOLEAN]
      /\ dst \in [Threads -> {"cur", "nxt"}]
      /\ q \in [Threads -> Pointers] /\ qd \in [Threads -> BOOLEAN]
      /\ new \in [Threads -> Pointers]
  BY DEF Init, Pointers, Cells
<1>7. /\ todo \in [Threads -> Seq({"release", "reclaim"} \X Nodes)]
      /\ then \in [Threads -> {"idle", "read", "addLink", "end"}]
      /\ pc \in [Threads -> RefCountPC]
  BY DEF Init, RefCountPC
<1> QED
  BY <1>1, <1>4, <1>5, <1>6, <1>7 DEF Types

\* Every node of the list at the start is reached.
LEMMA InitList ==
    ASSUME Init
    PROVE  Range(FirstList) \subseteq InList
<1>0. Types /\ DOMAIN to = Cells
  BY InitTypes DEF Types
<1> DEFINE T == {i \in 1 .. Len(FirstList) : FirstList[i] \notin Reach(to, {Root})}
<1>1. T = {}
  <2> SUFFICES ASSUME T # {} PROVE FALSE
    OBVIOUS
  <2>0. T \in SUBSET Nat
    OBVIOUS
  <2>1. PICK i \in T : \A j \in T : i <= j
    <3> HIDE DEF T
    <3> QED
      BY <2>0, LeastExists
  <2>2. i \in 1 .. Len(FirstList) /\ Len(FirstList) \in Nat /\ FirstList[i] \notin Reach(to, {Root})
    BY AtFacts
  <2> DEFINE p == IF i = 1 THEN Root ELSE FirstList[i - 1]
  <2>3. p \in Reach(to, {Root}) /\ p \in Range(FirstList) \cup {Root} /\ At(p) = i - 1
    <3>1. CASE i = 1
      BY <1>0, <3>1, ReachClosed, AtFacts DEF Cells
    <3>2. CASE i # 1
      <4>1. i - 1 \in 1 .. Len(FirstList) /\ ~ (i <= i - 1)
        BY <2>2, <3>2
      <4>2. FirstList[i - 1] \in Reach(to, {Root})
        BY <2>1, <2>2, <4>1
      <4> QED
        BY <3>2, <4>1, <4>2, AtFacts
    <3> QED
      BY <3>1, <3>2
  <2> HIDE DEF p
  <2>4. to[p] = FirstList[i]
    <3>1. p \in Cells
      BY <2>3, AtFacts DEF Cells
    <3>2. After(i - 1) = FirstList[i]
      BY <2>2 DEF After
    <3> QED
      BY <2>3, <3>1, <3>2, InitTypes
  <2>5. FirstList[i] \in Cells
    BY <2>2, AtFacts DEF Cells
  <2> QED
    BY <1>0, <2>2, <2>3, <2>4, <2>5, ReachClosed
<1>2. \A n \in Range(FirstList) : n \in Reach(to, {Root})
  BY <1>1, AtFacts
<1> QED
  BY <1>2, AtFacts DEF InList

\* The free lists are empty.
LEMMA InitFree ==
    ASSUME Init
    PROVE  \A t \in Threads : FreeSet(t) = {}
<1> DEFINE N == {Null}
<1>1. N \cap DOMAIN to = {}
  BY InitTypes, RefCountAssumption DEF Types, Cells
<1>2. \A t \in Threads : FreeSet(t) = Reach(to, N)
  BY DEF FreeSet, Init
<1> HIDE DEF N
<1> QED
  BY <1>1, <1>2, ReachNothing

\* Nothing is claimed, and of the references there are those of the links.
LEMMA InitCounts ==
    ASSUME Init, NEW n \in Nodes
    PROVE  /\ Claims(n) = 0 /\ Refs(n) = Times(Links, n)
           /\ \A x \in Cells : Links[x] = to[x]
           /\ \A x \in Nodes : Linker(x) <=> x \in Range(FirstList)
<1>0. Types /\ IsFiniteSet(Threads) /\ IsFiniteSet(Cells) /\ DOMAIN to = Cells
  BY InitTypes, Domains DEF Types
<1>1. \A t \in Threads : /\ prev[t] = Root /\ cur[t] = Null /\ new[t] = Null /\ todo[t] = <<>>
                         /\ freeList[t] = Null /\ pc[t] = "idle" /\ then[t] = "idle"
  BY DEF Init
<1>2. \A t \in Threads : FreeSet(t) = {}
  BY InitFree
<1>3. ASSUME NEW m \in Nodes PROVE Claims(m) = 0
  <2>1. Calls(todo, <<"reclaim", m>>) = 0
    BY <1>0, <1>1, Domains, CallsNone
  <2>2. Times(InFree(m), m) = 0
    <3>1. \A t \in DOMAIN InFree(m) : InFree(m)[t] # m
      BY <1>2, RefCountAssumption DEF InFree
    <3> QED
      BY <1>0, <3>1, Domains, TimesNone
  <2>3. Times(Unclaiming, m) = 0
    <3>1. \A t \in DOMAIN Unclaiming : Unclaiming[t] # m
      BY <1>1, RefCountAssumption DEF Unclaiming
    <3> QED
      BY <1>0, <3>1, Domains, TimesNone
  <2> QED
    BY <2>1, <2>2, <2>3 DEF Claims
<1>4. \A x \in Nodes : Linker(x) <=> x \in Range(FirstList)
  BY <1>1, <1>3, RefCountAssumption DEF Linker, Filling, Init
<1>5. \A x \in Cells : Links[x] = to[x]
  BY <1>4, InitTypes DEF Links, Linker, Cells
<1>6. Times(prev, n) = 0 /\ Times(cur, n) = 0 /\ Times(new, n) = 0
  BY <1>0, <1>1, Domains, TimesNone, RefCountAssumption
<1>7. \A t \in Threads : NxtHeld[t] = Null /\ QHeld[t] = Null
  BY <1>1 DEF NxtHeld, QHeld, Place, Filled
<1>8. Times(NxtHeld, n) = 0 /\ Times(QHeld, n) = 0
  BY <1>0, <1>7, Domains, TimesNone, RefCountAssumption
<1>9. Calls(todo, <<"release", n>>) = 0
  BY <1>0, <1>1, Domains, CallsNone
<1>10. Times(Links, n) \in Nat
  BY <1>0, Domains, TimesType
<1>11. Refs(n) = Times(Links, n)
  BY <1>6, <1>8, <1>9, <1>10 DEF Refs
<1> QED
  BY <1>3, <1>4, <1>5, <1>11

\* The inductive invariant holds at the start.
LEMMA InitInv == Init => RefInv
<1> SUFFICES ASSUME Init PROVE RefInv
  OBVIOUS
<1>0. Types /\ \A x \in Cells : to[x] = IF x \in Range(FirstList) \cup {Root} THEN After(At(x)) ELSE Null
  BY InitTypes
<1>1. /\ fresh = Nodes \ Range(FirstList)
      /\ \A n \in Nodes : count[n] = (IF n \in fresh THEN 0 ELSE 2) /\ key[n] = At(n)
      /\ \A t \in Threads : /\ prev[t] = Root /\ cur[t] = Null /\ nxt[t] = Null /\ new[t] = Null
                            /\ todo[t] = <<>> /\ pc[t] = "idle" /\ dst[t] = "cur"
  BY DEF Init
<1>2. \A t \in Threads : Place(t) = "idle" /\ NxtHeld[t] = Null
  BY <1>1 DEF Place, NxtHeld, Filled
<1>3. \A n \in Nodes : Claims(n) = 0 /\ Refs(n) = Times(Links, n)
  BY InitCounts
<1>4. \A n \in Nodes : /\ \A x \in Cells : Links[x] = to[x]
                       /\ Linker(n) <=> n \in Range(FirstList)
  BY InitCounts
<1>5. \A n \in Nodes : Target(n) => n \in Range(FirstList)
  <2>1. \A n \in Nodes : \A t \in Threads : n \notin Held(t)
    BY <1>1, <1>2, RefCountAssumption DEF Held
  <2>2. \A x \in Cells : to[x] \in Nodes => to[x] \in Range(FirstList)
    BY <1>0, AfterFacts, RefCountAssumption
  <2> QED
    BY <1>4, <2>1, <2>2 DEF Target
<1>6. Counted
  <2> SUFFICES ASSUME NEW n \in Nodes
               PROVE  IF n \in fresh THEN Times(Links, n) = 0 ELSE Times(Links, n) = 1
    BY <1>1, <1>3 DEF Counted
  <2>0. DOMAIN Links = Cells /\ IsFiniteSet(Cells)
    BY <1>0, Domains
  <2>1. CASE n \in fresh
    <3>1. \A x \in DOMAIN Links : Links[x] # n
      BY <1>1, <1>5, <2>0, <2>1 DEF Target
    <3> QED
      BY <2>0, <2>1, <3>1, TimesNone
  <2>2. CASE n \notin fresh
    <3>1. n \in Range(FirstList)
      BY <1>1, <2>2
    <3>2. At(n) \in 1 .. Len(FirstList) /\ FirstList[At(n)] = n /\ Len(FirstList) \in Nat
      BY <3>1, AtFacts
    <3> DEFINE p == IF At(n) = 1 THEN Root ELSE FirstList[At(n) - 1]
    <3>3. p \in Range(FirstList) \cup {Root} /\ At(p) = At(n) - 1
      <4>1. CASE At(n) = 1
        BY <4>1, AtFacts
      <4>2. CASE At(n) # 1
        <5>1. At(n) - 1 \in 1 .. Len(FirstList)
          BY <3>2, <4>2
        <5> QED
          BY <4>2, <5>1, AtFacts
      <4> QED
        BY <4>1, <4>2
    <3> HIDE DEF p
    <3>4. After(At(n) - 1) = n
      BY <3>2 DEF After
    <3>5. p \in Cells /\ Links[p] = n
      <4>1. p \in Cells
        BY <3>3, AtFacts DEF Cells
      <4> QED
        BY <1>0, <1>4, <3>3, <3>4, <4>1
    <3>6. ASSUME NEW x \in Cells, Links[x] = n PROVE x = p
      <4>1. x \in Range(FirstList) \cup {Root} /\ After(At(x)) = n
        BY <1>0, <1>4, <3>6, RefCountAssumption
      <4>2. At(n) = At(x) + 1 /\ At(x) \in Nat
        BY <4>1, AfterFacts
      <4>3. At(x) = At(p)
        BY <3>2, <3>3, <4>2
      <4> QED
        BY <3>3, <4>1, <4>3, AtFacts
    <3>7. Times(Links, n) = 1
      BY <2>0, <3>5, <3>6, TimesOnce
    <3> QED
      BY <2>2, <3>7
  <2> QED
    BY <2>1, <2>2
<1>7. Live
  BY <1>3 DEF Live
<1>8. NoLoop
  BY InitFree DEF NoLoop
<1>9. Order
  <2> SUFFICES ASSUME NEW x \in Nodes, Linker(x)
               PROVE  key[x] \in Keys /\ (to[x] \in Nodes => key[x] < key[to[x]])
    BY DEF Order
  <2>1. x \in Range(FirstList) /\ key[x] = At(x) /\ x \in Cells /\ to[x] = After(At(x))
    BY <1>0, <1>1, <1>4 DEF Cells
  <2>2. \A i \in 1 .. Len(FirstList) : i \in Keys
    BY RefCountAssumption
  <2>3. key[x] \in Keys
    BY <2>1, <2>2, AtFacts
  <2>4. ASSUME to[x] \in Nodes PROVE key[x] < key[to[x]]
    <3>1. At(to[x]) = At(x) + 1 /\ At(x) \in Nat /\ key[to[x]] = At(to[x])
      BY <1>1, <2>1, <2>4, AfterFacts
    <3> QED
      BY <2>1, <3>1
  <2> QED
    BY <2>3, <2>4
<1>10. OnList
  BY <1>5, InitList DEF OnList
<1>11. ASSUME NEW t \in Threads PROVE Control(t) /\ Searched(t) /\ Private(t)
  BY <1>1, <1>2, RefCountAssumption DEF Control, Searched, Private, Filled, Reading
<1> QED
  BY <1>0, <1>6, <1>7, <1>8, <1>9, <1>10, <1>11 DEF RefInv

\* A step that changes nothing.
LEMMA StutterInv ==
    ASSUME RefInv, UNCHANGED vars
    PROVE  RefInv' /\ InList' = InList
<1>0. /\ to' = to /\ del' = del /\ count' = count /\ key' = key /\ fresh' = fresh /\ freeList' = freeList
      /\ op' = op /\ arg' = arg /\ prev' = prev /\ cur' = cur /\ nxt' = nxt /\ nd' = nd /\ dst' = dst
      /\ q' = q /\ qd' = qd /\ new' = new /\ todo' = todo /\ then' = then /\ pc' = pc
  BY DEF vars, heap, reg
<1>1. Types'
  BY <1>0 DEF RefInv, Types
<1>2. /\ \A t \in Threads : FreeSet(t)' = FreeSet(t) /\ Place(t)' = Place(t)
      /\ NxtHeld' = NxtHeld /\ QHeld' = QHeld /\ Unclaiming' = Unclaiming
  BY <1>0 DEF FreeSet, Place, NxtHeld, QHeld, Unclaiming
<1>3. ASSUME NEW n PROVE Claims(n)' = Claims(n)
  <2>1. InFree(n)' = InFree(n)
    BY <1>2 DEF InFree
  <2> QED
    BY <1>0, <1>2, <2>1 DEF Claims
<1>4. \A n \in Nodes : Filling(n)' = Filling(n)
  BY <1>0 DEF Filling
<1>5. \A x \in Cells : Linker(x)' = Linker(x)
  BY <1>0, <1>3, <1>4 DEF Linker, Cells
<1>6. Links' = Links
  BY <1>0, <1>5 DEF Links
<1>7. \A n \in Nodes : Refs(n)' = Refs(n)
  BY <1>0, <1>2, <1>6 DEF Refs
<1>8. \A t \in Threads : Held(t)' = Held(t)
  BY <1>0, <1>2 DEF Held
<1>9. \A n \in Nodes : Target(n)' = Target(n)
  BY <1>6, <1>8 DEF Target
<1>10. InList' = InList
  BY <1>0 DEF InList
<1>11. Counted' /\ Live'
  BY <1>0, <1>3, <1>7, <1>9 DEF RefInv, Counted, Live
<1>12. NoLoop'
  BY <1>0, <1>2 DEF RefInv, NoLoop
<1>13. Order'
  BY <1>0, <1>5 DEF RefInv, Order, Cells
<1>14. OnList'
  BY <1>0, <1>9, <1>10 DEF RefInv, OnList
<1>15. ASSUME NEW t \in Threads PROVE Control(t)' /\ Searched(t)' /\ Private(t)'
  <2>1. Control(t) /\ Searched(t) /\ Private(t)
    BY DEF RefInv
  <2>2. Control(t)'
    BY <1>0, <1>2, <2>1 DEF Control
  <2>3. Searched(t)'
    BY <1>0, <1>2, <2>1 DEF Searched
  <2>4. Private(t)'
    <3> SUFFICES ASSUME NEW n \in Nodes, n = new'[t]
                 PROVE  /\ ~ Target(n)'
                        /\ \A u \in Threads : new'[u] = n => u = t
                        /\ Claims(n)' = Is(pc'[t], "unclaim")
      BY DEF Private
    <3> QED
      BY <1>0, <1>3, <1>9, <2>1 DEF Private
  <2> QED
    BY <2>2, <2>3, <2>4
<1> QED
  BY <1>1, <1>10, <1>11, <1>12, <1>13, <1>14, <1>15 DEF RefInv

\* Every step keeps it.
LEMMA NextInv == RefInv /\ [Next]_vars => RefInv'
<1> SUFFICES ASSUME RefInv, [Next]_vars PROVE RefInv'
  OBVIOUS
<1>1. CASE UNCHANGED vars
  BY <1>1, StutterInv
<1>2. ASSUME NEW t \in Threads, Thread(t) PROVE RefInv'
  <2>0. Types
    BY DEF RefInv
  <2>1. Types' /\ OthersStay(t)
    BY <1>2, <2>0, TypesStep, OthersStep
  <2>2. CASE Release(t)
    BY <2>1, <2>2, ReleaseInv, ReleaseLastInv
  <2>3. CASE Reclaim(t)
    BY <2>1, <2>3, ReclaimInv
  <2>4. CASE SafeReadLoad(t)
    BY <2>1, <2>4, SafeReadLoadInv
  <2>5. CASE SafeReadCount(t)
    BY <2>1, <2>5, SafeReadCountInv
  <2>6. CASE SafeReadConfirm(t)
    BY <2>1, <2>6, SafeReadConfirmInv
  <2>7. CASE Unlink(t)
    BY <2>1, <2>7, UnlinkInv, FailedInv
  <2>8. CASE AddLink(t)
    BY <2>1, <2>8, AddLinkInv
  <2>9. CASE Step(t)
    BY <2>1, <2>9, StepInv, FailedInv
  <2>10. CASE Start(t)
    BY <2>1, <2>10, StartInv
  <2>11. CASE NothingToDo(t)
    BY <2>1, <2>11, NothingToDoInv
  <2>12. CASE NewRC(t)
    BY <2>1, <2>12, NewRCListInv, NewRCFreshInv
  <2>13. CASE Unclaim(t)
    BY <2>1, <2>13, UnclaimInv
  <2>14. CASE Fill(t)
    BY <2>1, <2>14, FillInv
  <2>15. CASE Link(t)
    BY <2>1, <2>15, LinkInv, FailedInv
  <2>16. CASE Mark(t)
    BY <2>1, <2>16, MarkInv
  <2> QED
    BY <1>2, <2>2, <2>3, <2>4, <2>5, <2>6, <2>7, <2>8, <2>9, <2>10, <2>11, <2>12, <2>13, <2>14, <2>15, <2>16
       DEF Thread
<1> QED
  BY <1>1, <1>2 DEF Next

\* The count of a node is twice the number of references to it, and one more while it is
\* reclaimed; a node that can be followed is not; every link that counts leads to a greater
\* key.
THEOREM RefInvariant == Spec => []RefInv
<1>1. Init => RefInv
  BY InitInv
<1>2. RefInv /\ [Next]_vars => RefInv'
  BY NextInv
<1> QED
  BY <1>1, <1>2, PTL DEF Spec

\* Every variable has its type.
THEOREM TypeCorrect == Spec => []TypeOK
<1>1. RefInv => TypeOK
  BY DEF RefInv, Types, TypeOK
<1> QED
  BY <1>1, RefInvariant, PTL

-----------------------------------------------------------------------------
(* What the invariant says of the list.                                    *)

\* The nodes a thread has reclaimed are claimed by it.
LEMMA ReclaimedOwned ==
    ASSUME RefInv, NEW t \in Threads, NEW n \in Reclaimed(t)
    PROVE  n \in Nodes /\ Claims(n) = 1 /\ n \notin fresh /\ Owned(t, n) \in Nat /\ Owned(t, n) >= 1
<1>0. Types
  BY DEF RefInv
<1>1. CASE n \in FreeSet(t)
  <2>1. n \in Nodes /\ Claims(n) = 1 /\ n \notin fresh
    BY <1>1, ClaimedFacts
  <2>2. Is(InFree(n)[t], n) = 1
    BY <1>1 DEF InFree, Is
  <2>3. Is(Unclaiming[t], n) \in Nat /\ Occ(todo[t], <<"reclaim", n>>) \in Nat
    BY <1>0, IsType, Domains, OccType DEF CallSeq
  <2> QED
    BY <2>1, <2>2, <2>3 DEF Owned
<1>2. ASSUME n \in Nodes, NEW i \in DOMAIN todo[t], todo[t][i] = <<"reclaim", n>>
      PROVE  Claims(n) = 1 /\ n \notin fresh /\ Owned(t, n) \in Nat /\ Owned(t, n) >= 1
  <2>1. Occ(todo[t], <<"reclaim", n>>) >= 1
    <3>1. todo[t] \in CallSeq
      BY <1>0, Domains
    <3> QED
      BY <1>2, <3>1, OccSome DEF CallSeq
  <2>2. Claims(n) = 1 /\ n \notin fresh
    BY <1>2, <2>1, ClaimedFacts
  <2>3. /\ Is(Unclaiming[t], n) \in Nat /\ Is(InFree(n)[t], n) \in Nat
        /\ Occ(todo[t], <<"reclaim", n>>) \in Nat
    BY <1>0, IsType, Domains, OccType DEF CallSeq
  <2> QED
    BY <2>1, <2>2, <2>3 DEF Owned
<1> QED
  BY <1>1, <1>2 DEF Reclaimed

\* The low bit of the count lets one thread only reclaim a node.
THEOREM OneReclaims == Spec => []ReclaimedOnce
<1>1. ASSUME RefInv, NEW t \in Threads, NEW u \in Threads, t # u, NEW n \in Reclaimed(t) \cap Reclaimed(u)
      PROVE  FALSE
  <2>1. Types /\ n \in Reclaimed(t) /\ n \in Reclaimed(u)
    BY <1>1 DEF RefInv
  <2>2. /\ Claims(n) = 1 /\ Owned(t, n) \in Nat /\ Owned(t, n) >= 1
        /\ Owned(u, n) \in Nat /\ Owned(u, n) >= 1
    BY <1>1, <2>1, ReclaimedOwned
  <2>3. Claims(n) >= Owned(t, n) + Owned(u, n)
    BY <1>1, <2>1, ClaimsBounds
  <2> QED
    BY <2>2, <2>3
<1>2. RefInv => ReclaimedOnce
  BY <1>1 DEF ReclaimedOnce
<1> QED
  BY <1>2, RefInvariant, PTL

\* What a thread may follow is not reclaimed.
LEMMA HoldsFacts ==
    ASSUME RefInv, NEW n \in InList \cup UNION {Holds(t) : t \in Threads}
    PROVE  /\ n \in Nodes /\ Claims(n) = 0 /\ n \notin fresh
           /\ Refs(n) \in Nat /\ Refs(n) >= 1 /\ count[n] = 2 * Refs(n)
<1>1. CASE n \in InList
  BY <1>1, ListFacts, TargetFacts
<1>2. ASSUME NEW t \in Threads, n \in Holds(t)
      PROVE  n \in Nodes /\ (Target(n) \/ (n = new[t] /\ pc[t] \in {"fill", "link"}))
  <2>1. Types /\ Control(t)
    BY DEF RefInv
  <2>2. n \in Nodes
    BY <1>2 DEF Holds
  <2>3. \/ n \in {prev[t], cur[t]}
        \/ n = nxt[t] /\ pc[t] \in {"judge", "end", "unclaim", "fill", "link"}
        \/ n = new[t] /\ pc[t] \in {"fill", "link"}
    BY <1>2 DEF Holds
  <2>4. pc[t] \in {"judge", "end", "unclaim", "fill", "link"} => NxtHeld[t] = nxt[t]
    BY DEF NxtHeld, Place, Filled
  <2> QED
    BY <2>2, <2>3, <2>4 DEF Target, Held
<1>3. CASE n \notin InList
  <2>1. PICK t \in Threads : n \in Holds(t)
    BY <1>3
  <2>2. n \in Nodes /\ (Target(n) \/ (n = new[t] /\ pc[t] \in {"fill", "link"}))
    BY <1>2, <2>1
  <2>3. CASE n = new[t] /\ pc[t] \in {"fill", "link"}
    <3>1. Claims(n) = 0
      BY <2>2, <2>3 DEF RefInv, Private, Is
    <3>2. n \notin fresh /\ Refs(n) \in Nat /\ Refs(n) >= 1 /\ count[n] = 2 * Refs(n) + Claims(n)
      BY <2>2, <2>3, NewFacts
    <3> QED
      BY <2>2, <3>1, <3>2
  <2> QED
    BY <2>2, <2>3, TargetFacts
<1> QED
  BY <1>1, <1>3

\* A node that a thread may follow, or that is in the list, has a count and is on nobody's
\* free list.
THEOREM FollowedNotReclaimed == Spec => []NotReclaimed
<1>1. ASSUME RefInv, NEW n \in InList \cup UNION {Holds(t) : t \in Threads}
      PROVE  n \notin Freed \cup fresh /\ count[n] >= 2 /\ count[n] % 2 = 0
  <2>1. /\ n \in Nodes /\ Claims(n) = 0 /\ n \notin fresh
        /\ Refs(n) \in Nat /\ Refs(n) >= 1 /\ count[n] = 2 * Refs(n)
    BY <1>1, HoldsFacts
  <2>2. ASSUME NEW t \in Threads PROVE n \notin Reclaimed(t)
    <3>1. n \in Reclaimed(t) => Claims(n) = 1
      BY <1>1, ReclaimedOwned
    <3> QED
      BY <2>1, <3>1
  <2>3. count[n] >= 2 /\ count[n] % 2 = 0
    <3>1. \A k \in Nat : k >= 1 => 2 * k >= 2 /\ (2 * k) % 2 = 0
      OBVIOUS
    <3> QED
      BY <2>1, <3>1
  <2> QED
    BY <2>1, <2>2, <2>3 DEF Freed
<1>2. RefInv => NotReclaimed
  BY <1>1 DEF NotReclaimed
<1> QED
  BY <1>2, RefInvariant, PTL

\* The list stays sorted, without a key twice.
THEOREM ListSorted == Spec => []Sorted
<1>1. ASSUME RefInv, NEW n \in InList, to[n] # Null PROVE key[n] < key[to[n]]
  <2>1. n \in Nodes
    BY <1>1, ListFacts
  <2>2. to[n] \in Nodes
    BY <1>1, <2>1 DEF RefInv, Types, Cells, Pointers
  <2> QED
    BY <1>1, <2>2, ListFacts
<1>2. RefInv => Sorted
  BY <1>1 DEF Sorted
<1> QED
  BY <1>2, RefInvariant, PTL

\* With no operation under way the references are those of the links, the claims those of
\* the free lists.
LEMMA QuietCounts ==
    ASSUME RefInv, Quiet, NEW n \in Nodes
    PROVE  /\ Refs(n) = Times(Links, n)
           /\ Claims(n) = Times(InFree(n), n)
           /\ \A x \in Nodes : Linker(x) <=> x \notin fresh /\ Claims(x) = 0
<1>0. Types /\ IsFiniteSet(Threads) /\ IsFiniteSet(Cells)
  BY Domains DEF RefInv
<1>1. ASSUME NEW t \in Threads
      PROVE  /\ pc[t] = "idle" /\ prev[t] = Root /\ cur[t] = Null /\ NxtHeld[t] = Null /\ QHeld[t] = Null
             /\ new[t] = Null /\ todo[t] = <<>> /\ Unclaiming[t] = Null
  <2>1. pc[t] = "idle" /\ Control(t)
    BY DEF Quiet, RefInv
  <2>2. Place(t) = "idle"
    BY <2>1 DEF Place
  <2> QED
    BY <2>1, <2>2 DEF Control, NxtHeld, QHeld, Unclaiming, Filled
<1>2. Times(prev, n) = 0 /\ Times(cur, n) = 0 /\ Times(new, n) = 0
  BY <1>0, <1>1, Domains, TimesNone, RefCountAssumption
<1>3. Times(NxtHeld, n) = 0 /\ Times(QHeld, n) = 0 /\ Times(Unclaiming, n) = 0
  BY <1>0, <1>1, Domains, TimesNone, RefCountAssumption
<1>4. Calls(todo, <<"release", n>>) = 0 /\ Calls(todo, <<"reclaim", n>>) = 0
  BY <1>0, <1>1, Domains, CallsNone
<1>5. Times(Links, n) \in Nat /\ Times(InFree(n), n) \in Nat
  BY <1>0, Domains, TimesType
<1>6. \A x \in Nodes : Linker(x) <=> x \notin fresh /\ Claims(x) = 0
  BY <1>1, RefCountAssumption DEF Linker, Filling
<1> QED
  BY <1>2, <1>3, <1>4, <1>5, <1>6 DEF Refs, Claims

\* Of the nodes that are not free, one with the least key would have no link to it but one
\* of the list.
LEMMA QuietList ==
    ASSUME RefInv, Quiet, NEW n \in Nodes, n \notin fresh, Claims(n) = 0
    PROVE  n \in InList
<1> DEFINE Lost(m) == m \notin fresh /\ Claims(m) = 0 /\ m \notin InList
           T == {key[m] : m \in {x \in Nodes : Lost(x)}}
<1>0. Types /\ DOMAIN Links = Cells /\ IsFiniteSet(Cells)
  BY Domains DEF RefInv
<1>1. T \in SUBSET Nat
  <2>1. \A k \in Keys \cup {0} : k \in Nat
    BY RefCountAssumption
  <2> QED
    BY <1>0, <2>1 DEF Types
<1>2. ASSUME T # {} PROVE FALSE
  <2>1. PICK k \in T : \A j \in T : k <= j
    <3> HIDE DEF T
    <3> QED
      BY <1>1, <1>2, LeastExists
  <2>2. PICK m \in Nodes : Lost(m) /\ key[m] = k
    BY <2>1
  <2>3. \E x \in Cells : Links[x] = m
    <3> SUFFICES ASSUME \A x \in Cells : Links[x] # m PROVE FALSE
      OBVIOUS
    <3>1. Times(Links, m) = 0
      BY <1>0, TimesNone
    <3>2. Refs(m) = 0
      BY <3>1, QuietCounts
    <3> QED
      BY <2>2, <3>2 DEF RefInv, Counted
  <2>4. PICK x \in Cells : Links[x] = m
    BY <2>3
  <2>5. Linker(x) /\ to[x] = m
    BY <2>4, RefCountAssumption DEF Links
  <2>6. x \notin Reach(to, {Root})
    BY <2>2, <2>5, ListLinkers
  <2>7. x \in Nodes /\ x \notin InList
    BY <2>6, ListLinkers DEF Cells
  <2>8. Lost(x)
    BY <2>5, <2>7, QuietCounts
  <2>9. key[x] < key[m]
    BY <2>5, <2>7 DEF RefInv, Order
  <2>10. key[x] \in T /\ key[m] \in T
    BY <2>2, <2>7, <2>8
  <2>11. key[x] \in Nat /\ key[m] \in Nat /\ key[m] <= key[x]
    BY <1>1, <2>1, <2>2, <2>10
  <2> QED
    BY <2>9, <2>11
<1> QED
  BY <1>2

\* When no operation is under way no reference is lost or left over.
THEOREM NoneLost == Spec => []NothingLeaks
<1>1. ASSUME RefInv, Quiet, NEW n \in Nodes, n \notin fresh
      PROVE  (n \in InList /\ count[n] = 2) \/ (n \in Freed /\ count[n] = 1)
  <2>0. Types /\ DOMAIN Links = Cells /\ IsFiniteSet(Cells) /\ IsFiniteSet(Threads)
        /\ DOMAIN InFree(n) = Threads
    BY <1>1, Domains DEF RefInv
  <2>1. /\ count[n] = 2 * Refs(n) + Claims(n) /\ Claims(n) <= 1 /\ Refs(n) \in Nat /\ Claims(n) \in Nat
    BY <1>1, <2>0, RefsType DEF RefInv, Counted
  <2>2. Refs(n) = Times(Links, n) /\ Claims(n) = Times(InFree(n), n)
    BY <1>1, QuietCounts
  <2>3. CASE Claims(n) = 0
    <3>1. n \in InList
      BY <1>1, <2>3, QuietList
    <3>2. \A x \in Cells : Links[x] = n => x \in Reach(to, {Root}) /\ to[x] = n
      <4> SUFFICES ASSUME NEW x \in Cells, Links[x] = n PROVE x \in Reach(to, {Root}) /\ to[x] = n
        OBVIOUS
      <4>1. Linker(x) /\ to[x] = n
        BY RefCountAssumption DEF Links
      <4>2. x \in Nodes => x \in InList
        BY <1>1, <4>1, QuietCounts, QuietList
      <4> QED
        BY <1>1, <4>1, <4>2, ListLinkers DEF Cells
    <3>3. \E x \in Cells : Links[x] = n
      <4> SUFFICES ASSUME \A x \in Cells : Links[x] # n PROVE FALSE
        OBVIOUS
      <4>1. Refs(n) = 0
        BY <2>0, <2>2, TimesNone
      <4> QED
        BY <1>1, <2>3, <4>1 DEF RefInv, Counted
    <3>4. PICK x \in Cells : Links[x] = n
      BY <3>3
    <3>5. \A y \in Cells : Links[y] = n => y = x
      BY <1>1, <3>2, <3>4, OnePredecessor
    <3>6. Times(Links, n) = 1
      BY <2>0, <3>4, <3>5, TimesOnce
    <3> QED
      BY <2>1, <2>2, <2>3, <3>1, <3>6
  <2>4. CASE Claims(n) = 1
    <3>1. \E t \in Threads : n \in FreeSet(t)
      <4> SUFFICES ASSUME \A t \in Threads : n \notin FreeSet(t) PROVE FALSE
        OBVIOUS
      <4>1. \A t \in DOMAIN InFree(n) : InFree(n)[t] # n
        BY RefCountAssumption DEF InFree
      <4>2. Times(InFree(n), n) = 0
        BY <2>0, <4>1, TimesNone
      <4>3. Claims(n) = 0
        BY <2>2, <4>2
      <4> QED
        BY <2>4, <4>3
    <3>2. Times(Links, n) = 0
      <4>1. \A x \in Cells : Links[x] # n
        BY <1>1, <2>4 DEF RefInv, Live, Target
      <4> QED
        BY <2>0, <4>1, TimesNone
    <3>3. count[n] = 1
      BY <2>1, <2>2, <2>4, <3>2
    <3> QED
      BY <3>1, <3>3 DEF Freed, Reclaimed
  <2> QED
    BY <2>1, <2>3, <2>4
<1>2. RefInv => NothingLeaks
  BY <1>1 DEF NothingLeaks
<1> QED
  BY <1>2, RefInvariant, PTL

-----------------------------------------------------------------------------
(* The set of keys of the list.                                            *)

\* The set is the same when the list is and its nodes are.
LEMMA SameMembers ==
    ASSUME InList' = InList, \A n \in InList : key'[n] = key[n] /\ del'[n] = del[n]
    PROVE  Members' = Members
  BY DEF Members

\* A node whose key is greater than that of a place of the list is behind it.
LEMMA BehindPlace ==
    ASSUME RefInv, NEW x \in Reach(to, {Root}), NEW y \in InList, x \in Nodes => key[x] < key[y]
    PROVE  y \in Reach(to, {to[x]})
<1>1. y \in Reach(to, {Root}) /\ Reach(to, {y}) \subseteq InList /\ key[y] \in Nat
  BY ListFacts
<1>2. x \in Reach(to, {y}) \/ y \in Reach(to, {to[x]})
  BY <1>1, ReachLine
<1>3. ASSUME x \in Reach(to, {y}) PROVE FALSE
  <2>1. x \in Nodes /\ key[x] \in Nat
    BY <1>1, <1>3, ListFacts
  <2>2. x = y \/ key[y] < key[x]
    BY <1>3, ListAfter
  <2> QED
    BY <1>1, <2>1, <2>2
<1> QED
  BY <1>2, <1>3

\* Behind the end of the list there is nothing.
LEMMA PastTheEnd ==
    ASSUME RefInv
    PROVE  Reach(to, {Null}) = {}
<1> DEFINE N == {Null}
<1>1. N \cap DOMAIN to = {}
  BY RefCountAssumption DEF Cells, RefInv, Types
<1> HIDE DEF N
<1>2. Reach(to, N) = {}
  BY <1>1, ReachNothing
<1> QED
  BY <1>2 DEF N

\* A key that belongs between two nodes of the list is not in it;
LEMMA Gap ==
    ASSUME RefInv, NEW x \in Reach(to, {Root}), NEW k \in Int, x \in Nodes => key[x] < k,
           to[x] \in Nodes => k < key[to[x]]
    PROVE  k \notin Members
<1> SUFFICES ASSUME NEW y \in InList, key[y] = k PROVE FALSE
  BY DEF Members
<1>1. y \in Reach(to, {to[x]})
  BY BehindPlace
<1>2. x \in Cells /\ (to[x] \in Nodes => to[x] \in InList) /\ to[x] \in Pointers
  BY ListLinkers DEF RefInv, Types
<1>3. to[x] \in Nodes
  BY <1>1, <1>2, PastTheEnd DEF Pointers
<1>4. y = to[x] \/ key[to[x]] < key[y]
  BY <1>1, <1>2, <1>3, ListAfter
<1>5. key[to[x]] \in Nat
  BY <1>2, <1>3, ListFacts
<1> QED
  BY <1>3, <1>4, <1>5

\* nor is one for which there is only a marked node left.
LEMMA LastMarked ==
    ASSUME RefInv, NEW x \in Reach(to, {Root}), NEW k \in Int, x \in Nodes => key[x] < k,
           to[x] \in Nodes, del[to[x]], to[to[x]] = Null
    PROVE  k \notin Members
<1> SUFFICES ASSUME NEW y \in InList, ~ del[y], key[y] = k PROVE FALSE
  BY DEF Members
<1> DEFINE c == to[x]
<1>1. y \in Reach(to, {c})
  BY BehindPlace
<1>2. c \in DOMAIN to /\ del[c] /\ to[c] = Null
  BY DEF RefInv, Types, Cells
<1> HIDE DEF c
<1>3. Reach(to, {c}) = {c} \cup Reach(to, {to[c]})
  BY <1>2, ReachUnfold
<1> QED
  BY <1>1, <1>2, <1>3, PastTheEnd

\* A CAS of Link or Mark that succeeds.
Takes(t) ==
    \/ Link(t) /\ PrevIntact(t)
    \/ Mark(t) /\ to[cur[t]] = nxt[t] /\ ~ del[cur[t]]

\* Link adds the key that the insert was called with,
LEMMA LinkAdds ==
    ASSUME RefInv, NEW t \in Threads, Link(t), PrevIntact(t)
    PROVE  arg[t] \in Keys \ Members /\ Members' = Members \cup {arg[t]}
<1>1. pc[t] = "link" /\ key' = key /\ del' = del /\ to' = [to EXCEPT ![prev[t]] = new[t]]
  BY DEF Link
<1>2. /\ InList' = InList \cup {new[t]} /\ new[t] \notin InList /\ new[t] \in Nodes
      /\ ~ del[new[t]] /\ key[new[t]] = arg[t] /\ arg[t] \in Keys
      /\ (prev[t] \in Nodes => key[prev[t]] < arg[t])
      /\ (cur[t] \in Nodes => arg[t] < key[cur[t]])
  BY <1>1, LinkList
<1>3. to[prev[t]] = cur[t] /\ prev[t] \in Reach(to, {Root})
  BY IntactFacts
<1>4. arg[t] \in Int
  <2>1. \A k \in Keys : k \in Int
    BY RefCountAssumption
  <2> QED
    BY <1>2, <2>1
<1>5. arg[t] \notin Members
  BY <1>2, <1>3, <1>4, Gap
<1>6. Members' = {key[n] : n \in {m \in InList \cup {new[t]} : ~ del[m]}}
  BY <1>1, <1>2 DEF Members
<1> QED
  BY <1>2, <1>5, <1>6 DEF Members

\* and Mark takes away the key that the delete was called with: there is one
\* node with it.
LEMMA MarkTakes ==
    ASSUME RefInv, NEW t \in Threads, Mark(t), to[cur[t]] = nxt[t], ~ del[cur[t]]
    PROVE  arg[t] \in Keys /\ arg[t] \in Members /\ Members' = Members \ {arg[t]}
<1> DEFINE c == cur[t]
<1>0. Types /\ Searched(t)
  BY DEF RefInv
<1>1. /\ pc[t] = "end" /\ key' = key /\ InList' = InList /\ Present(t)
      /\ del' = [del EXCEPT ![c] = TRUE]
  BY DEF Mark, InList
<1>2. c \in Nodes /\ key[c] = arg[t]
  BY <1>0, <1>1, RefCountAssumption DEF Present, Types, Pointers
<1>3. Target(c)
  BY <1>2 DEF Target, Held
<1>4. c \in InList
  BY <1>2, <1>3 DEF RefInv, OnList
<1>5. DOMAIN to = Cells /\ c \in Cells /\ DOMAIN del = Cells
  BY <1>0, <1>2 DEF Types, Cells
<1>6. Reach(to, {c}) = {c} \cup Reach(to, {to[c]})
  BY <1>5, ReachUnfold
<1>7. ASSUME NEW x \in InList, key[x] = key[c] PROVE x = c
  <2>1. /\ x \in Reach(to, {Root}) /\ key[x] \in Nat
        /\ c \in Reach(to, {Root}) /\ key[c] \in Nat
    BY <1>4, ListFacts
  <2> HIDE DEF c
  <2>2. c \in Reach(to, {x}) \/ x \in Reach(to, {to[c]})
    BY <2>1, ReachLine
  <2>3. CASE c \in Reach(to, {x})
    <3>1. c = x \/ key[x] < key[c]
      BY <2>3, ListAfter
    <3> QED
      BY <1>7, <2>1, <3>1
  <2>4. CASE x \in Reach(to, {c})
    <3>1. x = c \/ key[c] < key[x]
      BY <1>4, <2>4, ListAfter
    <3> QED
      BY <1>7, <2>1, <3>1
  <2> QED
    BY <1>6, <2>2, <2>3, <2>4
<1>8. \A m \in InList : del'[m] <=> del[m] \/ m = c
  <2>1. InList \subseteq Cells
    BY ListLinkers DEF Cells
  <2> QED
    BY <1>1, <1>5, <2>1
<1>9. Members' = Members \ {key[c]}
  <2>1. Members' = {key[n] : n \in {m \in InList : ~ del'[m]}}
    BY <1>1 DEF Members
  <2>2. {m \in InList : ~ del'[m]} = {m \in InList : ~ del[m]} \ {c}
    BY <1>8
  <2> QED
    BY <1>7, <2>1, <2>2 DEF Members
<1>10. key[c] \in Members
  BY <1>4 DEF Members
<1>11. arg[t] \in Keys
  BY <1>0, <1>1 DEF Searched, Place
<1> QED
  BY <1>2, <1>9, <1>10, <1>11

\* A node that is unlinked is marked.
LEMMA UnlinkMembers ==
    ASSUME RefInv, NEW t \in Threads, Unlink(t)
    PROVE  Members' = Members
<1>0. Types /\ Control(t) /\ Searched(t)
  BY DEF RefInv
<1>1. pc[t] = "judge" /\ nd[t] /\ key' = key /\ del' = del
  BY DEF Unlink
<1>2. CASE ~ PrevIntact(t)
  <2>1. InList' = InList
    BY <1>2 DEF Unlink, InList
  <2> QED
    BY <1>1, <2>1, SameMembers
<1>3. CASE PrevIntact(t)
  <2>1. Place(t) = "judge"
    BY <1>1 DEF Place
  <2>2. del[cur[t]] /\ to[cur[t]] = nxt[t] /\ cur[t] \in Nodes
    BY <1>0, <1>1, <2>1, PlaceFacts DEF Searched
  <2>3. InList' = InList \ {cur[t]}
    BY <1>3, <2>2, UnlinkList DEF Unlink
  <2>4. {m \in InList' : ~ del'[m]} = {m \in InList : ~ del[m]}
    BY <1>1, <2>2, <2>3
  <2> QED
    BY <1>1, <2>4 DEF Members
<1> QED
  BY <1>2, <1>3

\* No other step changes the set.
LEMMA MembersKept ==
    ASSUME RefInv, NEW t \in Threads, Thread(t), ~ Takes(t)
    PROVE  Members' = Members
<1>0. Types /\ Types' /\ OthersStay(t)
  BY TypesStep, OthersStep DEF RefInv
<1>1. ASSUME UNCHANGED <<to, del, key>> PROVE Members' = Members
  <2>1. InList' = InList
    BY <1>1 DEF InList
  <2> QED
    BY <1>1, <2>1, SameMembers
<1>2. CASE Release(t)
  BY <1>1, <1>2 DEF Release
<1>3. CASE Reclaim(t)
  <2>1. InList' = InList
    BY <1>0, <1>3, ReclaimInv
  <2>2. PICK m \in Nodes : m = Called(t) /\ ~ Target(m)
    BY <1>0, <1>3, ReclaimFree
  <2>3. \A n \in InList : n \in Cells /\ n # m
    BY <2>2, ListFacts DEF Cells
  <2>4. key' = key /\ del' = [del EXCEPT ![m] = FALSE]
    BY <1>3, <2>2 DEF Reclaim
  <2>5. \A n \in InList : del'[n] = del[n]
    BY <1>0, <2>3, <2>4 DEF Types
  <2> QED
    BY <2>1, <2>4, <2>5, SameMembers
<1>4. CASE SafeReadLoad(t) \/ SafeReadCount(t) \/ SafeReadConfirm(t)
  BY <1>1, <1>4 DEF SafeReadLoad, SafeReadCount, SafeReadConfirm, heap
<1>5. CASE Unlink(t)
  BY <1>5, UnlinkMembers
<1>6. CASE AddLink(t) \/ Step(t) \/ Start(t) \/ NothingToDo(t) \/ NewRC(t) \/ Unclaim(t)
  BY <1>1, <1>6 DEF AddLink, Step, Start, NothingToDo, NewRC, Unclaim, heap
<1>7. CASE Fill(t)
  <2>1. InList' = InList
    BY <1>0, <1>7, FillInv
  <2>2. \A n \in InList : n \in Nodes /\ n \in Cells /\ n # new[t]
    BY ListFacts, TargetFacts DEF Cells
  <2>3. key' = [key EXCEPT ![new[t]] = arg[t]] /\ del' = [del EXCEPT ![new[t]] = FALSE]
    BY <1>7 DEF Fill
  <2>4. key \in [Nodes -> Keys \cup {0}] /\ del \in [Cells -> BOOLEAN]
    BY <1>0 DEF Types
  <2>5. \A n \in InList : key'[n] = key[n]
    BY <2>2, <2>3, <2>4
  <2>6. \A n \in InList : del'[n] = del[n]
    BY <2>2, <2>3, <2>4
  <2> QED
    BY <2>1, <2>5, <2>6, SameMembers
<1>8. CASE Link(t) \/ Mark(t)
  BY <1>1, <1>8 DEF Link, Mark, Takes
<1> QED
  BY <1>2, <1>3, <1>4, <1>5, <1>6, <1>7, <1>8 DEF Thread

\* No step writes the key of a node that can be followed.
LEMMA KeysKept ==
    ASSUME RefInv, NEW t \in Threads, Thread(t), NEW n \in Nodes, Target(n)
    PROVE  key'[n] = key[n]
<1>1. CASE Fill(t)
  <2>1. key' = [key EXCEPT ![new[t]] = arg[t]] /\ n # new[t]
    BY <1>1, TargetFacts DEF Fill
  <2> QED
    BY <2>1 DEF RefInv, Types
<1>2. CASE Release(t) \/ Reclaim(t) \/ SafeReadLoad(t) \/ SafeReadCount(t) \/ SafeReadConfirm(t)
  BY <1>2 DEF Release, Reclaim, SafeReadLoad, SafeReadCount, SafeReadConfirm, heap
<1>3. CASE Unlink(t) \/ AddLink(t) \/ Step(t) \/ Start(t) \/ NothingToDo(t)
  BY <1>3 DEF Unlink, AddLink, Step, Start, NothingToDo, heap
<1>4. CASE NewRC(t) \/ Unclaim(t) \/ Link(t) \/ Mark(t)
  BY <1>4 DEF NewRC, Unclaim, Link, Mark
<1> QED
  BY <1>1, <1>2, <1>3, <1>4 DEF Thread

-----------------------------------------------------------------------------
\* What a call is for, and what it has seen of its key last.
AskedOf(t) ==
    /\ op[t] = "none" <=> Place(t) = "idle"
    /\ Place(t) \in {"unclaim", "fill", "link"} => op[t] = "insert"
    /\ Over(t) => saw[t] = {}
    /\ ~ Over(t) => (arg[t] \in Members) \in saw[t]

Asked == saw = [t \in Threads |-> saw[t]] /\ \A t \in Threads : AskedOf(t)

\* The answer that find is about to give was true at some moment: a node that
\* was not marked was in the list, and behind the last there was none.
SeenOf(t) ==
    ~ Over(t) =>
        /\ Place(t) = "end" => IF Present(t) THEN TRUE \in saw[t] ELSE FALSE \in saw[t]
        /\ Place(t) = "judge" /\ ~ nd[t] =>
              /\ key[cur[t]] = arg[t] => TRUE \in saw[t]
              /\ key[cur[t]] < arg[t] /\ nxt[t] = Null => FALSE \in saw[t]
        /\ Place(t) = "addLink" /\ nxt[t] = Null => FALSE \in saw[t]

Seen == \A t \in Threads : SeenOf(t)

LEMMA InitAsked == Init => Asked /\ Seen
<1> SUFFICES ASSUME Init PROVE Asked /\ Seen
  OBVIOUS
<1>1. saw = [t \in Threads |-> {}]
  BY DEF Init
<1>2. ASSUME NEW t \in Threads PROVE pc[t] = "idle" /\ op[t] = "none" /\ saw[t] = {}
  BY DEF Init
<1>3. ASSUME NEW t \in Threads PROVE AskedOf(t) /\ SeenOf(t)
  BY <1>2 DEF Place, Over, AskedOf, SeenOf
<1> QED
  BY <1>1, <1>3 DEF Asked, Seen

\* t begins an operation, ends one, has deleted a key and goes to unlink its
\* node, or is on its way and keeps its operation and its key.
Begins(t) ==
    /\ Place(t) = "idle" /\ Place(t)' = "read"
    /\ \E o \in {"insert", "delete", "search"}, k \in Keys :
         op' = [op EXCEPT ![t] = o] /\ arg' = [arg EXCEPT ![t] = k]

Ends(t) ==
    /\ op' = [op EXCEPT ![t] = "none"] /\ arg' = [arg EXCEPT ![t] = 0]
    /\ Place(t)' = "idle"

Unlinks(t) ==
    /\ op' = [op EXCEPT ![t] = "unlink"] /\ arg' = arg
    /\ Place(t)' = "read"

OnItsWay(t) ==
    /\ op' = op /\ arg' = arg
    /\ Place(t)' = "idle" <=> Place(t) = "idle"
    /\ Place(t)' \in {"unclaim", "fill", "link"} =>
          Place(t) \in {"unclaim", "fill", "link"} \/ op[t] = "insert"
    /\ pc[t] = "end" => op[t] # "search"

\* What the steps of a thread do to its operation.
LEMMA Turns ==
    ASSUME RefInv, NEW t \in Threads, Thread(t)
    PROVE  \/ Start(t) /\ Begins(t) /\ ~ Takes(t)
           \/ NothingToDo(t) /\ Ends(t) /\ ~ Takes(t)
           \/ Takes(t) /\ Link(t) /\ Ends(t)
           \/ Takes(t) /\ Mark(t) /\ (Ends(t) \/ Unlinks(t))
           \/ OnItsWay(t) /\ ~ Takes(t)
<1>0. Types /\ pc \in [Threads -> RefCountPC]
  BY DEF RefInv, Types
<1>1. pc[t] # "release" => Place(t) = pc[t]
  BY DEF Place
<1>2. ASSUME NEW l, pc' = [pc EXCEPT ![t] = l], l # "release" PROVE pc'[t] = l /\ Place(t)' = l
  BY <1>0, <1>2 DEF Place
<1>3. ASSUME NEW s, NEW l \in {"idle", "read", "addLink", "end"}, ReleaseThen(t, s, l) PROVE Place(t)' = l
  BY <1>0, <1>3, ReleaseThenFacts
<1>4. ASSUME NEW s, NEW l \in {"idle", "read"}, GiveUpThen(t, s, l) PROVE Place(t)' = l
  BY <1>3, <1>4 DEF GiveUpThen
<1>5. ASSUME NEW s, Return(t, s) PROVE Ends(t)
  BY <1>4, <1>5 DEF Return, Ends
<1>6. ASSUME Release(t) \/ Reclaim(t) PROVE OnItsWay(t) /\ ~ Takes(t)
  <2>1. pc[t] = "release" /\ op' = op /\ arg' = arg /\ then' = then
    BY <1>6 DEF Release, Reclaim, Calling
  <2>2. \E s : Continue(t, s)
    BY <1>6 DEF Release, Reclaim, LetGo
  <2>3. Place(t)' = Place(t)
    BY <1>0, <2>1, <2>2, ContinueFacts
  <2> QED
    BY <2>1, <2>3 DEF OnItsWay, Takes, Link, Mark
<1>7. ASSUME NEW n, NEW f, Assign(t, n, f) PROVE Place(t)' \in {"end", "read", "judge"}
  <2>1. Goto(t, "end") \/ Goto(t, "read") \/ Goto(t, "judge")
    BY <1>7 DEF Assign
  <2> QED
    BY <1>2, <2>1 DEF Goto
<1>8. ASSUME pc[t] \in {"read", "count", "confirm", "judge", "addLink"}, op' = op, arg' = arg,
             Place(t)' \in {"read", "count", "confirm", "judge", "addLink", "end"}
      PROVE  OnItsWay(t) /\ ~ Takes(t)
  BY <1>1, <1>8 DEF OnItsWay, Takes, Link, Mark
<1>9. CASE SafeReadLoad(t)
  <2>1. Place(t)' \in {"end", "read", "judge", "count"}
    <3>1. CASE to[Source(t)] = Null
      BY <1>7, <1>9, <3>1 DEF SafeReadLoad
    <3>2. CASE to[Source(t)] # Null
      BY <1>2, <1>9, <3>2 DEF SafeReadLoad, Goto
    <3> QED
      BY <3>1, <3>2
  <2>2. pc[t] = "read" /\ op' = op /\ arg' = arg
    BY <1>9 DEF SafeReadLoad
  <2> QED
    BY <1>8, <2>1, <2>2
<1>10. CASE SafeReadCount(t)
  <2>1. pc[t] = "count" /\ op' = op /\ arg' = arg /\ Place(t)' = "confirm"
    BY <1>2, <1>10 DEF SafeReadCount, Goto
  <2> QED
    BY <1>8, <2>1
<1>11. CASE SafeReadConfirm(t)
  <2>1. Assign(t, q[t], qd[t]) \/ ReleaseThen(t, Call(q[t]), "read")
    BY <1>11 DEF SafeReadConfirm
  <2>2. Place(t)' \in {"end", "read", "judge"}
    BY <1>3, <1>7, <2>1
  <2>3. pc[t] = "confirm" /\ op' = op /\ arg' = arg
    BY <1>11 DEF SafeReadConfirm
  <2> QED
    BY <1>8, <2>2, <2>3
<1>12. CASE Unlink(t)
  <2>1. ReleaseThen(t, Call(cur[t]), "addLink") \/ GiveUpThen(t, Found(t), "read")
    BY <1>12 DEF Unlink
  <2>2. Place(t)' \in {"addLink", "read"}
    BY <1>3, <1>4, <2>1
  <2>3. pc[t] = "judge" /\ op' = op /\ arg' = arg
    BY <1>12 DEF Unlink
  <2> QED
    BY <1>8, <2>2, <2>3
<1>13. CASE AddLink(t)
  <2>1. ReleaseThen(t, Call(cur[t]), "end") \/ ReleaseThen(t, Call(cur[t]), "read")
    BY <1>13 DEF AddLink
  <2>2. Place(t)' \in {"end", "read"}
    BY <1>3, <2>1
  <2>3. pc[t] = "addLink" /\ op' = op /\ arg' = arg
    BY <1>13 DEF AddLink
  <2> QED
    BY <1>8, <2>2, <2>3
<1>14. CASE Step(t)
  <2>1. \/ GiveUpThen(t, Found(t), "read") \/ Goto(t, "end")
        \/ ReleaseThen(t, Call(prev[t]), "end") \/ ReleaseThen(t, Call(prev[t]), "read")
    BY <1>14 DEF Step
  <2>2. Place(t)' \in {"end", "read"}
    BY <1>2, <1>3, <1>4, <2>1 DEF Goto
  <2>3. pc[t] = "judge" /\ op' = op /\ arg' = arg
    BY <1>14 DEF Step
  <2> QED
    BY <1>8, <2>2, <2>3
<1>15. CASE Start(t)
  <2>1. pc[t] = "idle" /\ Place(t)' = "read"
    BY <1>2, <1>15 DEF Start, Goto
  <2>2. /\ \E o \in {"insert", "delete", "search"} : op' = [op EXCEPT ![t] = o]
        /\ \E k \in Keys : arg' = [arg EXCEPT ![t] = k]
    BY <1>15 DEF Start
  <2> QED
    BY <1>1, <1>15, <2>1, <2>2 DEF Begins, Takes, Link, Mark
<1>16. CASE NothingToDo(t)
  <2>1. Ends(t)
    BY <1>5, <1>16 DEF NothingToDo
  <2>2. ~ Takes(t)
    BY <1>16 DEF NothingToDo, Takes, Link, Mark
  <2> QED
    BY <1>16, <2>1, <2>2
<1>17. CASE NewRC(t)
  <2>1. pc[t] = "end" /\ op[t] = "insert" /\ op' = op /\ arg' = arg
    BY <1>17 DEF NewRC
  <2>2. Goto(t, "unclaim") \/ Goto(t, "fill")
    BY <1>17 DEF NewRC
  <2>3. Place(t)' \in {"unclaim", "fill"}
    BY <1>2, <2>2 DEF Goto
  <2> QED
    BY <1>1, <2>1, <2>3 DEF OnItsWay, Takes, Link, Mark
<1>18. CASE Unclaim(t) \/ Fill(t)
  <2>1. pc[t] \in {"unclaim", "fill"} /\ op' = op /\ arg' = arg
    BY <1>18 DEF Unclaim, Fill
  <2>2. Goto(t, "fill") \/ Goto(t, "link")
    BY <1>18 DEF Unclaim, Fill
  <2>3. Place(t)' \in {"fill", "link"}
    BY <1>2, <2>2 DEF Goto
  <2> QED
    BY <1>1, <2>1, <2>3 DEF OnItsWay, Takes, Link, Mark
<1>19. CASE Link(t)
  <2>1. pc[t] = "link"
    BY <1>19 DEF Link
  <2>2. CASE PrevIntact(t)
    BY <1>5, <1>19, <2>2 DEF Link, Takes
  <2>3. CASE ~ PrevIntact(t)
    <3>1. op' = op /\ arg' = arg /\ Place(t)' = "read"
      BY <1>4, <1>19, <2>3 DEF Link
    <3> QED
      BY <1>1, <2>1, <2>3, <3>1 DEF OnItsWay, Takes, Mark
  <2> QED
    BY <2>2, <2>3
<1>20. CASE Mark(t)
  <2>1. pc[t] = "end" /\ op[t] = "delete"
    BY <1>20 DEF Mark
  <2>2. CASE to[cur[t]] = nxt[t] /\ ~ del[cur[t]]
    <3>1. \/ Return(t, Found(t))
          \/ GiveUpThen(t, Found(t), "read") /\ op' = [op EXCEPT ![t] = "unlink"] /\ arg' = arg
      BY <1>20, <2>2 DEF Mark
    <3> QED
      BY <1>4, <1>5, <1>20, <2>2, <3>1 DEF Takes, Unlinks
  <2>3. CASE ~ (to[cur[t]] = nxt[t] /\ ~ del[cur[t]])
    <3>1. op' = op /\ arg' = arg /\ Place(t)' = "read"
      BY <1>4, <1>20, <2>3 DEF Mark
    <3> QED
      BY <1>1, <2>1, <2>3, <3>1 DEF OnItsWay, Takes, Link
  <2> QED
    BY <2>2, <2>3
<1> QED
  BY <1>6, <1>9, <1>10, <1>11, <1>12, <1>13, <1>14, <1>15, <1>16, <1>17, <1>18, <1>19, <1>20 DEF Thread

\* The others keep theirs.
LEMMA OthersTurns ==
    ASSUME NEW t \in Threads, OthersStay(t), NEW u \in Threads \ {t}
    PROVE  op'[u] = op[u] /\ arg'[u] = arg[u] /\ Place(u)' = Place(u)
  BY DEF OthersStay, Place

\* Witness lets every operation under way see its key; what it saw it keeps.
LEMMA WitnessGrows ==
    ASSUME Witness
    PROVE  /\ saw' = [u \in Threads |-> saw'[u]]
           /\ \A u \in Threads : Over(u)' => saw'[u] = {}
           /\ \A u \in Threads : ~ Over(u)' => (arg'[u] \in Members') \in saw'[u] /\ saw[u] \subseteq saw'[u]
<1>1. saw' = [u \in Threads |-> IF Over(u)' THEN {} ELSE saw[u] \cup {arg'[u] \in Members'}]
  BY DEF Witness
<1>2. ASSUME NEW u \in Threads
      PROVE  /\ Over(u)' => saw'[u] = {}
             /\ ~ Over(u)' => (arg'[u] \in Members') \in saw'[u] /\ saw[u] \subseteq saw'[u]
  <2> DEFINE present == (arg'[u] \in Members')
  <2>1. saw'[u] = IF Over(u)' THEN {} ELSE saw[u] \cup {present}
    BY <1>1
  <2> HIDE DEF present
  <2>2. Over(u)' => saw'[u] = {}
    BY <2>1
  <2>3. ~ Over(u)' => present \in saw'[u] /\ saw[u] \subseteq saw'[u]
    BY <2>1
  <2> QED
    BY <2>2, <2>3 DEF present
<1>3. saw' = [u \in Threads |-> saw'[u]]
  BY <1>1
<1> QED
  BY <1>2, <1>3

\* Whoever has been called keeps its operation until the return.
LEMMA NextAsked ==
    ASSUME RefInv, Asked, [Next]_vars
    PROVE  Asked'
<1> DEFINE Busy(u) == /\ op[u] = "none" <=> Place(u) = "idle"
                      /\ Place(u) \in {"unclaim", "fill", "link"} => op[u] = "insert"
<1>0. /\ Types /\ \A u \in Threads : Busy(u)
      /\ op \in [Threads -> {"none", "insert", "delete", "search", "unlink"}]
  BY DEF RefInv, Types, Asked, AskedOf
<1>1. CASE UNCHANGED vars
  <2>1. UNCHANGED <<to, del, key, pc, then, op, arg, saw>>
    BY <1>1 DEF vars, heap
  <2>2. Members' = Members
    BY <2>1 DEF Members, InList
  <2>3. \A u \in Threads : (Over(u)' <=> Over(u)) /\ Place(u)' = Place(u)
    BY <2>1 DEF Over, Place
  <2> QED
    BY <2>1, <2>2, <2>3 DEF Asked, AskedOf
<1>2. CASE Next
  <2>1. PICK t \in Threads : Thread(t)
    BY <1>2 DEF Next
  <2>2. OthersStay(t)
    BY <1>0, <2>1, OthersStep
  <2>3. \A u \in Threads \ {t} : Busy(u)'
    BY <1>0, <2>2, OthersTurns
  <2>4. Busy(t)'
    <3>1. Begins(t) \/ Ends(t) \/ Unlinks(t) \/ OnItsWay(t)
      BY <2>1, Turns
    <3>2. CASE Begins(t) \/ Ends(t) \/ Unlinks(t)
      BY <1>0, <3>2 DEF Begins, Ends, Unlinks
    <3>3. CASE OnItsWay(t)
      BY <1>0, <3>3 DEF OnItsWay
    <3> QED
      BY <3>1, <3>2, <3>3
  <2>5. \A u \in Threads : Busy(u)'
    BY <2>3, <2>4
  <2> HIDE DEF Busy
  <2>6. ASSUME NEW u \in Threads PROVE AskedOf(u)'
    <3>1. Witness
      BY <1>2 DEF Next
    <3>2. /\ Over(u)' => saw'[u] = {}
          /\ ~ Over(u)' => (arg'[u] \in Members') \in saw'[u]
      BY <3>1, WitnessGrows
    <3>3. Busy(u)'
      BY <2>5
    <3> QED
      BY <3>2, <3>3 DEF AskedOf, Busy
  <2> QED
    BY <1>2, <2>6, WitnessGrows DEF Asked, Next
<1> QED
  BY <1>1, <1>2

\* The keys are numbers.
LEMMA KeyInts == \A k \in Keys : k \in Int
  BY RefCountAssumption

\* What find has seen stays seen.
LEMMA SeenKept ==
    ASSUME NEW u \in Threads, SeenOf(u), ~ Over(u)' => ~ Over(u) /\ saw[u] \subseteq saw'[u],
           Place(u)' = Place(u), cur'[u] = cur[u], nxt'[u] = nxt[u], nd'[u] = nd[u], arg'[u] = arg[u],
           cur[u] \in Pointers, cur[u] \in Nodes => key'[cur[u]] = key[cur[u]],
           Place(u) = "judge" => cur[u] \in Nodes
    PROVE  SeenOf(u)'
<1> SUFFICES ASSUME ~ Over(u)'
             PROVE  /\ Place(u) = "end" => IF Present(u)' THEN TRUE \in saw'[u] ELSE FALSE \in saw'[u]
                    /\ Place(u) = "judge" /\ ~ nd[u] =>
                          /\ key'[cur[u]] = arg[u] => TRUE \in saw'[u]
                          /\ key'[cur[u]] < arg[u] /\ nxt[u] = Null => FALSE \in saw'[u]
                    /\ Place(u) = "addLink" /\ nxt[u] = Null => FALSE \in saw'[u]
  BY DEF SeenOf
<1>1. saw[u] \subseteq saw'[u]
  OBVIOUS
<1>2. Present(u)' <=> Present(u)
  BY DEF Present, Pointers
<1> QED
  BY <1>1, <1>2 DEF SeenOf

\* Where find stands it has a node, and no step of t moves the others.
LEMMA OthersSeen ==
    ASSUME RefInv, NEW t \in Threads, Thread(t), NEW u \in Threads, SeenOf(u),
           ~ Over(u)' => ~ Over(u) /\ saw[u] \subseteq saw'[u],
           Place(u)' = Place(u), cur'[u] = cur[u], nxt'[u] = nxt[u], nd'[u] = nd[u], arg'[u] = arg[u]
    PROVE  SeenOf(u)'
<1>1. Types /\ Control(u)
  BY DEF RefInv
<1>2. cur[u] \in Pointers
  BY <1>1 DEF Types
<1>3. cur[u] \in Nodes => key'[cur[u]] = key[cur[u]]
  <2>1. cur[u] \in Nodes => Target(cur[u])
    BY DEF Target, Held
  <2> QED
    BY <2>1, KeysKept
<1>4. Place(u) = "judge" => cur[u] \in Nodes
  BY <1>1 DEF Control, Reading, Types
<1> QED
  BY <1>2, <1>3, <1>4, SeenKept

\* safeRead returns what was the link at one moment: the end of the list, or
\* the successor of a node that was in it.
LEMMA AssignSeen ==
    ASSUME RefInv, NEW t \in Threads, pc[t] \in {"read", "confirm"}, NEW n, n = to[Source(t)],
           Assign(t, n, del[Source(t)]), key' = key, arg' = arg,
           arg[t] \in Members => TRUE \in saw'[t], arg[t] \notin Members => FALSE \in saw'[t]
    PROVE  SeenOf(t)'
<1>1. Types
  BY DEF RefInv
<1>2. /\ n \in Pointers /\ arg[t] \in Keys /\ dst[t] \in {"cur", "nxt"}
      /\ dst[t] = "nxt" => cur[t] \in Nodes /\ Source(t) = cur[t]
  BY ReadFacts DEF Reading
<1>3. arg[t] \in Int
  BY <1>2, KeyInts
<1>4. CASE dst[t] = "cur"
  <2>1. cur'[t] = n /\ pc'[t] = (IF n = Null THEN "end" ELSE "read") /\ Source(t) = Root
    BY <1>1, <1>4 DEF Assign, Goto, Types, Source
  <2>2. Place(t)' = pc'[t]
    BY <2>1 DEF Place
  <2>3. CASE n = Null
    <3>1. Root \in Reach(to, {Root}) /\ Root \notin Nodes /\ to[Root] \notin Nodes
      BY <2>1, <2>3, ListLinkers, RefCountAssumption
    <3>2. arg[t] \notin Members
      BY <1>3, <3>1, Gap
    <3>3. ~ Present(t)'
      BY <2>1, <2>3 DEF Present
    <3> QED
      BY <2>1, <2>2, <2>3, <3>2, <3>3 DEF SeenOf
  <2>4. CASE n # Null
    BY <2>1, <2>2, <2>4 DEF SeenOf
  <2> QED
    BY <2>3, <2>4
<1>5. CASE dst[t] = "nxt"
  <2>1. nxt'[t] = n /\ nd'[t] = del[cur[t]] /\ pc'[t] = "judge" /\ cur' = cur /\ n = to[cur[t]]
    BY <1>1, <1>2, <1>5 DEF Assign, Goto, Types
  <2>2. Place(t)' = "judge"
    BY <2>1 DEF Place
  <2>3. ASSUME ~ nd'[t]
        PROVE  /\ key[cur[t]] = arg[t] => TRUE \in saw'[t]
               /\ key[cur[t]] < arg[t] /\ n = Null => FALSE \in saw'[t]
    <3>1. cur[t] \in Nodes /\ Target(cur[t]) /\ ~ del[cur[t]]
      BY <1>2, <1>5, <2>1, <2>3 DEF Target, Held
    <3>2. cur[t] \in InList /\ cur[t] \in Reach(to, {Root})
      BY <3>1, ListFacts DEF RefInv, OnList
    <3>3. key[cur[t]] = arg[t] => arg[t] \in Members
      BY <3>1, <3>2 DEF Members
    <3>4. key[cur[t]] < arg[t] /\ n = Null => arg[t] \notin Members
      <4>1. n = Null => to[cur[t]] \notin Nodes
        BY <2>1, RefCountAssumption
      <4> QED
        BY <1>3, <3>2, <4>1, Gap
    <3> QED
      BY <3>3, <3>4
  <2> QED
    BY <2>1, <2>2, <2>3 DEF SeenOf
<1> QED
  BY <1>2, <1>4, <1>5

\* What t finds it has seen.
LEMMA OwnSeen ==
    ASSUME RefInv, RefInv', Asked, Seen, NEW t \in Threads, Thread(t), Witness
    PROVE  SeenOf(t)'
<1>0. Types /\ Control(t) /\ Searched(t) /\ SeenOf(t) /\ AskedOf(t)
  BY DEF RefInv, Asked, Seen
<1>1. ASSUME Place(t)' \in {"idle", "read", "count", "confirm", "unclaim", "fill", "link"} PROVE SeenOf(t)'
  BY <1>1 DEF SeenOf
<1>2. ASSUME Over(t)' PROVE SeenOf(t)'
  BY <1>2 DEF SeenOf
<1>3. ASSUME NEW l, pc' = [pc EXCEPT ![t] = l], l # "release" PROVE pc'[t] = l /\ Place(t)' = l
  BY <1>0, <1>3 DEF Place, Types
<1>4. ASSUME NEW s, NEW l \in {"idle", "read", "addLink", "end"}, ReleaseThen(t, s, l) PROVE Place(t)' = l
  BY <1>0, <1>4, ReleaseThenFacts
<1>5. ASSUME NEW s, NEW l \in {"idle", "read"}, GiveUpThen(t, s, l) PROVE SeenOf(t)'
  BY <1>1, <1>4, <1>5 DEF GiveUpThen
<1>6. ~ Over(t)' => saw[t] \subseteq saw'[t]
  BY WitnessGrows
\* While the operation goes on, what is true now has been seen.
<1>7. ASSUME op' = op, ~ Over(t)'
      PROVE  ~ Over(t) /\ (arg[t] \in Members => TRUE \in saw'[t]) /\ (arg[t] \notin Members => FALSE \in saw'[t])
  <2>1. ~ Over(t)
    BY <1>7 DEF Over
  <2> DEFINE present == (arg[t] \in Members)
  <2>2. present \in saw'[t]
    BY <1>0, <1>6, <1>7, <2>1 DEF AskedOf
  <2>3. present \in BOOLEAN
    OBVIOUS
  <2>4. present <=> arg[t] \in Members
    OBVIOUS
  <2> HIDE DEF present
  <2>5. (present => TRUE \in saw'[t]) /\ (~ present => FALSE \in saw'[t])
    BY <2>2, <2>3
  <2> QED
    BY <2>1, <2>4, <2>5
<1>8. CASE Release(t) \/ Reclaim(t)
  <2>1. pc[t] = "release" /\ UNCHANGED <<then, op, arg, cur, nxt, nd>>
    BY <1>8 DEF Release, Reclaim, Calling, reg
  <2>2. \E s : Continue(t, s)
    BY <1>8 DEF Release, Reclaim, LetGo
  <2>3. Place(t)' = Place(t)
    BY <1>0, <2>1, <2>2, ContinueFacts
  <2> QED
    BY <1>0, <1>6, <2>1, <2>3, OthersSeen DEF Over
<1>9. CASE SafeReadLoad(t)
  <2>1. pc[t] = "read" /\ op' = op /\ key' = key /\ arg' = arg
    BY <1>9 DEF SafeReadLoad, heap
  <2>2. CASE to[Source(t)] = Null
    <3>1. Assign(t, Null, del[Source(t)])
      BY <1>9, <2>2 DEF SafeReadLoad
    <3> QED
      BY <1>2, <1>7, <2>1, <2>2, <3>1, AssignSeen
  <2>3. CASE to[Source(t)] # Null
    BY <1>1, <1>3, <1>9, <2>3 DEF SafeReadLoad, Goto
  <2> QED
    BY <2>2, <2>3
<1>10. CASE SafeReadCount(t)
  BY <1>1, <1>3, <1>10 DEF SafeReadCount, Goto
<1>11. CASE SafeReadConfirm(t)
  <2>1. pc[t] = "confirm" /\ op' = op /\ key' = key /\ arg' = arg
    BY <1>11 DEF SafeReadConfirm, heap
  <2>2. CASE to[Source(t)] = q[t] /\ del[Source(t)] = qd[t]
    <3>1. Assign(t, q[t], del[Source(t)])
      BY <1>11, <2>2 DEF SafeReadConfirm
    <3> QED
      BY <1>2, <1>7, <2>1, <2>2, <3>1, AssignSeen
  <2>3. CASE ~ (to[Source(t)] = q[t] /\ del[Source(t)] = qd[t])
    BY <1>1, <1>4, <1>11, <2>3 DEF SafeReadConfirm
  <2> QED
    BY <2>2, <2>3
<1>12. CASE Unlink(t)
  <2>1. CASE ~ PrevIntact(t)
    BY <1>5, <1>12, <2>1 DEF Unlink
  <2>2. CASE PrevIntact(t)
    <3>1. /\ pc[t] = "judge" /\ nd[t] /\ op' = op /\ nxt' = nxt /\ Place(t)' = "addLink"
          /\ to' = [to EXCEPT ![prev[t]] = nxt[t]]
      BY <1>4, <1>12, <2>2 DEF Unlink
    <3>2. Place(t) = "judge"
      BY <3>1 DEF Place
    <3>3. /\ cur[t] \in Nodes /\ del[cur[t]] /\ to[cur[t]] = nxt[t] /\ arg[t] \in Keys
          /\ prev[t] \in Nodes => key[prev[t]] < arg[t]
      BY <1>0, <3>1, <3>2, PlaceFacts DEF Searched
    <3>4. prev[t] \in Reach(to, {Root}) /\ to[prev[t]] = cur[t]
      BY <2>2, IntactFacts
    <3>5. arg[t] \in Int
      BY <3>3, KeyInts
    <3>6. nxt[t] = Null => arg[t] \notin Members
      BY <3>3, <3>4, <3>5, LastMarked
    <3> QED
      BY <1>7, <3>1, <3>6 DEF SeenOf
  <2> QED
    BY <2>1, <2>2
<1>13. CASE AddLink(t)
  <2>1. /\ pc[t] = "addLink" /\ op' = op /\ cur'[t] = nxt[t]
        /\ ReleaseThen(t, Call(cur[t]), IF nxt[t] = Null THEN "end" ELSE "read")
    BY <1>0, <1>13 DEF AddLink, Types
  <2>2. CASE nxt[t] # Null
    BY <1>1, <1>4, <2>1, <2>2
  <2>3. CASE nxt[t] = Null
    <3>1. Place(t)' = "end" /\ ~ Present(t)'
      BY <1>4, <2>1, <2>3 DEF Present
    <3>2. Place(t) = "addLink"
      BY <2>1 DEF Place
    <3>3. ~ Over(t)' => FALSE \in saw'[t]
      BY <1>0, <1>6, <1>7, <2>1, <2>3, <3>2 DEF SeenOf
    <3> QED
      BY <3>1, <3>3 DEF SeenOf
  <2> QED
    BY <2>2, <2>3
<1>14. CASE Step(t)
  <2>1. pc[t] = "judge" /\ ~ nd[t] /\ op' = op /\ arg' = arg /\ key' = key
    BY <1>14 DEF Step, heap
  <2>2. Place(t) = "judge" /\ cur[t] \in Nodes
    BY <2>1, PlaceFacts DEF Place
  <2>3. arg[t] \in Keys /\ arg[t] \in Int /\ (prev[t] \in Nodes => key[prev[t]] < arg[t]) /\ key[cur[t]] \in Int
    <3>1. arg[t] \in Keys /\ (prev[t] \in Nodes => key[prev[t]] < arg[t]) /\ key[cur[t]] \in Keys \cup {0}
      BY <1>0, <2>2 DEF Searched, Types
    <3> QED
      BY <3>1, KeyInts
  <2>4. CASE ~ PrevIntact(t)
    BY <1>5, <1>14, <2>4 DEF Step
  <2>5. CASE PrevIntact(t) /\ key[cur[t]] >= arg[t]
    <3>1. Place(t)' = "end" /\ cur' = cur
      BY <1>3, <1>14, <2>5 DEF Step, Goto
    <3>2. Present(t)' <=> key[cur[t]] = arg[t]
      BY <2>1, <2>2, <3>1, RefCountAssumption DEF Present
    <3>3. key[cur[t]] = arg[t] /\ ~ Over(t)' => TRUE \in saw'[t]
      BY <1>0, <1>6, <1>7, <2>1, <2>2 DEF SeenOf
    <3>4. key[cur[t]] # arg[t] => arg[t] \notin Members
      <4>1. prev[t] \in Reach(to, {Root}) /\ to[prev[t]] = cur[t]
        BY <2>5, IntactFacts
      <4>2. key[cur[t]] # arg[t] => arg[t] < key[cur[t]]
        BY <2>3, <2>5
      <4> QED
        BY <2>3, <4>1, <4>2, Gap
    <3> QED
      BY <1>7, <2>1, <3>1, <3>2, <3>3, <3>4 DEF SeenOf
  <2>6. CASE PrevIntact(t) /\ ~ (key[cur[t]] >= arg[t])
    <3>1. /\ ReleaseThen(t, Call(prev[t]), IF nxt[t] = Null THEN "end" ELSE "read")
          /\ cur'[t] = nxt[t]
      BY <1>0, <1>14, <2>6 DEF Step, Types
    <3>2. CASE nxt[t] # Null
      BY <1>1, <1>4, <3>1, <3>2
    <3>3. CASE nxt[t] = Null
      <4>1. Place(t)' = "end" /\ ~ Present(t)'
        BY <1>4, <3>1, <3>3 DEF Present
      <4>2. key[cur[t]] < arg[t]
        BY <2>3, <2>6
      <4>3. ~ Over(t)' => FALSE \in saw'[t]
        BY <1>0, <1>6, <1>7, <2>1, <2>2, <3>3, <4>2 DEF SeenOf
      <4> QED
        BY <4>1, <4>3 DEF SeenOf
    <3> QED
      BY <3>2, <3>3
  <2> QED
    BY <2>4, <2>5, <2>6
<1>15. CASE Start(t)
  BY <1>1, <1>3, <1>15 DEF Start, Goto
<1>16. CASE NothingToDo(t)
  BY <1>5, <1>16 DEF NothingToDo, Return
<1>17. CASE NewRC(t) \/ Unclaim(t) \/ Fill(t)
  <2>1. Goto(t, "unclaim") \/ Goto(t, "fill") \/ Goto(t, "link")
    BY <1>17 DEF NewRC, Unclaim, Fill
  <2> QED
    BY <1>1, <1>3, <2>1 DEF Goto
<1>18. CASE Link(t)
  BY <1>5, <1>18 DEF Link, Return
<1>19. CASE Mark(t)
  BY <1>5, <1>19 DEF Mark, Return
<1> QED
  BY <1>8, <1>9, <1>10, <1>11, <1>12, <1>13, <1>14, <1>15, <1>16, <1>17, <1>18, <1>19 DEF Thread

LEMMA NextSeen ==
    ASSUME RefInv, RefInv', Asked, Seen, [Next]_vars
    PROVE  Seen'
<1>1. CASE UNCHANGED vars
  <2>1. UNCHANGED <<key, pc, then, op, arg, cur, nxt, nd, saw>>
    BY <1>1 DEF vars, heap, reg
  <2> QED
    BY <2>1 DEF Seen, SeenOf, Over, Place, Present
<1>2. CASE Next
  <2>1. PICK t \in Threads : Thread(t)
    BY <1>2 DEF Next
  <2>2. Witness /\ OthersStay(t)
    BY <1>2, <2>1, OthersStep DEF Next, RefInv
  <2>3. SeenOf(t)'
    BY <2>1, <2>2, OwnSeen
  <2>4. ASSUME NEW u \in Threads \ {t} PROVE SeenOf(u)'
    <3>1. op'[u] = op[u] /\ arg'[u] = arg[u] /\ Place(u)' = Place(u)
      BY <2>2, OthersTurns
    <3>2. cur'[u] = cur[u] /\ nxt'[u] = nxt[u] /\ nd'[u] = nd[u] /\ SeenOf(u)
      BY <2>2 DEF OthersStay, Seen
    <3>3. ~ Over(u)' => ~ Over(u) /\ saw[u] \subseteq saw'[u]
      BY <2>2, <3>1, WitnessGrows DEF Over
    <3> QED
      BY <2>1, <3>1, <3>2, <3>3, OthersSeen
  <2> QED
    BY <2>3, <2>4 DEF Seen
<1> QED
  BY <1>1, <1>2

-----------------------------------------------------------------------------
\* L!See is Witness, and a step that changes neither the set nor what is still
\* to do sees nothing new.
LEMMA Sees ==
    ASSUME Witness, Types'
    PROVE  /\ L!See
           /\ Types /\ Asked /\ Members' = Members /\ Doing' = Doing => saw' = saw
<1>1. \A u \in Threads : Over(u)' => Doing'[u] = <<"none", 0>>
  BY DEF Doing
<1>2. \A u \in Threads : ~ Over(u)' => Doing'[u] # <<"none", 0>> /\ Doing'[u][2] = arg'[u]
  BY DEF Doing, Types, Over
<1>3. L!See
  BY <1>1, <1>2 DEF L!See, L!Nothing, Witness
<1>4. ASSUME Types, Asked, Members' = Members, Doing' = Doing PROVE saw' = saw
  <2>1. \A u \in Threads : Over(u) => Doing[u] = <<"none", 0>>
    BY DEF Doing
  <2>2. \A u \in Threads : ~ Over(u) => Doing[u] # <<"none", 0>> /\ Doing[u][2] = arg[u]
    BY <1>4 DEF Doing, Types, Over
  <2>3. \A u \in Threads : IF Over(u) THEN Over(u)' ELSE ~ Over(u)' /\ arg'[u] = arg[u]
    BY <1>1, <1>2, <1>4, <2>1, <2>2
  <2>4. \A u \in Threads : IF Over(u) THEN saw[u] = {} ELSE (arg[u] \in Members) \in saw[u]
    BY <1>4 DEF Asked, AskedOf
  <2>5. \A u \in Threads : saw'[u] = IF Over(u)' THEN {} ELSE saw[u] \cup {arg'[u] \in Members'}
    BY DEF Witness
  <2>6. ASSUME NEW u \in Threads PROVE saw'[u] = saw[u]
    <3> DEFINE present == (arg[u] \in Members)
    <3>1. ~ Over(u) => present \in saw[u] /\ saw'[u] = saw[u] \cup {present}
      BY <1>4, <2>3, <2>4, <2>5
    <3> HIDE DEF present
    <3>2. Over(u) => saw'[u] = saw[u]
      BY <2>3, <2>4, <2>5
    <3> QED
      BY <3>1, <3>2
  <2>7. saw' = [u \in Threads |-> saw'[u]] /\ saw = [u \in Threads |-> saw[u]]
    BY <1>4, WitnessGrows DEF Asked
  <2> QED
    BY <2>6, <2>7
<1> QED
  BY <1>3, <1>4

\* A step of t changes what t has still to do, and nobody else's.
LEMMA DoingOf ==
    ASSUME RefInv, NEW t \in Threads, Thread(t)
    PROVE  Doing' = [Doing EXCEPT ![t] = Doing'[t]]
<1>1. ASSUME NEW u \in Threads \ {t} PROVE Doing'[u] = Doing[u]
  <2>1. OthersStay(t) /\ cur[u] \in Pointers
    BY OthersStep DEF RefInv, Types
  <2>2. op'[u] = op[u] /\ arg'[u] = arg[u] /\ pc'[u] = pc[u] /\ cur'[u] = cur[u]
    BY <2>1 DEF OthersStay
  <2>3. cur[u] \in Nodes => key'[cur[u]] = key[cur[u]]
    <3>1. cur[u] \in Nodes => Target(cur[u])
      BY DEF Target, Held
    <3> QED
      BY <3>1, KeysKept
  <2>4. Present(u)' <=> Present(u)
    BY <2>1, <2>2, <2>3 DEF Present, Pointers
  <2> QED
    BY <2>2, <2>4 DEF Doing, Over
<1>2. Doing = [u \in Threads |-> Doing[u]] /\ Doing' = [u \in Threads |-> Doing'[u]]
  BY DEF Doing
<1> QED
  BY <1>1, <1>2

\* A search has its answer when find has come to its end; whatever else a
\* thread does on its way is nothing to the set.
LEMMA WayStep ==
    ASSUME RefInv, Asked, Seen', NEW t \in Threads, Thread(t), OnItsWay(t), Members' = Members
    PROVE  Doing' = Doing \/ L!Answer(t)
<1>1. Doing' = [Doing EXCEPT ![t] = Doing'[t]]
  BY DoingOf
<1>2. op'[t] = op[t] /\ arg'[t] = arg[t] /\ (Over(t)' <=> Over(t))
  BY DEF OnItsWay, Over
<1>3. CASE op[t] = "search" /\ pc'[t] = "end"
  <2>1. Place(t) # "idle" /\ pc[t] # "end" /\ ~ Over(t)
    BY <1>3 DEF Asked, AskedOf, OnItsWay, Over
  <2>2. arg[t] \in Keys
    BY <2>1 DEF RefInv, Searched
  <2>3. Doing[t] = <<"search", arg[t]>>
    BY <1>3, <2>1 DEF Doing
  <2>4. Doing'[t] = <<IF Present(t)' THEN "found" ELSE "absent", arg[t]>>
    BY <1>2, <1>3, <2>1 DEF Doing
  <2>5. IF Present(t)' THEN TRUE \in saw'[t] ELSE FALSE \in saw'[t]
    BY <1>2, <1>3, <2>1 DEF Seen, SeenOf, Place
  <2>6. PICK found \in BOOLEAN : found \in saw'[t] /\ Doing'[t] = <<IF found THEN "found" ELSE "absent", arg[t]>>
    BY <2>4, <2>5
  <2> QED
    BY <1>1, <2>2, <2>3, <2>6 DEF L!Answer, L!Answered, L!Becomes
<1>4. CASE ~ (op[t] = "search" /\ pc'[t] = "end")
  <2>1. Doing'[t] = Doing[t]
    BY <1>2, <1>4 DEF OnItsWay, Doing
  <2>2. Doing = [u \in Threads |-> Doing[u]]
    BY DEF Doing
  <2> QED
    BY <1>1, <2>1, <2>2
<1> QED
  BY <1>3, <1>4

\* Every step is one of the set, or nothing to it.
LEMMA SetStep ==
    ASSUME RefInv, Asked, Seen, [Next]_vars, RefInv', Asked', Seen'
    PROVE  [L!Next]_<<Members, Doing, saw>>
<1>0. Types /\ Types'
  BY DEF RefInv
<1>1. CASE UNCHANGED vars
  <2>1. UNCHANGED <<to, del, key, pc, op, arg, cur, saw>>
    BY <1>1 DEF vars, heap, reg
  <2> QED
    BY <2>1 DEF Members, InList, Doing, Over, Present
<1>2. CASE Next
  <2>1. L!See /\ (Members' = Members /\ Doing' = Doing => saw' = saw)
    BY <1>0, <1>2, Sees DEF Next
  <2> SUFFICES ASSUME NEW t \in Threads, Thread(t)
               PROVE  \/ Members' = Members /\ Doing' = Doing
                      \/ L!Request(t) \/ L!Insert(t) \/ L!Delete(t) \/ L!Answer(t) \/ L!Return(t)
    BY <1>2, <2>1 DEF L!Next, Next
  <2>2. Doing' = [Doing EXCEPT ![t] = Doing'[t]]
    BY DoingOf
  <2>3. ASSUME Ends(t) \/ Unlinks(t) PROVE Doing' = [Doing EXCEPT ![t] = <<"none", 0>>]
    <3>1. Over(t)'
      BY <1>0, <2>3 DEF Ends, Unlinks, Over, Types
    <3>2. Doing'[t] = <<"none", 0>>
      BY <3>1 DEF Doing
    <3> QED
      BY <2>2, <3>2
  <2>4. ASSUME pc[t] # "release" PROVE Place(t) = pc[t]
    BY <2>4 DEF Place
  <2>5. CASE Start(t) /\ Begins(t) /\ ~ Takes(t)
    <3>1. PICK o \in {"insert", "delete", "search"}, k \in Keys :
            op' = [op EXCEPT ![t] = o] /\ arg' = [arg EXCEPT ![t] = k]
      BY <2>5 DEF Begins
    <3>2. Doing[t] = <<"none", 0>> /\ Members' = Members
      <4>1. op[t] = "none"
        BY <2>5 DEF Begins, Asked, AskedOf
      <4> QED
        BY <2>5, <4>1, MembersKept DEF Doing, Over
    <3>3. op'[t] = o /\ arg'[t] = k /\ pc'[t] = "read"
      BY <1>0, <2>5, <3>1 DEF Types, Start, Goto
    <3>4. Doing'[t] = <<o, k>>
      BY <3>3 DEF Doing, Over
    <3> QED
      BY <2>2, <3>2, <3>4 DEF L!Request, L!Operations, L!Becomes, L!Nothing
  <2>6. CASE NothingToDo(t) /\ Ends(t) /\ ~ Takes(t)
    <3>1. Members' = Members /\ Doing' = [Doing EXCEPT ![t] = <<"none", 0>>]
      BY <2>3, <2>6, MembersKept
    <3>2. pc[t] = "end" /\ Place(t) = "end" /\ (op[t] \in {"search", "unlink"} \/ (op[t] = "insert") = Present(t))
      BY <2>4, <2>6 DEF NothingToDo
    <3>3. arg[t] \in Keys /\ op[t] # "none"
      BY <3>2 DEF RefInv, Searched, Asked, AskedOf
    <3>4. CASE op[t] = "unlink"
      <4>1. Doing[t] = <<"none", 0>>
        BY <3>4 DEF Doing, Over
      <4>2. Doing = [u \in Threads |-> Doing[u]]
        BY DEF Doing
      <4> QED
        BY <3>1, <4>1, <4>2
    <3>5. CASE op[t] # "unlink"
      <4>1. op[t] \in {"insert", "delete", "search"} /\ ~ Over(t)
        BY <1>0, <3>3, <3>5 DEF Types, Over
      <4>2. IF Present(t) THEN TRUE \in saw[t] ELSE FALSE \in saw[t]
        BY <3>2, <4>1 DEF Seen, SeenOf
      <4>3. \/ Doing[t] = <<"insert", arg[t]>> /\ TRUE \in saw[t]
            \/ Doing[t] = <<"delete", arg[t]>> /\ FALSE \in saw[t]
            \/ Doing[t] \in {<<"found", arg[t]>>, <<"absent", arg[t]>>}
        BY <3>2, <4>1, <4>2 DEF Doing
      <4> QED
        BY <3>1, <3>3, <4>3 DEF L!Return, L!Becomes, L!Nothing
    <3> QED
      BY <3>4, <3>5
  <2>7. CASE Takes(t) /\ Link(t) /\ Ends(t)
    <3>1. pc[t] = "link" /\ PrevIntact(t)
      BY <2>7 DEF Takes, Link, Mark
    <3>2. arg[t] \in Keys \ Members /\ Members' = Members \cup {arg[t]}
      BY <2>7, <3>1, LinkAdds
    <3>3. op[t] = "insert"
      BY <2>4, <3>1 DEF Asked, AskedOf
    <3>4. Doing[t] = <<"insert", arg[t]>>
      BY <3>3 DEF Doing, Over
    <3> QED
      BY <2>3, <2>7, <3>2, <3>4 DEF L!Insert, L!Becomes, L!Nothing
  <2>8. CASE Takes(t) /\ Mark(t) /\ (Ends(t) \/ Unlinks(t))
    <3>1. to[cur[t]] = nxt[t] /\ ~ del[cur[t]] /\ op[t] = "delete"
      BY <2>8 DEF Takes, Link, Mark
    <3>2. arg[t] \in Members /\ Members' = Members \ {arg[t]}
      BY <2>8, <3>1, MarkTakes
    <3>3. Doing[t] = <<"delete", arg[t]>>
      BY <3>1 DEF Doing, Over
    <3> QED
      BY <2>3, <2>8, <3>2, <3>3 DEF L!Delete, L!Becomes, L!Nothing
  <2>9. CASE OnItsWay(t) /\ ~ Takes(t)
    <3>1. Members' = Members
      BY <2>9, MembersKept
    <3> QED
      BY <2>9, <3>1, WayStep
  <2> QED
    BY <2>5, <2>6, <2>7, <2>8, <2>9, Turns
<1> QED
  BY <1>1, <1>2

\* At the start the list holds keys only.
LEMMA InitSet == Init => L!Init
<1>1. RefInv => Members \subseteq Keys
  BY ListFacts DEF Members, RefInv, Order
<1>2. Init => Doing = [t \in Threads |-> <<"none", 0>>] /\ saw = [t \in Threads |-> {}]
  BY DEF Init, Doing, Over
<1> QED
  BY <1>1, <1>2, InitInv DEF L!Init, L!Nothing

\* The list with reference counts implements the specification of the other
\* lists: a set of keys to which every insert adds the key it was called with,
\* and from which every delete takes its key away, at one moment between the
\* call and the return; what returns without having changed the set says what
\* was true at some moment between the two.
THEOREM SetRefinement == Spec => SetSpec
<1>1. RefInv /\ RefInv' /\ Asked /\ Seen /\ [Next]_vars => Asked' /\ Seen'
  BY NextAsked, NextSeen
<1>2. Spec => []RefInv /\ [](Asked /\ Seen)
  BY <1>1, RefInvariant, InitAsked, PTL DEF Spec
<1>3. RefInv /\ Asked /\ Seen /\ [Next]_vars /\ RefInv' /\ Asked' /\ Seen' => [L!Next]_<<Members, Doing, saw>>
  BY SetStep
<1> QED
  BY <1>2, <1>3, InitSet, PTL DEF Spec, SetSpec, L!Spec
=============================================================================
