-------------------------- MODULE ReachabilityProofs --------------------------
(***************************************************************************)
(* Facts about Reach that the proofs about the linked lists use, and one   *)
(* about numbers.                                                          *)
(***************************************************************************)
EXTENDS Reachability, Integers, TLAPS, WellFoundedInduction

\* A set of natural numbers has a least one: the loops of hash_insert, and of
\* finishTraceArr over the chunks of a word, stop at a first one.
THEOREM LeastExists ==
    ASSUME NEW T \in SUBSET Nat, T # {}
    PROVE  \E x \in T : \A y \in T : x <= y
<1> DEFINE R == {ss \in Nat \X Nat : ss[1] < ss[2]}
<1>1. IsWellFoundedOn(R, Nat)
  <2>1. R = OpToRel(<, Nat)
    BY DEF OpToRel
  <2>. QED
    BY <2>1, NatLessThanWellFounded, Zenon
<1>2. PICK x \in T : \A y \in T : ~ (<<y, x>> \in R)
  BY <1>1, WFMin
<1>3. \A y \in T : <<y, x>> \in R \/ x <= y
  <2>1. TAKE y \in T
  <2>2. y \in Nat /\ x \in Nat
    OBVIOUS
  <2>. QED
    BY <2>2
<1>. QED
  BY <1>2, <1>3, Zenon

-----------------------------------------------------------------------------
\* What is reached is in the structure, it has what one starts from, and it is
\* closed: the loops that follow a list leave it only at its end.
THEOREM ReachClosed ==
    ASSUME NEW f, NEW S
    PROVE  /\ Reach(f, S) \subseteq DOMAIN f
           /\ S \cap DOMAIN f \subseteq Reach(f, S)
           /\ \A x \in Reach(f, S) : f[x] \in DOMAIN f => f[x] \in Reach(f, S)
<1> DEFINE Out == {U \in SUBSET (DOMAIN f \ S) : \A x \in DOMAIN f \ U : f[x] \notin U}
<1>1. Reach(f, S) = DOMAIN f \ UNION Out
  BY DEF Reach
<1>2. ASSUME NEW x \in Reach(f, S), f[x] \in DOMAIN f, f[x] \notin Reach(f, S)
      PROVE  FALSE
  <2>1. PICK U \in Out : f[x] \in U
    BY <1>1, <1>2
  <2>2. x \in DOMAIN f \ U
    BY <1>1
  <2> QED
    BY <2>1, <2>2
<1> QED
  BY <1>1, <1>2

\* It is the least such set.
THEOREM ReachLeast ==
    ASSUME NEW f, NEW S, NEW C,
           S \cap DOMAIN f \subseteq C,
           \A x \in C \cap DOMAIN f : f[x] \in DOMAIN f => f[x] \in C
    PROVE  Reach(f, S) \subseteq C
<1> DEFINE U == DOMAIN f \ C
<1>1. U \in SUBSET (DOMAIN f \ S) /\ \A x \in DOMAIN f \ U : f[x] \notin U
  OBVIOUS
<1> QED
  BY <1>1 DEF Reach

\* Starting from more reaches more.
THEOREM ReachMonotone ==
    ASSUME NEW f, NEW S, NEW T, S \cap DOMAIN f \subseteq T
    PROVE  Reach(f, S) \subseteq Reach(f, T)
  BY ReachClosed, ReachLeast

\* Starting from what has been reached reaches nothing new.
THEOREM ReachIdempotent ==
    ASSUME NEW f, NEW S, NEW T, T \cap DOMAIN f \subseteq Reach(f, S)
    PROVE  Reach(f, T) \subseteq Reach(f, S)
  BY ReachClosed, ReachLeast

\* Outside the structure nothing is reached.
THEOREM ReachNothing ==
    ASSUME NEW f, NEW S, S \cap DOMAIN f = {}
    PROVE  Reach(f, S) = {}
  BY ReachLeast

\* What c leads to is c and what its successor leads to.
THEOREM ReachUnfold ==
    ASSUME NEW f, NEW c \in DOMAIN f
    PROVE  Reach(f, {c}) = {c} \cup Reach(f, {f[c]})
<1>1. Reach(f, {c}) \subseteq {c} \cup Reach(f, {f[c]})
  <2> DEFINE C == {c} \cup Reach(f, {f[c]})
  <2>1. \A x \in C \cap DOMAIN f : f[x] \in DOMAIN f => f[x] \in C
    BY ReachClosed
  <2>2. {c} \cap DOMAIN f \subseteq C
    OBVIOUS
  <2> HIDE DEF C
  <2>3. Reach(f, {c}) \subseteq C
    BY <2>1, <2>2, ReachLeast
  <2> QED
    BY <2>3 DEF C
<1>2. {c} \cup Reach(f, {f[c]}) \subseteq Reach(f, {c})
  <2>1. c \in Reach(f, {c}) /\ {f[c]} \cap DOMAIN f \subseteq Reach(f, {c})
    BY ReachClosed
  <2> QED
    BY <2>1, ReachIdempotent
<1> QED
  BY <1>1, <1>2

\* A list is a line: of two cells of it, one leads to the other.
THEOREM ReachLine ==
    ASSUME NEW f, NEW r, NEW c \in Reach(f, {r}), NEW p \in Reach(f, {r})
    PROVE  p \in Reach(f, {c}) \/ c \in Reach(f, {f[p]})
<1> DEFINE C == {x \in DOMAIN f : p \in Reach(f, {x}) \/ x \in Reach(f, {f[p]})}
<1>0. p \in DOMAIN f
  BY ReachClosed
<1>1. {r} \cap DOMAIN f \subseteq C
  OBVIOUS
<1>2. ASSUME NEW x \in C \cap DOMAIN f, f[x] \in DOMAIN f PROVE f[x] \in C
  <2>1. CASE x \in Reach(f, {f[p]})
    BY <1>2, <2>1, ReachClosed
  <2>2. CASE p \in Reach(f, {x}) /\ p # x
    BY <1>2, <2>2, ReachUnfold
  <2>3. CASE p = x
    BY <1>2, <2>3, ReachClosed
  <2> QED
    BY <1>2, <2>1, <2>2, <2>3
<1>3. Reach(f, {r}) \subseteq C
  BY <1>1, <1>2, ReachLeast
<1> QED
  BY <1>3

\* If a number grows along a list then it grows from a cell to every later one.
THEOREM ReachSorted ==
    ASSUME NEW f, NEW k, NEW c, NEW x \in Reach(f, {c}),
           \A y \in Reach(f, {c}) : k[y] \in Int,
           \A y \in Reach(f, {c}) : f[y] \in DOMAIN f => k[y] < k[f[y]]
    PROVE  x = c \/ k[c] < k[x]
<1> DEFINE C == {y \in Reach(f, {c}) : y = c \/ k[c] < k[y]}
<1>1. {c} \cap DOMAIN f \subseteq C
  BY ReachClosed
<1>2. ASSUME NEW y \in C \cap DOMAIN f, f[y] \in DOMAIN f PROVE f[y] \in C
  <2>1. f[y] \in Reach(f, {c}) /\ k[y] < k[f[y]] /\ k[y] \in Int /\ k[f[y]] \in Int
    BY <1>2, ReachClosed
  <2>2. y = c \/ (k[c] < k[y] /\ c \in Reach(f, {c}))
    <3>1. CASE c \in DOMAIN f
      BY <3>1, ReachClosed
    <3>2. CASE c \notin DOMAIN f
      BY <3>2, ReachNothing
    <3> QED
      BY <3>1, <3>2
  <2> QED
    BY <2>1, <2>2
<1>3. Reach(f, {c}) \subseteq C
  BY <1>1, <1>2, ReachLeast
<1> QED
  BY <1>3

\* A write to what cannot be reached changes nothing of what can.
THEOREM ReachOutside ==
    ASSUME NEW f, NEW g, DOMAIN g = DOMAIN f, NEW S, NEW W,
           W \cap Reach(f, S) = {}, \A x \in DOMAIN f \ W : g[x] = f[x]
    PROVE  Reach(g, S) = Reach(f, S)
<1>1. \A x \in Reach(f, S) : x \in DOMAIN f /\ g[x] = f[x]
  BY ReachClosed
<1>2. Reach(g, S) \subseteq Reach(f, S)
  BY <1>1, ReachClosed, ReachLeast
<1>3. ASSUME NEW x \in Reach(g, S) PROVE x \in DOMAIN f /\ g[x] = f[x]
  <2>1. x \in Reach(f, S)
    BY <1>2
  <2> QED
    BY <1>1, <2>1
<1>4. Reach(f, S) \subseteq Reach(g, S)
  BY <1>3, ReachClosed, ReachLeast
<1> QED
  BY <1>2, <1>4

\* A cell n that is put behind p, and leads where p led, is all that is added
\* to a list.
THEOREM ReachSplice ==
    ASSUME NEW f, NEW S, NEW p \in DOMAIN f, NEW n \in DOMAIN f,
           n \notin Reach(f, S), f[n] = f[p]
    PROVE  LET g == [f EXCEPT ![p] = n]
           IN  /\ Reach(g, S) \subseteq Reach(f, S) \cup {n}
               /\ p \in Reach(f, S) => Reach(g, S) = Reach(f, S) \cup {n}
<1> DEFINE g == [f EXCEPT ![p] = n]
<1>1. DOMAIN g = DOMAIN f /\ g[p] = n /\ \A x \in DOMAIN f \ {p} : g[x] = f[x]
  OBVIOUS
<1> HIDE DEF g
<1>2. CASE p \notin Reach(f, S)
  <2> DEFINE W == {p}
  <2>1. W \cap Reach(f, S) = {} /\ \A x \in DOMAIN f \ W : g[x] = f[x]
    BY <1>1, <1>2
  <2> HIDE DEF W
  <2>2. Reach(g, S) = Reach(f, S)
    BY <1>1, <2>1, ReachOutside
  <2> QED
    BY <1>2, <2>2 DEF g
<1>3. CASE p \in Reach(f, S)
  <2> DEFINE C == Reach(f, S) \cup {n}
  <2>1. Reach(g, S) \subseteq C
    <3>1. S \cap DOMAIN g \subseteq C
      BY <1>1, ReachClosed
    <3>2. ASSUME NEW x \in C \cap DOMAIN g, g[x] \in DOMAIN g PROVE g[x] \in C
      <4>1. f[p] \in DOMAIN f => f[p] \in Reach(f, S)
        BY <1>3, ReachClosed
      <4>2. x = p \/ g[x] = f[x]
        BY <1>1
      <4> QED
        BY <1>1, <3>2, <4>1, <4>2, ReachClosed
    <3> HIDE DEF C
    <3> QED
      BY <3>1, <3>2, ReachLeast
  <2>2. p # n
    BY <1>3
  <2> DEFINE D == {x \in Reach(f, S) : x \in Reach(g, S)}
  <2>3. S \cap DOMAIN f \subseteq D
    BY <1>1, ReachClosed
  <2>4. ASSUME NEW x \in D \cap DOMAIN f, f[x] \in DOMAIN f PROVE f[x] \in D
    <3>1. f[x] \in Reach(f, S)
      BY <2>4, ReachClosed
    <3>2. CASE x # p
      BY <1>1, <2>4, <3>1, <3>2, ReachClosed
    <3>3. CASE x = p
      <4>1. n \in Reach(g, S)
        BY <1>1, <2>4, <3>3, ReachClosed
      <4>2. g[n] = f[p]
        BY <1>1, <2>2
      <4> QED
        BY <1>1, <2>4, <3>1, <3>3, <4>1, <4>2, ReachClosed
    <3> QED
      BY <3>2, <3>3
  <2> HIDE DEF D
  <2>5. Reach(f, S) \subseteq D
    BY <2>3, <2>4, ReachLeast
  <2>6. Reach(f, S) \subseteq Reach(g, S)
    BY <2>5 DEF D
  <2>7. n \in Reach(g, S)
    BY <1>1, <1>3, <2>6, ReachClosed
  <2> QED
    BY <2>1, <2>6, <2>7 DEF g
<1> QED
  BY <1>2, <1>3

\* A cell c that p led to, and nothing else of the list, is all that is taken
\* away when p is led past it.
THEOREM ReachSkip ==
    ASSUME NEW f, NEW S, NEW p \in DOMAIN f, NEW c \in DOMAIN f, f[p] = c
    PROVE  LET g == [f EXCEPT ![p] = f[c]]
           IN  /\ Reach(g, S) \subseteq Reach(f, S)
               /\ (/\ p \in Reach(f, S) /\ c \notin S /\ f[c] # c
                   /\ \A x \in Reach(f, S) : f[x] = c => x = p)
                  => Reach(g, S) = Reach(f, S) \ {c}
<1> DEFINE g == [f EXCEPT ![p] = f[c]]
<1>1. DOMAIN g = DOMAIN f /\ g[p] = f[c] /\ \A x \in DOMAIN f \ {p} : g[x] = f[x]
  OBVIOUS
<1> HIDE DEF g
<1>2. Reach(g, S) \subseteq Reach(f, S)
  <2>1. ASSUME NEW x \in Reach(f, S), g[x] \in DOMAIN g PROVE g[x] \in Reach(f, S)
    <3>1. x \in DOMAIN f /\ (x = p \/ g[x] = f[x])
      BY <1>1, ReachClosed
    <3>2. x = p => c \in Reach(f, S)
      BY ReachClosed
    <3> QED
      BY <1>1, <2>1, <3>1, <3>2, ReachClosed
  <2> QED
    BY <1>1, <2>1, ReachClosed, ReachLeast
<1>3. ASSUME p \in Reach(f, S), c \notin S, f[c] # c,
             \A x \in Reach(f, S) : f[x] = c => x = p
      PROVE  Reach(g, S) = Reach(f, S) \ {c}
  <2>1. c \notin Reach(g, S)
    <3> DEFINE C == Reach(g, S) \ {c}
    <3>1. S \cap DOMAIN g \subseteq C
      BY <1>1, <1>3, ReachClosed
    <3>2. ASSUME NEW x \in C \cap DOMAIN g, g[x] \in DOMAIN g PROVE g[x] \in C
      <4>1. g[x] \in Reach(g, S) /\ x \in Reach(f, S)
        BY <1>1, <1>2, <3>2, ReachClosed
      <4>2. g[x] # c
        BY <1>1, <1>3, <4>1
      <4> QED
        BY <4>1, <4>2
    <3> HIDE DEF C
    <3>3. Reach(g, S) \subseteq C
      BY <3>1, <3>2, ReachLeast
    <3> QED
      BY <3>3 DEF C
  <2> DEFINE D == {x \in Reach(f, S) : x \in Reach(g, S) \/ (x = c /\ p \in Reach(g, S))}
  <2>2. S \cap DOMAIN f \subseteq D
    BY <1>1, ReachClosed
  <2>3. ASSUME NEW x \in D \cap DOMAIN f, f[x] \in DOMAIN f PROVE f[x] \in D
    <3>1. f[x] \in Reach(f, S)
      BY <2>3, ReachClosed
    <3>2. CASE x = p
      BY <1>3, <2>3, <3>1, <3>2
    <3>3. CASE x = c /\ x # p
      <4>1. p \in Reach(g, S)
        BY <2>1, <2>3, <3>3
      <4> QED
        BY <1>1, <2>3, <3>1, <3>3, <4>1, ReachClosed
    <3>4. CASE x # c /\ x # p
      BY <1>1, <2>3, <3>1, <3>4, ReachClosed
    <3> QED
      BY <3>2, <3>3, <3>4
  <2> HIDE DEF D
  <2>4. Reach(f, S) \subseteq D
    BY <2>2, <2>3, ReachLeast
  <2> QED
    BY <1>2, <2>1, <2>4 DEF D
<1> QED
  BY <1>2, <1>3 DEF g

=============================================================================
