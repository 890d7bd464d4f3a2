--------------------------- MODULE RootArrayProofs ---------------------------
(***************************************************************************)
(* Proofs about RootArray, for any number of threads, chunks, bits in a    *)
(* word and collections: what is signed has been copied, the counter stays *)
(* within bounds, and a table that fills its words is copied as a whole.   *)
(***************************************************************************)
EXTENDS RootArray, ReachabilityProofs, TLAPS, FiniteSetTheorems

-----------------------------------------------------------------------------
(* Chunks and words.                                                       *)

LEMMA DivMul ==
    ASSUME NEW P \in Nat \ {0}, NEW k \in Nat, NEW r \in 0 .. P - 1
    PROVE  (k * P + r) \div P = k
  OBVIOUS

LEMMA DivBounds ==
    ASSUME NEW P \in Nat \ {0}, NEW n \in Nat
    PROVE  n \div P \in Nat /\ (n \div P) * P <= n /\ n <= (n \div P) * P + P - 1
  OBVIOUS

LEMMA MulMono ==
    ASSUME NEW P \in Nat \ {0}, NEW i \in Nat, NEW j \in Nat, i < j
    PROVE  i * P + P <= j * P
  OBVIOUS

\* The table fills its words of bits: its length is a multiple of
\* 32 * ARR_ENTRIES_PER_BIT.
Exact == \E k \in Nat : Chunks = k * PerWord

\* Every chunk has its bit in one word.
LEMMA ChunkInItsWord ==
    /\ \A c \in Chunk : InWord(c) \in Words /\ c \in Members(InWord(c))
    /\ \A w \in Words : \A c \in Members(w) : InWord(c) = w
    /\ 0 \in Words /\ Words \subseteq Nat
<1> DEFINE last == (Chunks + PerWord - 1) \div PerWord
<1>1. PerWord \in Nat \ {0} /\ Chunks \in Nat \ {0} /\ last \in Nat /\ Words = 0 .. last - 1
      /\ last * PerWord <= Chunks + PerWord - 1
      /\ Chunks + PerWord - 1 <= last * PerWord + PerWord - 1
  <2>1. PerWord \in Nat \ {0} /\ Chunks \in Nat \ {0} /\ Chunks + PerWord - 1 \in Nat
    BY RootArrayAssumption
  <2>. QED
    BY <2>1, DivBounds DEF Words
<1>. HIDE DEF last
<1>2. ASSUME NEW c \in Chunk
      PROVE  InWord(c) \in Words /\ c \in Members(InWord(c))
  <2>1. c \in Nat /\ c < Chunks
    BY <1>1 DEF Chunk
  <2>2. InWord(c) \in Nat /\ InWord(c) * PerWord <= c /\ c <= InWord(c) * PerWord + PerWord - 1
    BY <1>1, <2>1, DivBounds DEF InWord
  <2>. DEFINE w == InWord(c)
  <2>. HIDE DEF w
  <2>3. w \in Nat /\ w * PerWord \in Int /\ last * PerWord \in Int /\ w * PerWord < last * PerWord
    BY <1>1, <2>1, <2>2 DEF w
  <2>4. w < last
    <3>1. CASE last = w
      BY <3>1, <2>3
    <3>2. CASE last < w
      <4>1. last * PerWord + PerWord <= w * PerWord
        BY <1>1, <2>3, <3>2, MulMono
      <4>. QED
        BY <1>1, <2>3, <4>1
    <3>. QED
      BY <1>1, <2>3, <3>1, <3>2
  <2>. QED
    BY <1>1, <2>1, <2>2, <2>4 DEF w, Members
<1>3. ASSUME NEW w \in Words, NEW c \in Members(w)
      PROVE  InWord(c) = w
  <2>1. w \in Nat /\ w * PerWord \in Nat
    BY <1>1
  <2>2. c - w * PerWord \in 0 .. PerWord - 1 /\ c = w * PerWord + (c - w * PerWord)
    BY <1>1, <2>1 DEF Members
  <2>. QED
    BY <1>1, <2>1, <2>2, DivMul DEF InWord
<1>4. last # 0
  BY <1>1
<1>. QED
  BY <1>1, <1>2, <1>3, <1>4

\* The words finishTraceArr goes over are words, and full of chunks.
LEMMA HelpedIsWord ==
    ASSUME NEW w \in Nat, w < HelpedWords
    PROVE  w \in Words /\ Members(w) \subseteq Chunk
<1>1. PerWord \in Nat \ {0} /\ Chunks \in Nat \ {0} /\ HelpedWords \in Nat
      /\ HelpedWords * PerWord <= Chunks
  BY RootArrayAssumption, DivBounds DEF HelpedWords
<1>2. w * PerWord + PerWord <= Chunks /\ w * PerWord \in Nat
  <2>1. w * PerWord + PerWord <= HelpedWords * PerWord
    BY <1>1, MulMono
  <2>2. w * PerWord \in Nat /\ HelpedWords * PerWord \in Nat
    BY <1>1
  <2>. QED
    BY <1>1, <2>1, <2>2
<1>3. Members(w) \subseteq Chunk
  BY <1>1, <1>2 DEF Members, Chunk
<1>4. w * PerWord \in Members(w)
  BY <1>1, <1>2 DEF Members
<1>5. InWord(w * PerWord) = w
  <2>1. w * PerWord = w * PerWord + 0 /\ 0 \in 0 .. PerWord - 1
    BY <1>1, <1>2
  <2>. QED
    BY <1>1, <2>1, DivMul DEF InWord
<1>. QED
  BY <1>3, <1>4, <1>5, ChunkInItsWord

\* In a table that fills its words they are all the words.
LEMMA ExactIsHelped ==
    ASSUME Exact, NEW w \in Words
    PROVE  w < HelpedWords
<1>1. PICK k \in Nat : Chunks = k * PerWord
  BY DEF Exact
<1>2. PerWord \in Nat \ {0}
  BY RootArrayAssumption
<1>3. HelpedWords = k
  <2>1. Chunks = k * PerWord + 0 /\ 0 \in 0 .. PerWord - 1
    BY <1>1, <1>2
  <2>. QED
    BY <1>2, <2>1, DivMul DEF HelpedWords
<1>4. (Chunks + PerWord - 1) \div PerWord = k
  <2>1. Chunks + PerWord - 1 = k * PerWord + (PerWord - 1) /\ PerWord - 1 \in 0 .. PerWord - 1
    BY <1>1, <1>2
  <2>. QED
    BY <1>2, <2>1, DivMul
<1>. QED
  BY <1>3, <1>4 DEF Words

-----------------------------------------------------------------------------
(* The inductive invariant.                                                *)

Labels == {"idle", "clearCounter", "clearBits", "look", "claim", "sign", "word", "help", "done"}

TypeInv ==
    /\ phase \in 0 .. MaxPhase /\ opened \in {phase, phase - 1}
    /\ counter \in [ph : 0 .. phase, n : Nat]
    /\ bits \in [Words -> [ph : 0 .. phase, signed : SUBSET Chunk]]
    /\ \A w \in Words : bits[w].signed \subseteq Members(w)
    /\ localVer \in [Threads -> 0 .. phase]
    /\ at \in [Threads -> Nat]
    /\ val \in [Threads -> SUBSET Chunk]
    /\ copied \in [Chunk -> 0 .. phase]
    /\ pc \in [Threads -> Labels]

\* Where a thread is.
PlaceInv ==
    \A t \in Threads :
        /\ pc[t] = "clearBits" => at[t] \in Words
        /\ pc[t] = "sign" => at[t] \in Chunk
        /\ pc[t] = "help" => at[t] \in Words /\ val[t] \subseteq Members(at[t])

\* A thread past clearArrMarks finds no word of an older phase.
ClearedInv ==
    \A t \in Threads, w \in Words :
        /\ pc[t] = "clearBits" /\ w < at[t] => bits[w].ph >= localVer[t]
        /\ pc[t] \in {"look", "claim", "sign", "word", "help", "done"} => bits[w].ph >= localVer[t]

\* What finishTraceArr has gone over is signed, unless the phase has moved on.
HelpedInv ==
    \A t \in Threads, w \in Words :
        bits[w].ph = localVer[t] =>
            /\ pc[t] \in {"word", "help"} /\ w < at[t] => Members(w) \subseteq bits[w].signed
            /\ pc[t] = "help" /\ w = at[t] => Members(w) \ val[t] \subseteq bits[w].signed
            /\ pc[t] = "done" /\ localVer[t] = phase => Members(w) \subseteq bits[w].signed

Inv == TypeInv /\ PlaceInv /\ SignedIsCopied /\ ClearedInv

-----------------------------------------------------------------------------
LEMMA InitInv == Init => Inv /\ HelpedInv
<1>. SUFFICES ASSUME Init PROVE Inv /\ HelpedInv
  OBVIOUS
<1>. USE DEF Init
<1>1. TypeInv
  BY RootArrayAssumption DEF TypeInv, Labels
<1>2. PlaceInv /\ SignedIsCopied /\ ClearedInv /\ HelpedInv
  BY DEF PlaceInv, SignedIsCopied, ClearedInv, HelpedInv
<1>. QED
  BY <1>1, <1>2 DEF Inv

\* What sign_bit does to the words: one bit more, in a word of the thread's
\* phase, and the copy behind it is recorded.
LEMMA SignStep ==
    ASSUME Inv, NEW t \in Threads, NEW c \in Chunk, Sign(t, c)
    PROVE  /\ bits' \in [Words -> [ph : 0 .. phase, signed : SUBSET Chunk]]
           /\ \A w \in Words : /\ bits'[w].ph = bits[w].ph
                               /\ bits[w].signed \subseteq bits'[w].signed
                               /\ bits'[w].signed \subseteq Members(w)
           /\ copied' \in [Chunk -> 0 .. phase]
           /\ SignedIsCopied'
           /\ bits[InWord(c)].ph = localVer[t] => c \in bits'[InWord(c)].signed
<1> DEFINE w0 == InWord(c)
<1>. HIDE DEF w0
<1>1. w0 \in Words /\ c \in Members(w0)
  BY ChunkInItsWord DEF w0
<1>2. CASE bits[w0].ph = localVer[t] /\ c \notin bits[w0].signed
  <2>1. /\ bits' = [bits EXCEPT ![w0].signed = @ \cup {c}]
        /\ copied' = [copied EXCEPT ![c] = localVer[t]]
    BY <1>2 DEF Sign, w0
  <2>2. /\ bits'[w0].ph = bits[w0].ph /\ bits'[w0].signed = bits[w0].signed \cup {c}
        /\ \A w \in Words \ {w0} : bits'[w] = bits[w]
        /\ bits' \in [Words -> [ph : 0 .. phase, signed : SUBSET Chunk]]
    BY <1>1, <2>1 DEF Inv, TypeInv
  <2>3. copied' \in [Chunk -> 0 .. phase] /\ copied'[c] = localVer[t]
        /\ \A x \in Chunk \ {c} : copied'[x] = copied[x]
    BY <2>1 DEF Inv, TypeInv
  <2>4. \A w \in Words : /\ bits'[w].ph = bits[w].ph
                         /\ bits[w].signed \subseteq bits'[w].signed
                         /\ bits'[w].signed \subseteq Members(w)
    BY <1>1, <2>2 DEF Inv, TypeInv
  <2>5. ASSUME NEW w \in Words, NEW x \in bits'[w].signed
        PROVE  copied'[x] = bits'[w].ph
    <3>1. CASE x = c
      <4>1. w = w0
        BY <2>4, <3>1, ChunkInItsWord DEF w0
      <4>. QED
        BY <1>2, <2>2, <2>3, <3>1, <4>1
    <3>2. CASE x # c
      <4>1. x \in bits[w].signed /\ x \in Chunk
        BY <1>1, <2>2, <3>2 DEF Inv, TypeInv
      <4>2. copied[x] = bits[w].ph
        BY <4>1 DEF Inv, SignedIsCopied
      <4>. QED
        BY <2>3, <2>4, <3>2, <4>1, <4>2
    <3>. QED
      BY <3>1, <3>2
  <2>. QED
    BY <2>2, <2>3, <2>4, <2>5 DEF SignedIsCopied, w0
<1>3. CASE ~ (bits[w0].ph = localVer[t] /\ c \notin bits[w0].signed)
  <2>1. bits' = bits /\ copied' = copied
    BY <1>3 DEF Sign, w0
  <2>2. bits[w0].ph = localVer[t] => c \in bits'[w0].signed
    BY <1>3, <2>1
  <2>. QED
    BY <2>1, <2>2 DEF Inv, TypeInv, SignedIsCopied, w0
<1>. QED
  BY <1>2, <1>3

\* Every step preserves the invariant.
LEMMA NextInv == Inv /\ [Next]_vars => Inv'
<1>. SUFFICES ASSUME Inv, [Next]_vars PROVE Inv'
  OBVIOUS
<1>. USE DEF Inv, Goto
<1>1. ASSUME NEW t \in Threads, Enter(t) PROVE Inv'
  <2>. USE <1>1 DEF Enter
  <2>. USE RootArrayAssumption DEF TypeInv
  <2>1. /\ pc' \in [Threads -> Labels] /\ pc'[t] \in {"idle", "clearCounter"}
        /\ \A u \in Threads \ {t} : pc'[u] = pc[u] /\ localVer'[u] = localVer[u]
        /\ UNCHANGED <<opened, counter, bits, at, val, copied>>
    BY DEF Labels
  <2>2. /\ phase' \in 0 .. MaxPhase /\ phase' \in {phase, phase + 1}
        /\ opened \in {phase', phase' - 1} /\ localVer[t] + 1 \in 0 .. phase'
    <3>1. CASE localVer[t] = phase
      BY <3>1
    <3>2. CASE localVer[t] # phase
      BY <3>2
    <3>. QED
      BY <3>1, <3>2
  <2>3. localVer' \in [Threads -> 0 .. phase']
    BY <2>2
  <2>4. TypeInv'
    <3>1. counter' \in [ph : 0 .. phase', n : Nat]
      BY <2>1, <2>2
    <3>2. bits' \in [Words -> [ph : 0 .. phase', signed : SUBSET Chunk]]
          /\ \A w \in Words : bits'[w].signed \subseteq Members(w)
      <4>1. [Words -> [ph : 0 .. phase, signed : SUBSET Chunk]]
               \subseteq [Words -> [ph : 0 .. phase', signed : SUBSET Chunk]]
        BY <2>2
      <4>. QED
        BY <2>1, <4>1
    <3>3. copied' \in [Chunk -> 0 .. phase']
      BY <2>1, <2>2
    <3>. QED
      BY <2>1, <2>2, <2>3, <3>1, <3>2, <3>3
  <2>5. PlaceInv' /\ SignedIsCopied' /\ ClearedInv'
    BY <2>1 DEF PlaceInv, SignedIsCopied, ClearedInv
  <2>. QED
    BY <2>4, <2>5
<1>2. ASSUME NEW t \in Threads, ClearCounter(t) PROVE Inv'
  <2>. USE <1>2 DEF ClearCounter
  <2>1. TypeInv'
    BY DEF TypeInv, Labels
  <2>2. PlaceInv' /\ SignedIsCopied' /\ ClearedInv'
    <3>1. /\ pc'[t] = "clearBits" /\ at'[t] = 0
          /\ \A u \in Threads \ {t} : pc'[u] = pc[u] /\ at'[u] = at[u]
      BY DEF TypeInv
    <3>. QED
      BY <3>1, ChunkInItsWord DEF PlaceInv, SignedIsCopied, ClearedInv
  <2>. QED
    BY <2>1, <2>2
<1>3. ASSUME NEW t \in Threads, ClearBits(t) PROVE Inv'
  <2> DEFINE w0 == at[t]
  <2>1. w0 \in Words /\ w0 \in Nat
    BY <1>3 DEF ClearBits, PlaceInv, TypeInv
  <2>2. /\ bits' \in [Words -> [ph : 0 .. phase, signed : SUBSET Chunk]]
        /\ \A w \in Words : /\ bits'[w] = bits[w] \/ (w = w0 /\ bits'[w].signed = {})
                            /\ bits'[w].ph >= bits[w].ph
        /\ bits'[w0].ph >= localVer[t]
    BY <1>3, <2>1 DEF ClearBits, TypeInv
  <2>3. /\ at' \in [Threads -> Nat] /\ pc' \in [Threads -> Labels]
        /\ \A u \in Threads \ {t} : pc'[u] = pc[u] /\ at'[u] = at[u]
        /\ \/ at'[t] = w0 + 1 /\ w0 + 1 \in Words /\ pc'[t] = "clearBits"
           \/ at'[t] = w0 /\ w0 + 1 \notin Words /\ pc'[t] = "look"
        /\ UNCHANGED <<phase, opened, counter, localVer, val, copied>>
    BY <1>3, <2>1 DEF ClearBits, TypeInv, Labels
  <2>4. TypeInv'
    BY <2>2, <2>3 DEF TypeInv
  <2>5. PlaceInv'
    BY <2>3 DEF PlaceInv
  <2>6. SignedIsCopied'
    BY <2>2, <2>3 DEF SignedIsCopied
  <2>7. ASSUME NEW u \in Threads, NEW w \in Words
        PROVE  /\ pc'[u] = "clearBits" /\ w < at'[u] => bits'[w].ph >= localVer'[u]
               /\ pc'[u] \in {"look", "claim", "sign", "word", "help", "done"}
                    => bits'[w].ph >= localVer'[u]
    <3>1. bits'[w].ph \in Nat /\ bits[w].ph \in Nat /\ localVer[u] \in Nat /\ w \in Nat
          /\ bits'[w].ph >= bits[w].ph /\ localVer'[u] = localVer[u]
      BY <2>2, <2>3, ChunkInItsWord DEF TypeInv
    <3>2. CASE u # t
      BY <2>3, <3>1, <3>2 DEF ClearedInv
    <3>3. CASE u = t
      <4>1. w < w0 => bits[w].ph >= localVer[t]
        BY <1>3 DEF ClearedInv, ClearBits
      <4>2. w <= w0 => bits'[w].ph >= localVer[t]
        BY <2>1, <2>2, <3>1, <3>3, <4>1
      <4>3. w0 + 1 \notin Words => w <= w0
        BY <2>1, <3>1, RootArrayAssumption DEF Words
      <4>. QED
        BY <2>1, <2>3, <3>1, <3>3, <4>2, <4>3
    <3>. QED
      BY <3>2, <3>3
  <2>. QED
    BY <2>4, <2>5, <2>6, <2>7 DEF ClearedInv
<1>4. ASSUME NEW t \in Threads, LookAtCounter(t) PROVE Inv'
  <2>1. /\ at' \in [Threads -> Nat] /\ pc' \in [Threads -> Labels]
        /\ \A u \in Threads \ {t} : pc'[u] = pc[u] /\ at'[u] = at[u]
        /\ pc[t] = "look" /\ pc'[t] \in {"claim", "word"}
        /\ UNCHANGED <<phase, opened, counter, bits, localVer, val, copied>>
    BY <1>4 DEF LookAtCounter, Given, TypeInv, Labels
  <2>. QED
    BY <2>1 DEF TypeInv, PlaceInv, SignedIsCopied, ClearedInv
<1>5. ASSUME NEW t \in Threads, ClaimChunk(t) PROVE Inv'
  <2> DEFINE given == counter.n < Chunks /\ counter.ph = localVer[t]
  <2>1. /\ at' \in [Threads -> Nat] /\ pc' \in [Threads -> Labels]
        /\ \A u \in Threads \ {t} : pc'[u] = pc[u] /\ at'[u] = at[u]
        /\ pc[t] = "claim" /\ pc'[t] \in {"sign", "word"}
        /\ pc'[t] = "sign" => at'[t] \in Chunk
        /\ UNCHANGED <<phase, opened, bits, localVer, val, copied>>
    <3>1. /\ at' = [at EXCEPT ![t] = IF given THEN counter.n ELSE 0]
          /\ pc' = [pc EXCEPT ![t] = IF given THEN "sign" ELSE "word"]
          /\ pc[t] = "claim"
          /\ UNCHANGED <<phase, opened, bits, localVer, val, copied>>
      BY <1>5 DEF ClaimChunk, Given
    <3>2. counter.n \in Nat /\ (given => counter.n \in Chunk)
      BY RootArrayAssumption DEF TypeInv, Chunk
    <3>. HIDE DEF given
    <3>. QED
      BY <3>1, <3>2 DEF TypeInv, Labels
  <2>2. counter' \in [ph : 0 .. phase, n : Nat]
    BY <1>5 DEF ClaimChunk, TypeInv
  <2>. QED
    BY <2>1, <2>2 DEF TypeInv, PlaceInv, SignedIsCopied, ClearedInv
<1>6. ASSUME NEW t \in Threads, SignClaimed(t) PROVE Inv'
  <2>1. /\ pc[t] = "sign" /\ at[t] \in Chunk /\ Sign(t, at[t])
        /\ pc' \in [Threads -> Labels] /\ pc'[t] = "look"
        /\ \A u \in Threads \ {t} : pc'[u] = pc[u]
        /\ UNCHANGED <<phase, opened, counter, localVer, at, val>>
    BY <1>6 DEF SignClaimed, TypeInv, PlaceInv, Labels
  <2>2. /\ bits' \in [Words -> [ph : 0 .. phase, signed : SUBSET Chunk]]
        /\ \A w \in Words : bits'[w].ph = bits[w].ph /\ bits'[w].signed \subseteq Members(w)
        /\ copied' \in [Chunk -> 0 .. phase] /\ SignedIsCopied'
    BY <2>1, SignStep
  <2>. QED
    BY <2>1, <2>2 DEF TypeInv, PlaceInv, ClearedInv
<1>7. ASSUME NEW t \in Threads, ReadWord(t) PROVE Inv'
  <2>1. /\ pc[t] = "word" /\ pc' \in [Threads -> Labels] /\ pc'[t] \in {"help", "done"}
        /\ \A u \in Threads \ {t} : pc'[u] = pc[u] /\ val'[u] = val[u]
        /\ UNCHANGED <<phase, opened, counter, bits, localVer, at, copied>>
    BY <1>7 DEF ReadWord, TypeInv, Labels
  <2>2. /\ val' \in [Threads -> SUBSET Chunk]
        /\ pc'[t] = "help" => at[t] \in Words /\ val'[t] \subseteq Members(at[t])
    BY <1>7, HelpedIsWord DEF ReadWord, TypeInv
  <2>. QED
    BY <2>1, <2>2 DEF TypeInv, PlaceInv, SignedIsCopied, ClearedInv
<1>8. ASSUME NEW t \in Threads, HelpChunk(t) PROVE Inv'
  <2>1. CASE val[t] = {}
    <3>1. /\ pc[t] = "help" /\ pc' \in [Threads -> Labels] /\ pc'[t] = "word"
          /\ at' \in [Threads -> Nat]
          /\ \A u \in Threads \ {t} : pc'[u] = pc[u] /\ at'[u] = at[u]
          /\ UNCHANGED <<phase, opened, counter, bits, localVer, val, copied>>
      BY <1>8, <2>1 DEF HelpChunk, TypeInv, Labels
    <3>. QED
      BY <3>1 DEF TypeInv, PlaceInv, SignedIsCopied, ClearedInv
  <2>2. CASE val[t] # {}
    <3>1. PICK c \in val[t] : Sign(t, c) /\ val' = [val EXCEPT ![t] = @ \ {c}]
      <4> DEFINE c == CHOOSE x \in val[t] : \A y \in val[t] : x <= y
      <4>1. val[t] \in SUBSET Nat /\ val[t] # {}
        BY <2>2 DEF TypeInv, Chunk
      <4>2. c \in val[t]
        BY <4>1, LeastExists
      <4>3. Sign(t, c) /\ val' = [val EXCEPT ![t] = @ \ {c}]
        BY <1>8, <2>2 DEF HelpChunk
      <4>. QED
        BY <4>2, <4>3
    <3>2. c \in Chunk /\ val' \in [Threads -> SUBSET Chunk]
          /\ \A u \in Threads : val'[u] \subseteq val[u]
          /\ UNCHANGED <<phase, opened, counter, localVer, at, pc>>
      BY <1>8, <2>2, <3>1 DEF HelpChunk, TypeInv
    <3>3. /\ bits' \in [Words -> [ph : 0 .. phase, signed : SUBSET Chunk]]
          /\ \A w \in Words : bits'[w].ph = bits[w].ph /\ bits'[w].signed \subseteq Members(w)
          /\ copied' \in [Chunk -> 0 .. phase] /\ SignedIsCopied'
      BY <3>1, <3>2, SignStep
    <3>. QED
      BY <3>2, <3>3 DEF TypeInv, PlaceInv, ClearedInv
  <2>. QED
    BY <2>1, <2>2
<1>9. ASSUME NEW t \in Threads, Open(t) PROVE Inv'
  <2>1. /\ opened' \in {phase, phase - 1} /\ pc' \in [Threads -> Labels] /\ pc'[t] = "idle"
        /\ \A u \in Threads \ {t} : pc'[u] = pc[u]
        /\ UNCHANGED <<phase, counter, bits, localVer, at, val, copied>>
    BY <1>9 DEF Open, TypeInv, Labels
  <2>. QED
    BY <2>1 DEF TypeInv, PlaceInv, SignedIsCopied, ClearedInv
<1>10. ASSUME UNCHANGED vars PROVE Inv'
  BY <1>10 DEF vars, TypeInv, PlaceInv, SignedIsCopied, ClearedInv
<1>. QED
  BY <1>1, <1>2, <1>3, <1>4, <1>5, <1>6, <1>7, <1>8, <1>9, <1>10 DEF Next, Tracer, AtBound

-----------------------------------------------------------------------------
(* The counter of claims.                                                  *)

Claimers == {t \in Threads : pc[t] = "claim"}

\* A thread that is about to claim has been seen on a counter within bounds.
CounterInv == counter.n + Cardinality(Claimers) <= Chunks - 1 + Cardinality(Threads)

LEMMA ClaimersFinite ==
    /\ IsFiniteSet(Claimers) /\ Cardinality(Claimers) \in Nat
    /\ IsFiniteSet(Threads) /\ Cardinality(Threads) \in Nat
    /\ Cardinality(Claimers) <= Cardinality(Threads)
<1>1. IsFiniteSet(Threads) /\ Claimers \subseteq Threads
  BY RootArrayAssumption DEF Claimers
<1>. QED
  BY <1>1, FS_Subset, FS_CardinalityType

LEMMA InitCounter == Init => CounterInv
<1>. SUFFICES ASSUME Init PROVE CounterInv
  OBVIOUS
<1>1. counter.n = 0 /\ Chunks \in Nat \ {0}
  BY RootArrayAssumption DEF Init
<1>. QED
  BY <1>1, ClaimersFinite DEF CounterInv

LEMMA NextCounter == Inv /\ CounterInv /\ [Next]_vars => CounterInv'
<1>. SUFFICES ASSUME Inv, CounterInv, [Next]_vars PROVE CounterInv'
  OBVIOUS
<1> DEFINE k == Cardinality(Claimers)
           m == Cardinality(Threads)
<1>1. /\ Chunks \in Nat \ {0} /\ counter.n \in Nat /\ counter.n + k <= Chunks - 1 + m
      /\ k \in Nat /\ m \in Nat /\ IsFiniteSet(Claimers)
      /\ Cardinality(Claimers') \in Nat /\ Cardinality(Claimers') <= m
  <2>1. Claimers' \subseteq Threads /\ IsFiniteSet(Threads)
    BY RootArrayAssumption DEF Claimers
  <2>2. Cardinality(Claimers') \in Nat /\ Cardinality(Claimers') <= m
    BY <2>1, FS_Subset, FS_CardinalityType
  <2>3. Chunks \in Nat \ {0} /\ counter.n \in Nat
    BY RootArrayAssumption DEF Inv, TypeInv
  <2>. QED
    BY <2>2, <2>3, ClaimersFinite DEF CounterInv
\* Nobody comes to the claim, and the counter stays or is cleared.
<1>2. CASE Claimers' \subseteq Claimers /\ counter'.n \in {0, counter.n}
  <2>1. Cardinality(Claimers') <= k
    BY <1>1, <1>2, FS_Subset
  <2>. HIDE DEF k, m
  <2>. QED
    BY <1>1, <1>2, <2>1 DEF CounterInv, m
<1>3. ASSUME NEW t \in Threads, LookAtCounter(t) PROVE CounterInv'
  <2>1. counter' = counter
    BY <1>3 DEF LookAtCounter
  <2>2. CASE counter.n < Chunks
    BY <1>1, <2>1, <2>2 DEF CounterInv
  <2>3. CASE ~ (counter.n < Chunks)
    <3>1. pc' = [pc EXCEPT ![t] = "word"]
      BY <1>3, <2>3 DEF LookAtCounter, Goto
    <3>2. Claimers' \subseteq Claimers
      BY <3>1 DEF Claimers, Inv, TypeInv
    <3>. QED
      BY <1>2, <2>1, <3>2
  <2>. QED
    BY <2>2, <2>3
<1>4. ASSUME NEW t \in Threads, ClaimChunk(t) PROVE CounterInv'
  <2>1. counter'.n = counter.n + 1
    BY <1>4 DEF ClaimChunk, Inv, TypeInv
  <2>2. t \in Claimers /\ Claimers' = Claimers \ {t}
    <3>1. PICK l \in {"sign", "word"} : pc' = [pc EXCEPT ![t] = l]
      BY <1>4 DEF ClaimChunk, Goto
    <3>2. pc[t] = "claim"
      BY <1>4 DEF ClaimChunk
    <3>. QED
      BY <3>1, <3>2 DEF Claimers, Inv, TypeInv
  <2>3. Cardinality(Claimers') = k - 1
    BY <1>1, <2>2, FS_RemoveElement
  <2>. HIDE DEF k, m
  <2>. QED
    BY <1>1, <2>1, <2>3 DEF CounterInv, m
\* Every other step is of the first kind.
<1>5. ASSUME NEW t \in Threads, NEW l \in Labels \ {"claim"}, pc' = [pc EXCEPT ![t] = l]
      PROVE  Claimers' \subseteq Claimers
  BY <1>5 DEF Claimers, Inv, TypeInv
<1>6. ASSUME NEW t \in Threads, Enter(t) PROVE CounterInv'
  <2>1. counter' = counter /\ \E l \in Labels \ {"claim"} : pc' = [pc EXCEPT ![t] = l]
    BY <1>6 DEF Enter, Goto, Labels
  <2>. QED
    BY <1>2, <1>5, <2>1
<1>7. ASSUME NEW t \in Threads, ClearCounter(t) PROVE CounterInv'
  <2>1. counter'.n \in {0, counter.n} /\ pc' = [pc EXCEPT ![t] = "clearBits"]
    BY <1>7 DEF ClearCounter, Goto
  <2>. QED
    BY <1>2, <1>5, <2>1 DEF Labels
<1>8. ASSUME NEW t \in Threads,
             ClearBits(t) \/ SignClaimed(t) \/ ReadWord(t) \/ HelpChunk(t) \/ Open(t)
      PROVE  CounterInv'
  <2>1. counter' = counter
    BY <1>8 DEF ClearBits, SignClaimed, ReadWord, HelpChunk, Open
  <2>2. pc' = pc \/ \E l \in Labels \ {"claim"} : pc' = [pc EXCEPT ![t] = l]
    BY <1>8 DEF ClearBits, SignClaimed, ReadWord, HelpChunk, Open, Goto, Labels
  <2>3. pc' = pc => Claimers' = Claimers
    BY DEF Claimers
  <2>. QED
    BY <1>2, <1>5, <2>1, <2>2, <2>3
<1>9. ASSUME UNCHANGED vars PROVE CounterInv'
  BY <1>9, <1>2 DEF vars, Claimers
<1>. QED
  BY <1>3, <1>4, <1>6, <1>7, <1>8, <1>9 DEF Next, Tracer, AtBound

-----------------------------------------------------------------------------
(* The words gone over.                                                    *)

LEMMA NextHelped == Exact /\ Inv /\ HelpedInv /\ [Next]_vars => HelpedInv'
<1>. SUFFICES ASSUME Exact, Inv, HelpedInv, [Next]_vars PROVE HelpedInv'
  OBVIOUS
<1>. USE DEF Inv
<1>0. \A w \in Words : bits[w].ph \in Nat /\ w \in Nat
  BY ChunkInItsWord DEF TypeInv
\* A thread that is not in the middle of the words, or that is left alone
\* together with what it has gone over.
<1>1. ASSUME NEW t \in Threads, UNCHANGED <<bits, localVer, val>>, phase' = phase,
             \A u \in Threads \ {t} : pc'[u] = pc[u] /\ at'[u] = at[u],
             \/ pc'[t] \notin {"word", "help", "done"}
             \/ pc'[t] = "word" /\ at'[t] = 0
      PROVE  HelpedInv'
  BY <1>0, <1>1 DEF HelpedInv
<1>2. ASSUME NEW t \in Threads, Enter(t) PROVE HelpedInv'
  <2>1. /\ pc'[t] \in {"idle", "clearCounter"}
        /\ \A u \in Threads \ {t} : pc'[u] = pc[u] /\ localVer'[u] = localVer[u]
        /\ phase' = phase \/ phase' = phase + 1
        /\ UNCHANGED <<bits, at, val>>
    BY <1>2 DEF Enter, Goto, TypeInv
  <2>2. \A u \in Threads : localVer[u] = phase' => localVer[u] = phase
    BY <2>1, RootArrayAssumption DEF TypeInv
  <2>. QED
    BY <2>1, <2>2 DEF HelpedInv
<1>3. ASSUME NEW t \in Threads, ClearCounter(t) PROVE HelpedInv'
  <2>1. /\ pc'[t] = "clearBits" /\ \A u \in Threads \ {t} : pc'[u] = pc[u] /\ at'[u] = at[u]
        /\ UNCHANGED <<phase, bits, localVer, val>>
    BY <1>3 DEF ClearCounter, Goto, TypeInv
  <2>. QED
    BY <1>1, <2>1
<1>4. ASSUME NEW t \in Threads, ClearBits(t) PROVE HelpedInv'
  <2> DEFINE w0 == at[t]
  <2>1. w0 \in Words
    BY <1>4 DEF ClearBits, PlaceInv
  <2>2. \A w \in Words : bits'[w] = bits[w] \/ (bits'[w].ph = localVer[t] /\ bits[w].ph < localVer[t])
    BY <1>4, <2>1 DEF ClearBits, TypeInv
  <2>3. /\ pc'[t] \in {"clearBits", "look"}
        /\ \A u \in Threads \ {t} : pc'[u] = pc[u] /\ at'[u] = at[u]
        /\ UNCHANGED <<phase, localVer, val>>
    BY <1>4 DEF ClearBits, Goto, TypeInv
  <2>4. ASSUME NEW u \in Threads, NEW w \in Words, bits'[w].ph = localVer[u],
               pc'[u] \in {"word", "help", "done"}
        PROVE  bits'[w] = bits[w] /\ pc'[u] = pc[u] /\ at'[u] = at[u]
    <3>1. u # t /\ pc[u] \in {"word", "help", "done"}
      BY <2>3, <2>4
    <3>2. bits[w].ph >= localVer[u]
      BY <3>1 DEF ClearedInv
    <3>3. localVer[t] \in Nat /\ localVer[u] \in Nat
      BY DEF TypeInv
    <3>. QED
      BY <1>0, <2>2, <2>3, <2>4, <3>1, <3>2, <3>3
  <2>. QED
    BY <2>3, <2>4 DEF HelpedInv
<1>5. ASSUME NEW t \in Threads, LookAtCounter(t) PROVE HelpedInv'
  <2>1. /\ pc'[t] = "claim" \/ (pc'[t] = "word" /\ at'[t] = 0)
        /\ \A u \in Threads \ {t} : pc'[u] = pc[u] /\ at'[u] = at[u]
        /\ UNCHANGED <<phase, bits, localVer, val>>
    BY <1>5 DEF LookAtCounter, Given, Goto, TypeInv
  <2>. QED
    BY <1>1, <2>1
<1>6. ASSUME NEW t \in Threads, ClaimChunk(t) PROVE HelpedInv'
  <2>1. /\ pc'[t] = "sign" \/ (pc'[t] = "word" /\ at'[t] = 0)
        /\ \A u \in Threads \ {t} : pc'[u] = pc[u] /\ at'[u] = at[u]
        /\ UNCHANGED <<phase, bits, localVer, val>>
    BY <1>6 DEF ClaimChunk, Given, Goto, TypeInv
  <2>. QED
    BY <1>1, <2>1
<1>7. ASSUME NEW t \in Threads, SignClaimed(t) PROVE HelpedInv'
  <2>1. /\ at[t] \in Chunk /\ Sign(t, at[t]) /\ pc'[t] = "look"
        /\ \A u \in Threads \ {t} : pc'[u] = pc[u]
        /\ UNCHANGED <<phase, localVer, at, val>>
    BY <1>7 DEF SignClaimed, Goto, TypeInv, PlaceInv
  <2>2. \A w \in Words : bits'[w].ph = bits[w].ph /\ bits[w].signed \subseteq bits'[w].signed
    BY <2>1, SignStep
  <2>. QED
    BY <2>1, <2>2 DEF HelpedInv
<1>8. ASSUME NEW t \in Threads, ReadWord(t) PROVE HelpedInv'
  <2>1. /\ pc[t] = "word" /\ pc'[t] \in {"help", "done"}
        /\ \A u \in Threads \ {t} : pc'[u] = pc[u] /\ val'[u] = val[u]
        /\ UNCHANGED <<phase, bits, localVer, at>>
    BY <1>8 DEF ReadWord, Goto, TypeInv
  <2>2. pc'[t] = "help" => val'[t] = Members(at[t]) \ bits[at[t]].signed
    BY <1>8, <2>1 DEF ReadWord, Goto, TypeInv
  <2>3. ASSUME pc'[t] = "done", localVer[t] = phase, NEW w \in Words, bits[w].ph = localVer[t]
        PROVE  Members(w) \subseteq bits[w].signed
    <3>1. ~ (at[t] < HelpedWords /\ bits[at[t]].ph = localVer[t])
      BY <1>8, <2>3 DEF ReadWord, Goto, TypeInv
    <3>2. at[t] \in Nat /\ HelpedWords \in Nat
      BY RootArrayAssumption, DivBounds DEF TypeInv, HelpedWords
    <3>3. CASE at[t] < HelpedWords
      <4>1. at[t] \in Words /\ bits[at[t]].ph # localVer[t]
        BY <3>1, <3>2, <3>3, HelpedIsWord
      <4>2. bits[at[t]].ph >= localVer[t] /\ bits[at[t]].ph \in 0 .. phase
        BY <2>1, <4>1 DEF ClearedInv, TypeInv
      <4>. QED
        BY <2>3, <4>1, <4>2, RootArrayAssumption DEF TypeInv
    <3>4. CASE ~ (at[t] < HelpedWords)
      <4>1. w < at[t]
        BY <1>0, <3>2, <3>4, ExactIsHelped
      <4>. QED
        BY <2>1, <2>3, <4>1 DEF HelpedInv
    <3>. QED
      BY <3>3, <3>4
  <2>4. ASSUME NEW w \in Words, bits[w].ph = localVer[t]
        PROVE  /\ pc'[t] = "help" /\ w < at[t] => Members(w) \subseteq bits[w].signed
               /\ pc'[t] = "help" /\ w = at[t] => Members(w) \ val'[t] \subseteq bits[w].signed
    BY <2>1, <2>2, <2>4 DEF HelpedInv
  <2>. QED
    BY <2>1, <2>3, <2>4 DEF HelpedInv
<1>9. ASSUME NEW t \in Threads, HelpChunk(t) PROVE HelpedInv'
  <2>1. at[t] \in Words /\ at[t] \in Nat /\ val[t] \subseteq Members(at[t]) /\ pc[t] = "help"
    BY <1>9 DEF HelpChunk, PlaceInv, TypeInv
  <2>2. CASE val[t] = {}
    <3>1. /\ pc'[t] = "word" /\ at'[t] = at[t] + 1
          /\ \A u \in Threads \ {t} : pc'[u] = pc[u] /\ at'[u] = at[u]
          /\ UNCHANGED <<phase, bits, localVer, val>>
      BY <1>9, <2>2 DEF HelpChunk, Goto, TypeInv
    <3>2. ASSUME NEW w \in Words, bits[w].ph = localVer[t], w < at'[t]
          PROVE  Members(w) \subseteq bits[w].signed
      <4>1. w < at[t] \/ w = at[t]
        BY <1>0, <2>1, <3>1, <3>2
      <4>2. Members(w) \ {} = Members(w)
        OBVIOUS
      <4>. QED
        BY <2>1, <2>2, <3>2, <4>1, <4>2 DEF HelpedInv
    <3>. QED
      BY <3>1, <3>2 DEF HelpedInv
  <2>3. CASE val[t] # {}
    <3>0. phase' = phase /\ localVer' = localVer /\ at' = at /\ pc' = pc
      BY <1>9, <2>3 DEF HelpChunk
    <3>1. PICK c \in val[t] : Sign(t, c) /\ val' = [val EXCEPT ![t] = @ \ {c}]
      <4> DEFINE c == CHOOSE x \in val[t] : \A y \in val[t] : x <= y
      <4>1. val[t] \in SUBSET Nat /\ val[t] # {}
        BY <2>3 DEF TypeInv, Chunk
      <4>2. c \in val[t]
        BY <4>1, LeastExists
      <4>3. Sign(t, c) /\ val' = [val EXCEPT ![t] = @ \ {c}]
        BY <1>9, <2>3 DEF HelpChunk
      <4>. QED
        BY <4>2, <4>3
    <3>2. c \in Chunk /\ val'[t] = val[t] \ {c} /\ InWord(c) = at[t]
          /\ \A u \in Threads \ {t} : val'[u] = val[u]
      BY <1>9, <2>1, <2>3, <3>1, ChunkInItsWord DEF HelpChunk, TypeInv
    <3>3. /\ \A w \in Words : bits'[w].ph = bits[w].ph /\ bits[w].signed \subseteq bits'[w].signed
          /\ bits[at[t]].ph = localVer[t] => c \in bits'[at[t]].signed
      BY <3>1, <3>2, SignStep
    <3>4. ASSUME NEW w \in Words, bits'[w].ph = localVer[t], w = at[t]
          PROVE  Members(w) \ val'[t] \subseteq bits'[w].signed
      <4>1. Members(w) \ val[t] \subseteq bits[w].signed
        BY <2>1, <3>3, <3>4 DEF HelpedInv
      <4>. QED
        BY <3>2, <3>3, <3>4, <4>1
    <3>5. ASSUME NEW w \in Words, bits'[w].ph = localVer[t], w < at[t]
          PROVE  Members(w) \subseteq bits'[w].signed
      BY <2>1, <3>3, <3>5 DEF HelpedInv
    <3>6. ASSUME NEW u \in Threads \ {t}, NEW w \in Words, bits'[w].ph = localVer[u]
          PROVE  /\ pc[u] \in {"word", "help"} /\ w < at[u] => Members(w) \subseteq bits'[w].signed
                 /\ pc[u] = "help" /\ w = at[u] => Members(w) \ val'[u] \subseteq bits'[w].signed
                 /\ pc[u] = "done" /\ localVer[u] = phase => Members(w) \subseteq bits'[w].signed
      <4>1. bits[w].ph = localVer[u] /\ bits[w].signed \subseteq bits'[w].signed /\ val'[u] = val[u]
        BY <3>2, <3>3, <3>6
      <4>. QED
        BY <4>1 DEF HelpedInv
    <3> DEFINE Gone(u, w) ==
                 /\ pc[u] \in {"word", "help"} /\ w < at[u] => Members(w) \subseteq bits'[w].signed
                 /\ pc[u] = "help" /\ w = at[u] => Members(w) \ val'[u] \subseteq bits'[w].signed
                 /\ pc[u] = "done" /\ localVer[u] = phase => Members(w) \subseteq bits'[w].signed
    <3>7. ASSUME NEW w \in Words, bits'[w].ph = localVer[t]
          PROVE  Gone(t, w)
      BY <2>1, <3>4, <3>5, <3>7
    <3>8. \A u \in Threads, w \in Words : bits'[w].ph = localVer[u] => Gone(u, w)
      <4>. HIDE DEF Gone
      <4>1. ASSUME NEW u \in Threads \ {t}, NEW w \in Words, bits'[w].ph = localVer[u]
            PROVE  Gone(u, w)
        BY <3>6, <4>1 DEF Gone
      <4>. QED
        BY <3>7, <4>1
    <3>9. ASSUME NEW u \in Threads, NEW w \in Words, bits'[w].ph = localVer'[u]
          PROVE  /\ pc'[u] \in {"word", "help"} /\ w < at'[u] => Members(w) \subseteq bits'[w].signed
                 /\ pc'[u] = "help" /\ w = at'[u] => Members(w) \ val'[u] \subseteq bits'[w].signed
                 /\ pc'[u] = "done" /\ localVer'[u] = phase' => Members(w) \subseteq bits'[w].signed
      BY <3>0, <3>8, <3>9
    <3>. QED
      BY <3>9 DEF HelpedInv
  <2>. QED
    BY <2>2, <2>3
<1>10. ASSUME NEW t \in Threads, Open(t) PROVE HelpedInv'
  <2>1. /\ pc'[t] = "idle" /\ \A u \in Threads \ {t} : pc'[u] = pc[u]
        /\ UNCHANGED <<phase, bits, localVer, at, val>>
    BY <1>10 DEF Open, Goto, TypeInv
  <2>. QED
    BY <1>1, <2>1
<1>11. ASSUME UNCHANGED vars PROVE HelpedInv'
  BY <1>11 DEF vars, HelpedInv
<1>. QED
  BY <1>2, <1>3, <1>4, <1>5, <1>6, <1>7, <1>8, <1>9, <1>10, <1>11 DEF Next, Tracer, AtBound

-----------------------------------------------------------------------------
\* The counter is run past the end at most once by every thread, however
\* many threads claim at a time and collections overlap (get_arr_chunk): it
\* does not run into the phase in the upper half of its word as long as
\* chunks and threads fit in the lower half.
THEOREM TypeCorrect == Spec => []TypeOK
<1>1. Init => Inv /\ CounterInv
  BY InitInv, InitCounter
<1>2. Inv /\ CounterInv /\ [Next]_vars => Inv' /\ CounterInv'
  BY NextInv, NextCounter
<1>3. Inv /\ CounterInv => TypeOK
  <2>. SUFFICES ASSUME Inv, CounterInv PROVE TypeOK
    OBVIOUS
  <2>1. counter.n \in 0 .. Chunks - 1 + Cardinality(Threads)
    <3>1. counter.n \in Nat /\ Chunks \in Nat
      BY RootArrayAssumption DEF Inv, TypeInv
    <3>. QED
      BY <3>1, ClaimersFinite DEF CounterInv
  <2>. QED
    BY <2>1 DEF Inv, TypeInv, TypeOK
<1>. QED
  BY <1>1, <1>2, <1>3, PTL DEF Spec

\* A chunk signed for a phase has been copied by a thread of that phase
\* (sign_bit), for any number of threads and chunks, also in a table that
\* does not fill its words.
THEOREM SignedCopied == Spec => []SignedIsCopied
<1>1. Inv => SignedIsCopied
  BY DEF Inv
<1>. QED
  BY <1>1, InitInv, NextInv, PTL DEF Spec

\* In a table that fills its words of bits no phase is opened for sweeping
\* before all of it has been copied (finishTraceArr, resetSweepCounter).
THEOREM ArrayCopied == Exact /\ Spec => WholeArrayCopied
<1>1. ASSUME Inv, HelpedInv, [Next]_vars, opened' # opened, NEW c \in Chunk
      PROVE  copied[c] = opened'
  <2>1. PICK t \in Threads : Open(t)
    <3>1. UNCHANGED vars => opened' = opened
      BY DEF vars
    <3>2. \A t \in Threads :
            Enter(t) \/ ClearCounter(t) \/ ClearBits(t) \/ LookAtCounter(t) \/ ClaimChunk(t)
              \/ SignClaimed(t) \/ ReadWord(t) \/ HelpChunk(t) => opened' = opened
      BY DEF Enter, ClearCounter, ClearBits, LookAtCounter, ClaimChunk, SignClaimed, ReadWord,
             HelpChunk
    <3>. QED
      BY <1>1, <3>1, <3>2 DEF Next, Tracer, AtBound
  <2>2. pc[t] = "done" /\ opened < localVer[t] /\ opened' = localVer[t]
    BY <1>1, <2>1 DEF Open
  <2>3. localVer[t] = phase
    BY <1>1, <2>2, RootArrayAssumption DEF Inv, TypeInv
  <2> DEFINE w == InWord(c)
  <2>. HIDE DEF w
  <2>4. w \in Words /\ c \in Members(w)
    BY ChunkInItsWord DEF w
  <2>5. bits[w].ph = phase
    <3>1. bits[w].ph >= localVer[t] /\ bits[w].ph \in 0 .. phase
      BY <1>1, <2>2, <2>4 DEF Inv, ClearedInv, TypeInv
    <3>. QED
      BY <1>1, <2>3, <3>1 DEF Inv, TypeInv
  <2>6. c \in bits[w].signed
    BY <1>1, <2>2, <2>3, <2>4, <2>5 DEF HelpedInv
  <2>. QED
    BY <1>1, <2>2, <2>3, <2>4, <2>5, <2>6 DEF Inv, SignedIsCopied
<1>2. Inv /\ HelpedInv /\ [Next]_vars => [opened' # opened => \A c \in Chunk : copied[c] = opened']_vars
  BY <1>1
<1>3. Exact /\ Inv /\ HelpedInv /\ [Next]_vars => Inv' /\ HelpedInv'
  BY NextInv, NextHelped
<1>4. CASE Exact
  <2>1. Inv /\ HelpedInv /\ [Next]_vars => Inv' /\ HelpedInv'
    BY <1>3, <1>4
  <2>. QED
    BY <2>1, <1>2, InitInv, PTL DEF Spec, WholeArrayCopied
<1>. QED
  BY <1>4
=============================================================================
