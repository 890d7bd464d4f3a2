----------------------------- MODULE RetireProofs -----------------------------
(***************************************************************************)
(* The allocator with manual retirement, for every number of threads,      *)
(* objects, caches and phase changes.                                      *)
(*                                                                         *)
(* Structure says what is true of the places of the threads and their      *)
(* calls of Recycle (Control), of the versions (Versions), of the stamps   *)
(* (Stamps), of the stacks of caches and what threads have read of them    *)
(* (CacheInv) and of the objects in the caches (Lengths, OneHome,          *)
(* NoneTwice); every one of them has a lemma that a step keeps it.         *)
(* Hazards, which builds on Structure, says what the dirty byte and the    *)
(* hazard pointers are for; the refinement of Retirement follows from it.  *)
(***************************************************************************)
EXTENDS Retire, ReachabilityProofs, SequenceTheorems, TLAPS

\* The places of a thread: in the list, in palloc, in pfree, and in a collection.
ListPC == {"walk", "publish", "fence", "restart", "cas", "finish", "retire"}
PallocPC == {"popHead", "followHead", "headCas", "unlinkCache"}
FreePC == {"pfree", "pushLink", "pushCas"}
ChangePC == {"freeze", "loadHead", "move", "unfreeze"}
StampPC == {"look", "stamp", "lookAgain", "stampAgain"}
PopPC == {"pop", "follow", "popCas", "repair"}
ScanPC == {"scan", "giveCas"}
RetirePC == ListPC \cup PallocPC \cup FreePC \cup ChangePC \cup StampPC \cup {"save"} \cup PopPC \cup ScanPC

Pointers == 0 .. NumCaches
ObjectOrNone == Objects \cup {NoObject}
Versioned == [head : Pointers, ver : Nat]
Words == [ver : Nat, dirty : BOOLEAN]
Frames == [entry : Pointers, rest : Seq(Objects), kept : Seq(Objects), obj : ObjectOrNone]

\* The types of all variables.
Types ==
    /\ reclaim \in Versioned /\ toProcess \in Versioned /\ head \in Pointers
    /\ next \in [Caches -> Pointers] /\ ptrs \in [Caches -> Seq(Objects)]
    /\ dirties \in [Threads -> Words] /\ HPs \in [Threads -> SUBSET Objects]
    /\ linked \in SUBSET Objects /\ forgotten \in SUBSET Objects
    /\ localVer \in [Threads -> Nat]
    /\ allocCache \in [Threads -> Pointers] /\ freeCache \in [Threads -> Pointers]
    /\ hps \in [Threads -> SUBSET Objects]
    /\ op \in [Threads -> {"none", "insert", "unlink"}]
    /\ ref \in [Threads -> ObjectOrNone] /\ own \in [Threads -> ObjectOrNone]
    /\ calls \in [Threads -> Seq(Frames)]
    /\ reg \in [Threads -> Versioned] /\ nxt \in [Threads -> Pointers]
    /\ seen \in [Threads -> Words] /\ i \in [Threads -> Threads]
    /\ pc \in [Threads -> RetirePC]
    /\ left \in [Threads -> Nat] /\ lastVer \in Nat

-----------------------------------------------------------------------------
(* Control.                                                                *)

\* A call of Recycle that waits for pfree, and one between two caches.
Waiting(f) == f.entry \in Caches /\ f.obj \in Objects
Scanning(f) == f.entry \in Caches /\ f.obj = NoObject

\* The calls of a thread at each place.
CallsOf(t) ==
    /\ pc[t] \in ListPC \cup PallocPC => calls[t] = <<>>
    /\ pc[t] \notin ListPC \cup PallocPC \cup FreePC => calls[t] # <<>>
    /\ \A k \in DOMAIN calls[t] :
        IF k < Len(calls[t]) \/ pc[t] \in FreePC THEN Waiting(calls[t][k])
        ELSE IF pc[t] \in ScanPC THEN Scanning(calls[t][k])
        ELSE calls[t][k] = NewCall
    /\ pc[t] = "giveCas" =>
        /\ Top(t).rest = <<>> /\ Top(t).kept # <<>>
        /\ ptrs[Top(t).entry] = Top(t).kept

\* The operation of a thread at each place.
OperationOf(t) ==
    /\ op[t] = "none" <=> pc[t] = "walk"
    /\ pc[t] \in {"walk", "finish"} => ref[t] = NoObject
    /\ pc[t] = "walk" => own[t] = NoObject
    /\ pc[t] \in PallocPC => op[t] = "insert"
    /\ pc[t] \in FreePC \cup {"retire"} /\ calls[t] = <<>> => op[t] = "unlink"
    /\ op[t] = "insert" =>
        /\ pc[t] \in {"publish", "fence", "restart", "cas"} => own[t] \in Objects
        /\ pc[t] \in PallocPC \/ calls[t] # <<>> => own[t] = NoObject
        /\ own[t] \in Objects => allocCache[t] \in Caches
        /\ pc[t] \in {"popHead", "followHead", "headCas"} \/ calls[t] # <<>> =>
            allocCache[t] = NULL \/ ptrs[allocCache[t]] = <<>>
        /\ pc[t] = "unlinkCache" => allocCache[t] \in Caches
    /\ op[t] = "unlink" =>
        IF pc[t] \in {"publish", "fence", "restart", "cas"} THEN ref[t] \in Objects /\ own[t] = NoObject
        ELSE ref[t] = NoObject /\ (IF pc[t] = "finish" THEN own[t] = NoObject ELSE own[t] \in Objects)
    /\ pc[t] \in {"fence", "cas"} => HPs[t] = {ref[t], own[t]} \ {NoObject}

\* The registers of a thread at each place.
RegistersOf(t) ==
    /\ pc[t] \in {"follow", "popCas", "repair"} => reg[t].head \in Caches /\ reg[t].ver = localVer[t]
    /\ pc[t] \in {"followHead", "headCas"} => reg[t].head \in Caches
    /\ pc[t] \in {"pushLink", "pushCas"} => freeCache[t] \in Caches
    /\ pc[t] = "pushCas" => reg[t].ver = localVer[t] /\ reg[t].head = next[freeCache[t]]

Control == \A t \in Threads : CallsOf(t) /\ OperationOf(t) /\ RegistersOf(t)

-----------------------------------------------------------------------------
(* Versions.                                                               *)

Even(n) == n % 2 = 0

\* A phase change: reclaim's version becomes odd, toProcess moves, reclaim follows.
VersionOrder ==
    /\ Even(toProcess.ver) /\ toProcess.ver >= 2 /\ toProcess.ver <= lastVer
    /\ reclaim.ver \in {toProcess.ver - 1, toProcess.ver, toProcess.ver + 1}
    /\ reclaim.ver >= 2 /\ reclaim.ver <= lastVer /\ Even(lastVer)

\* What is already done when a thread is at its place in a collection.
Changing(t) ==
    /\ Even(localVer[t]) /\ localVer[t] <= toProcess.ver /\ localVer[t] <= reclaim.ver
    /\ pc[t] \in ChangePC \ {"freeze"} => localVer[t] < lastVer /\ reclaim.ver > localVer[t]
    /\ pc[t] = "unfreeze" => toProcess.ver > localVer[t]
    /\ pc[t] = "move" /\ toProcess.ver = localVer[t] => reg[t].head = reclaim.head

\* When the version of reclaim is ahead everything has been processed; who is of the version of
\* toProcess and not processing has found nothing.
Emptied ==
    /\ reclaim.ver = toProcess.ver + 1 => toProcess.head = NULL
    /\ \A t \in Threads :
        localVer[t] = toProcess.ver
            /\ (calls[t] = <<>> \/ (pc[t] = "freeze" /\ reclaim.ver = toProcess.ver))
        => toProcess.head = NULL

Versions == VersionOrder /\ (\A t \in Threads : Changing(t)) /\ Emptied

-----------------------------------------------------------------------------
(* Stamps.                                                                 *)

\* The record of u after the first look of a collector t, and after its first attempt: it is
\* stamped, or as it was read, or its owner has cleared the bit.
Attempt(t) ==
    LET d == dirties[i[t]] IN
    \/ d.ver >= localVer[t]
    \/ /\ pc[t] \in {"stamp", "stampAgain"} => d.ver = seen[t].ver /\ (d.dirty => seen[t].dirty)
       /\ pc[t] = "stamp" => d = seen[t] \/ ~ d.dirty
       /\ pc[t] \in {"lookAgain", "stampAgain"} => ~ d.dirty
       /\ pc[t] = "stampAgain" => d = seen[t]

\* Records are of the version of toProcess or of the one before, and of this one when the next
\* change has begun.
Stamps ==
    /\ \A u \in Threads :
        /\ Even(dirties[u].ver) /\ dirties[u].ver <= toProcess.ver /\ dirties[u].ver >= toProcess.ver - 2
        /\ reclaim.ver > toProcess.ver => dirties[u].ver = toProcess.ver
    /\ \A t \in Threads :
        /\ \A u \in Threads : pc[t] \notin StampPC \/ u < i[t] => dirties[u].ver >= localVer[t]
        /\ pc[t] \in StampPC => Attempt(t)
        /\ pc[t] \in {"stamp", "stampAgain"} => seen[t].ver < localVer[t]
        /\ pc[t] \notin StampPC \cup {"save"} => i[t] = 0

-----------------------------------------------------------------------------
(* Caches.                                                                 *)

Free == Chain(head)
Pending == Chain(toProcess.head)
Pushed == IF reclaim.ver = toProcess.ver - 1 THEN {} ELSE Chain(reclaim.head)

\* The caches a thread has for itself.
Popped(t) == IF pc[t] = "repair" THEN reg[t].head ELSE NULL
Entries(t) == {calls[t][k].entry : k \in DOMAIN calls[t]}
Mine(t) == ({allocCache[t], freeCache[t], Popped(t)} \cup Entries(t)) \ {NULL}
Apart(t) ==
    \A k, j \in DOMAIN calls[t] : calls[t][k].entry # NULL /\ calls[t][j].entry = calls[t][k].entry => j = k
OneEach(t) ==
    /\ allocCache[t] # NULL => allocCache[t] \notin {freeCache[t]} \cup Entries(t)
    /\ freeCache[t] # NULL => freeCache[t] \notin Entries(t)
    /\ Popped(t) # NULL => Popped(t) \notin {allocCache[t], freeCache[t]} \cup Entries(t)
    /\ Apart(t)

\* A cache is in one stack or one thread has it.
Exclusive ==
    /\ Free \cap Pending = {} /\ Free \cap Pushed = {} /\ Pending \cap Pushed = {}
    /\ \A t \in Threads :
        /\ Mine(t) \cap (Free \cup Pending \cup Pushed) = {}
        /\ OneEach(t)
        /\ \A u \in Threads : u # t => Mine(t) \cap Mine(u) = {}

\* The stacks end.
Ends == \A c \in Free \cup Pending \cup Pushed : c \notin Chain(next[c])

\* A cache on its way to the stack of palloc.
Bringing(t) == ({freeCache[t], Popped(t)} \cup Entries(t)) \ {NULL}
Coming == Pending \cup Pushed \cup UNION {Bringing(t) : t \in Threads}

\* What a thread has read about the top of a stack is true as long as it can matter.
Remembered(t) ==
    /\ pc[t] = "popCas" /\ toProcess.ver = localVer[t] /\ reg[t].head \in Pending => nxt[t] = next[reg[t].head]
    /\ pc[t] = "repair" => nxt[t] = next[reg[t].head]
    /\ pc[t] \in {"followHead", "headCas"} => reg[t].head \notin Coming
    /\ pc[t] = "headCas" /\ reg[t].head \in Free => nxt[t] = next[reg[t].head]

CacheInv == Exclusive /\ Ends /\ \A t \in Threads : Remembered(t)

-----------------------------------------------------------------------------
(* Objects.                                                                *)

\* The caches whose contents count; those in the hands of Recycle do not.
Stored ==
    Free \cup Pending \cup Pushed
        \cup UNION {{allocCache[t], freeCache[t], Popped(t)} \ {NULL} : t \in Threads}

\* The objects a call of Recycle has in its hands, and those in a cache that counts.
Held(t, k) == IF k \in DOMAIN calls[t] THEN InCall(calls[t][k]) ELSE {}
Shelf(c) == IF c \in Stored THEN Range(ptrs[c]) ELSE {}

\* The places of objects.
InList == <<"linked", 0, 0>>
Dropped == <<"forgotten", 0, 0>>
OwnOf(t) == <<"own", t, 0>>
CallOf(t, k) == <<"call", t, k>>
CacheOf(c) == <<"cache", c, 0>>
Homes ==
    {InList, Dropped} \cup {OwnOf(t) : t \in Threads} \cup {CallOf(t, k) : t \in Threads, k \in Nat}
    \cup {CacheOf(c) : c \in Caches}
Content(h) ==
    CASE h[1] = "linked" -> linked
      [] h[1] = "forgotten" -> forgotten
      [] h[1] = "own" -> {own[h[2]]} \ {NoObject}
      [] h[1] = "call" -> Held(h[2], h[3])
      [] h[1] = "cache" -> Shelf(h[2])

OneHome ==
    \A o \in Objects :
        /\ \E h \in Homes : o \in Content(h)
        /\ \A h, j \in Homes : o \in Content(h) /\ o \in Content(j) => h = j

\* No cache overflows.
Filled(f) == IF f.obj = NoObject THEN Len(f.rest) + Len(f.kept) ELSE Len(f.rest) + Len(f.kept) + 1
Lengths ==
    /\ \A c \in Caches : Len(ptrs[c]) <= PerCache
    /\ \A t \in Threads :
        /\ \A k \in DOMAIN calls[t] : Filled(calls[t][k]) <= PerCache
        /\ op[t] = "insert" /\ own[t] \in Objects => Len(ptrs[allocCache[t]]) < PerCache

\* Nothing is twice in a cache, or in a call.
Distinct(f) ==
    /\ IsInjective(f.rest) /\ IsInjective(f.kept)
    /\ Range(f.rest) \cap Range(f.kept) = {}
    /\ f.obj \notin Range(f.rest) \cup Range(f.kept)
NoneTwice ==
    /\ \A c \in Stored : IsInjective(ptrs[c])
    /\ \A t \in Threads : \A k \in DOMAIN calls[t] : Distinct(calls[t][k])

\* All of this together.
Structure ==
    Types /\ Control /\ Versions /\ Stamps /\ CacheInv /\ Lengths /\ OneHome /\ NoneTwice

-----------------------------------------------------------------------------
(* Hazard pointers.                                                        *)

\* u may still change the list at o.
Relies(u, o) ==
    /\ ref[u] = o /\ o \in Objects /\ pc[u] # "restart"
    /\ pc[u] = "cas" \/ ~ dirties[u].dirty

\* The objects that t has to look at.
InHand(t) ==
    (IF Popped(t) = NULL THEN {} ELSE Range(ptrs[Popped(t)]))
    \cup UNION {InCall(calls[t][k]) : k \in DOMAIN calls[t]}
Due(t) ==
    InHand(t) \cup (IF localVer[t] = toProcess.ver THEN UNION {Range(ptrs[c]) : c \in Pending} ELSE {})

\* t has saved the hazard pointers of u.
SavedBy(t, u) ==
    /\ calls[t] # <<>>
    /\ pc[t] \notin ChangePC \cup StampPC
    /\ pc[t] = "save" => u < i[t]

Hazards ==
    \A u \in Threads : \A o \in Objects : Relies(u, o) =>
        /\ o \notin FreeObjects \cup LiveObjects \cup forgotten \/ o \in linked
        /\ pc[u] # "cas" =>
            /\ \A t \in Threads : o \notin InHand(t)
            /\ \A c \in Pending : o \in Range(ptrs[c]) => dirties[u].ver < toProcess.ver
        /\ pc[u] = "cas" =>
            \A t \in Threads : SavedBy(t, u) /\ o \in Due(t) => o \in hps[t]

RetireInv == Structure /\ Hazards

-----------------------------------------------------------------------------
(* Numbers and sequences.                                                  *)

\* Versions count by two.
LEMMA EvenFacts ==
    /\ \A n \in Nat : Even(n) => Even(n + 2) /\ ~ Even(n + 1)
    /\ \A n \in Nat : Even(n) /\ n >= 1 => ~ Even(n - 1)
    /\ \A m, n \in Nat : Even(m) /\ Even(n) /\ m < n => m + 2 <= n
  BY DEF Even

\* The next thread in the loops of Reclamation.
LEMMA NextIndex ==
    ASSUME NEW k \in Threads
    PROVE  /\ (k + 1) % NumThreads \in Threads
           /\ k + 1 < NumThreads => (k + 1) % NumThreads = k + 1
           /\ k + 1 >= NumThreads => k + 1 = NumThreads /\ (k + 1) % NumThreads = 0
<1>1. NumThreads \in Nat \ {0} /\ k \in Nat /\ k + 1 <= NumThreads
  BY RetireAssumption DEF Threads
<1>2. CASE k + 1 < NumThreads
  <2>1. (k + 1) % NumThreads = k + 1
    BY <1>1, <1>2
  <2> QED
    BY <1>1, <1>2, <2>1 DEF Threads
<1>3. CASE k + 1 = NumThreads
  <2>1. (k + 1) % NumThreads = 0
    BY <1>1, <1>3
  <2> QED
    BY <1>1, <1>3, <2>1 DEF Threads
<1> QED
  BY <1>1, <1>2, <1>3

\* The constants of the module have their types.
LEMMA ConstantTypes ==
    /\ NewCall \in Frames /\ NoReg \in Versioned /\ NoWord \in Words
    /\ NULL \in Pointers /\ NULL \notin Caches /\ Caches \subseteq Pointers
    /\ \A c \in Pointers : c # NULL => c \in Caches
    /\ NoObject \notin Objects
    /\ 0 \in Threads
    /\ PerCache \in Nat \ {0} /\ NumCaches \in Nat
  BY RetireAssumption DEF NewCall, Frames, NoReg, Versioned, NoWord, Words, NULL, Pointers, Caches,
    ObjectOrNone, Threads

\* The topmost call is replaced.
LEMMA TopSet ==
    ASSUME NEW t \in Threads, Types, calls[t] # <<>>, NEW f \in Frames, SetTop(t, f)
    PROVE  /\ calls' \in [Threads -> Seq(Frames)]
           /\ \A u \in Threads : u # t => calls'[u] = calls[u]
           /\ calls'[t] # <<>> /\ Len(calls'[t]) = Len(calls[t])
           /\ DOMAIN calls'[t] = DOMAIN calls[t] /\ DOMAIN calls[t] = 1 .. Len(calls[t])
           /\ Len(calls[t]) \in DOMAIN calls[t] /\ Len(calls[t]) \in Nat \ {0}
           /\ calls'[t][Len(calls[t])] = f /\ Top(t)' = f
           /\ Top(t) = calls[t][Len(calls[t])] /\ Top(t) \in Frames
           /\ \A k \in DOMAIN calls[t] : k # Len(calls[t]) => calls'[t][k] = calls[t][k]
<1> DEFINE s == calls[t]
           n == Len(s)
           r == [s EXCEPT ![n] = f]
<1>1. s \in Seq(Frames) /\ n \in Nat \ {0} /\ DOMAIN s = 1 .. n /\ n \in DOMAIN s
  BY DEF Types
<1>2. r \in Seq(Frames) /\ Len(r) = n /\ DOMAIN r = 1 .. n
  BY <1>1
<1>3. calls' = [calls EXCEPT ![t] = r]
  BY DEF SetTop
<1>4. calls'[t] = r /\ (\A u \in Threads : u # t => calls'[u] = calls[u]) /\ calls' \in [Threads -> Seq(Frames)]
  BY <1>2, <1>3 DEF Types
<1>5. r[n] = f /\ \A k \in 1 .. n : k # n => r[k] = s[k]
  BY <1>1
<1>6. Top(t) = s[n] /\ Top(t)' = f /\ Top(t) \in Frames
  BY <1>1, <1>2, <1>4, <1>5 DEF Top
<1> QED
  BY <1>1, <1>2, <1>4, <1>5, <1>6

\* A call is begun.
LEMMA CallBegun ==
    ASSUME NEW t \in Threads, Types, Trigger(t)
    PROVE  /\ calls' \in [Threads -> Seq(Frames)]
           /\ \A u \in Threads : u # t => calls'[u] = calls[u]
           /\ calls'[t] # <<>> /\ Len(calls'[t]) = Len(calls[t]) + 1 /\ Len(calls[t]) \in Nat
           /\ DOMAIN calls'[t] = 1 .. Len(calls[t]) + 1 /\ DOMAIN calls[t] = 1 .. Len(calls[t])
           /\ calls'[t][Len(calls[t]) + 1] = NewCall /\ Top(t)' = NewCall
           /\ \A k \in DOMAIN calls[t] : calls'[t][k] = calls[t][k]
<1> DEFINE s == calls[t]
           r == Append(s, NewCall)
<1>1. s \in Seq(Frames) /\ NewCall \in Frames /\ Len(s) \in Nat /\ DOMAIN s = 1 .. Len(s)
  BY ConstantTypes DEF Types
<1>2. r \in Seq(Frames) /\ Len(r) = Len(s) + 1 /\ DOMAIN r = 1 .. Len(s) + 1
  BY <1>1
<1>3. r[Len(s) + 1] = NewCall /\ \A k \in DOMAIN s : r[k] = s[k]
  BY <1>1
<1>4. calls' = [calls EXCEPT ![t] = r]
  BY DEF Trigger
<1>5. calls'[t] = r /\ (\A u \in Threads : u # t => calls'[u] = calls[u]) /\ calls' \in [Threads -> Seq(Frames)]
  BY <1>2, <1>4 DEF Types
<1>6. r # <<>>
  BY <1>1, <1>2
<1> QED
  BY <1>1, <1>2, <1>3, <1>5, <1>6 DEF Top

\* The last call returns.
LEMMA CallReturned ==
    ASSUME NEW t \in Threads, Types, calls[t] # <<>>, Return(t)
    PROVE  /\ calls' \in [Threads -> Seq(Frames)]
           /\ \A u \in Threads : u # t => calls'[u] = calls[u]
           /\ Len(calls'[t]) = Len(calls[t]) - 1 /\ Len(calls[t]) \in Nat \ {0}
           /\ DOMAIN calls'[t] = 1 .. Len(calls[t]) - 1 /\ DOMAIN calls[t] = 1 .. Len(calls[t])
           /\ calls'[t] = <<>> <=> Len(calls[t]) = 1
           /\ \A k \in DOMAIN calls'[t] : calls'[t][k] = calls[t][k]
<1> DEFINE s == calls[t]
           r == SubSeq(s, 1, Len(s) - 1)
<1>1. s \in Seq(Frames) /\ Len(s) \in Nat \ {0} /\ DOMAIN s = 1 .. Len(s)
  BY DEF Types
<1>2. r \in Seq(Frames) /\ Len(r) = Len(s) - 1 /\ DOMAIN r = 1 .. Len(s) - 1
  BY <1>1
<1>3. \A k \in DOMAIN r : r[k] = s[k]
  BY <1>1
<1>4. calls' = [calls EXCEPT ![t] = r]
  BY DEF Return
<1>5. calls'[t] = r /\ (\A u \in Threads : u # t => calls'[u] = calls[u]) /\ calls' \in [Threads -> Seq(Frames)]
  BY <1>2, <1>4 DEF Types
<1>6. r = <<>> <=> Len(s) = 1
  <2>1. r = <<>> <=> Len(r) = 0
    BY <1>2, EmptySeq
  <2> HIDE DEF r
  <2> QED
    BY <1>1, <1>2, <2>1
<1> QED
  BY <1>1, <1>2, <1>3, <1>5, <1>6

-----------------------------------------------------------------------------
(* Types.                                                                  *)

\* The topmost call of a thread that has one.
LEMMA TopFrame ==
    ASSUME NEW t \in Threads, Types, calls[t] # <<>>
    PROVE  /\ Top(t) \in Frames /\ Top(t) = calls[t][Len(calls[t])]
           /\ DOMAIN calls[t] = 1 .. Len(calls[t]) /\ Len(calls[t]) \in DOMAIN calls[t]
           /\ Len(calls[t]) \in Nat \ {0}
  BY DEF Types, Top

\* A malloc gives a cache.
LEMMA FreshCache ==
    ASSUME NEW c \in Fresh
    PROVE  c \in Caches /\ c \notin Referenced
  BY DEF Fresh

\* What pfree is called with.
LEMMA ArgumentObject ==
    ASSUME NEW t \in Threads, Types, Control, pc[t] \in FreePC \cup {"retire"}
    PROVE  Argument(t) \in Objects
<1>1. CASE calls[t] = <<>>
  <2>1. op[t] = "unlink"
    BY <1>1 DEF Control, OperationOf
  <2> QED
    BY <1>1, <2>1 DEF Control, OperationOf, Argument, FreePC
<1>2. CASE calls[t] # <<>>
  <2>1. pc[t] \in FreePC
    BY <1>2 DEF Control, CallsOf, ListPC
  <2> QED
    BY <1>2, <2>1, TopFrame DEF Control, CallsOf, Waiting, Argument
<1> QED
  BY <1>1, <1>2

\* pfree returns.
LEMMA FreeReturned ==
    ASSUME NEW t \in Threads, Types, Control, pc[t] \in FreePC \cup {"retire"}, FreeReturns(t)
    PROVE  \/ /\ calls[t] = <<>> /\ UNCHANGED calls
              /\ own' = [own EXCEPT ![t] = NoObject] /\ op' = [op EXCEPT ![t] = "none"]
              /\ pc' = [pc EXCEPT ![t] = "walk"]
           \/ /\ calls[t] # <<>> /\ UNCHANGED <<own, op>> /\ pc' = [pc EXCEPT ![t] = "scan"]
              /\ [Top(t) EXCEPT !.obj = NoObject] \in Frames
              /\ SetTop(t, [Top(t) EXCEPT !.obj = NoObject])
<1>1. CASE calls[t] = <<>>
  BY <1>1 DEF FreeReturns, Goto
<1>2. CASE calls[t] # <<>>
  <2>1. Top(t) \in Frames
    BY <1>2, TopFrame
  <2>2. [Top(t) EXCEPT !.obj = NoObject] \in Frames
    BY <2>1 DEF Frames, ObjectOrNone
  <2> QED
    BY <1>2, <2>2 DEF FreeReturns, Goto
<1> QED
  BY <1>1, <1>2

\* The types of the variables that pfree writes when it returns.
LEMMA FreeReturnedTypes ==
    ASSUME NEW t \in Threads, Types, Control, pc[t] \in FreePC \cup {"retire"}, FreeReturns(t)
    PROVE  /\ calls' \in [Threads -> Seq(Frames)] /\ own' \in [Threads -> ObjectOrNone]
           /\ op' \in [Threads -> {"none", "insert", "unlink"}] /\ pc' \in [Threads -> RetirePC]
<1>1. CASE calls[t] = <<>>
  BY <1>1, FreeReturned DEF Types, RetirePC, ListPC, ObjectOrNone
<1>2. CASE calls[t] # <<>>
  <2>1. /\ UNCHANGED <<own, op>> /\ pc' = [pc EXCEPT ![t] = "scan"]
        /\ [Top(t) EXCEPT !.obj = NoObject] \in Frames
        /\ SetTop(t, [Top(t) EXCEPT !.obj = NoObject])
    BY <1>2, FreeReturned
  <2>2. calls' \in [Threads -> Seq(Frames)]
    BY <1>2, <2>1, TopSet
  <2> QED
    BY <2>1, <2>2 DEF Types, RetirePC, ScanPC
<1> QED
  BY <1>1, <1>2

\* The new free_cache.
LEMMA NewFreeCacheTypes ==
    ASSUME NEW t \in Threads, Types, Control, pc[t] \in FreePC \cup {"retire"}, NewFreeCache(t)
    PROVE  \E c \in Fresh :
           /\ c \in Caches /\ freeCache' = [freeCache EXCEPT ![t] = c]
           /\ ptrs' = [ptrs EXCEPT ![c] = <<Argument(t)>>]
           /\ freeCache' \in [Threads -> Pointers] /\ ptrs' \in [Caches -> Seq(Objects)]
<1>1. PICK c \in Fresh : /\ freeCache' = [freeCache EXCEPT ![t] = c]
                         /\ ptrs' = [ptrs EXCEPT ![c] = <<Argument(t)>>]
  BY DEF NewFreeCache
<1>2. c \in Caches /\ c \in Pointers
  BY FreshCache, ConstantTypes
<1>3. <<Argument(t)>> \in Seq(Objects)
  BY ArgumentObject
<1> QED
  BY <1>1, <1>2, <1>3 DEF Types

\* palloc's start.
LEMMA TakeOrPopTypes ==
    ASSUME NEW t \in Threads, Types, TakeOrPop(t)
    PROVE  /\ own' \in [Threads -> ObjectOrNone] /\ ptrs' \in [Caches -> Seq(Objects)]
           /\ pc' \in [Threads -> RetirePC]
<1> DEFINE c == allocCache[t]
           s == ptrs[c]
<1>1. CASE c # NULL /\ s # <<>>
  <2>1. c \in Caches
    BY <1>1, ConstantTypes DEF Types
  <2>2. s \in Seq(Objects) /\ Len(s) \in Nat \ {0}
    BY <1>1, <2>1, EmptySeq DEF Types
  <2>3. s[Len(s)] \in Objects /\ SubSeq(s, 1, Len(s) - 1) \in Seq(Objects)
    BY <2>2
  <2>4. /\ own' = [own EXCEPT ![t] = s[Len(s)]] /\ pc' = [pc EXCEPT ![t] = "publish"]
        /\ ptrs' = [ptrs EXCEPT ![c] = SubSeq(s, 1, Len(s) - 1)]
    BY <1>1, <2>1 DEF TakeOrPop, Goto, Types
  <2> QED
    BY <2>1, <2>3, <2>4 DEF Types, RetirePC, ListPC, ObjectOrNone
<1>2. CASE ~ (c # NULL /\ s # <<>>)
  BY <1>2 DEF TakeOrPop, Goto, Types, RetirePC, PallocPC
<1> QED
  BY <1>1, <1>2

\* The types after a step of Reclamation.
LEMMA ChangeTypes ==
    ASSUME NEW t \in Threads, Types, Control, UNCHANGED lastVer,
           Freeze(t) \/ LoadHead(t) \/ Move(t) \/ Unfreeze(t) \/ Look(t) \/ Stamp(t) \/ Save(t)
    PROVE  Types'
<1> USE DEF shared, caches, records, operation, regs, Goto
<1>1. CASE Freeze(t)
  <2>a. localVer[t] \in Nat /\ reclaim \in Versioned /\ reg[t] \in Versioned
    BY DEF Types
  <2>b. [reclaim EXCEPT !.ver = localVer[t] + 1] \in Versioned /\ [reg[t] EXCEPT !.head = reclaim.head] \in Versioned
    BY <2>a DEF Versioned
  <2>c. pc' \in [Threads -> RetirePC]
    BY <1>1 DEF Freeze, Types, RetirePC, ChangePC
  <2>d. reclaim' \in Versioned
    BY <1>1, <2>a, <2>b DEF Freeze
  <2>e. reg' = reg \/ reg' = [reg EXCEPT ![t] = [reg[t] EXCEPT !.head = reclaim.head]]
    BY <1>1 DEF Freeze, Types
  <2>1. reclaim' \in Versioned /\ reg' \in [Threads -> Versioned] /\ pc' \in [Threads -> RetirePC]
    <3>1. reg' \in [Threads -> Versioned]
      <4>1. reg \in [Threads -> Versioned]
        BY DEF Types
      <4> QED
        BY <2>b, <2>e, <4>1
    <3> QED
      BY <2>c, <2>d, <3>1
  <2> QED
    BY <1>1, <2>1 DEF Freeze, Types
<1>2. CASE LoadHead(t)
  <2>1. reg' \in [Threads -> Versioned] /\ pc' \in [Threads -> RetirePC]
    BY <1>2 DEF LoadHead, Types, Versioned, RetirePC, ChangePC
  <2> QED
    BY <1>2, <2>1 DEF LoadHead, Types
<1>3. CASE Move(t)
  <2>1. toProcess' \in Versioned /\ reg' \in [Threads -> Versioned] /\ pc' \in [Threads -> RetirePC]
    BY <1>3, ConstantTypes DEF Move, Types, Versioned, RetirePC, ChangePC
  <2> QED
    BY <1>3, <2>1 DEF Move, Types
<1>4. CASE Unfreeze(t)
  <2>1. reclaim' \in Versioned /\ localVer' \in [Threads -> Nat] /\ pc' \in [Threads -> RetirePC]
    BY <1>4, ConstantTypes DEF Unfreeze, Types, Versioned, RetirePC, StampPC
  <2> QED
    BY <1>4, <2>1 DEF Unfreeze, Types
<1>5. CASE Look(t)
  <2>1. i[t] \in Threads /\ (i[t] + 1) % NumThreads \in Threads
    BY NextIndex DEF Types
  <2>2. pc' \in [Threads -> RetirePC] /\ i' \in [Threads -> Threads]
    BY <1>5, <2>1 DEF Look, NextThread, Types, RetirePC, StampPC
  <2>a. dirties[i[t]] \in Words
    BY <2>1 DEF Types
  <2>b. seen' = seen \/ seen' = [seen EXCEPT ![t] = dirties[i[t]]]
    BY <1>5 DEF Look
  <2>c. hps' = [hps EXCEPT ![t] = {}]
    BY <1>5 DEF Look
  <2>3. seen' \in [Threads -> Words] /\ hps' \in [Threads -> SUBSET Objects]
    BY <2>a, <2>b, <2>c DEF Types
  <2> QED
    BY <1>5, <2>2, <2>3 DEF Look, Types
<1>6. CASE Stamp(t)
  <2>1. i[t] \in Threads /\ (i[t] + 1) % NumThreads \in Threads
    BY NextIndex DEF Types
  <2>2. pc' \in [Threads -> RetirePC] /\ i' \in [Threads -> Threads]
    BY <1>6, <2>1 DEF Stamp, NextThread, Types, RetirePC, StampPC
  <2>3. seen' \in [Threads -> Words] /\ dirties' \in [Threads -> Words]
    BY <1>6, <2>1, ConstantTypes DEF Stamp, Types, Words
  <2> QED
    BY <1>6, <2>2, <2>3 DEF Stamp, Types
<1>7. CASE Save(t)
  <2>1. i[t] \in Threads /\ (i[t] + 1) % NumThreads \in Threads
    BY NextIndex DEF Types
  <2>2. pc' \in [Threads -> RetirePC] /\ i' \in [Threads -> Threads]
    BY <1>7, <2>1 DEF Save, NextThread, Types, RetirePC, PopPC
  <2>3. hps' \in [Threads -> SUBSET Objects]
    BY <1>7, <2>1 DEF Save, Types
  <2> QED
    BY <1>7, <2>2, <2>3 DEF Save, Types
<1> QED
  BY <1>1, <1>2, <1>3, <1>4, <1>5, <1>6, <1>7

\* The types after a step of Recycle.
LEMMA RecycleTypes ==
    ASSUME NEW t \in Threads, Types, Control, UNCHANGED lastVer,
           Pop(t) \/ Follow(t) \/ PopCas(t) \/ Repair(t) \/ Scan(t) \/ EndScan(t) \/ GiveCas(t)
    PROVE  Types'
<1> USE DEF shared, caches, records, operation, regs, Goto
<1>0. pc[t] \in PopPC \cup ScanPC => calls[t] # <<>>
  BY DEF Control, CallsOf, PopPC, ScanPC, ListPC, PallocPC, FreePC
<1>1. CASE Pop(t)
  <2>1. calls[t] # <<>>
    BY <1>0, <1>1 DEF Pop, PopPC
  <2>2. CASE toProcess.ver # localVer[t] \/ toProcess.head = NULL
    <3>0. Return(t) /\ UNCHANGED reg
      BY <1>1, <2>2 DEF Pop
    <3>1. calls' \in [Threads -> Seq(Frames)]
      BY <2>1, <3>0, CallReturned
    <3>2. hps' \in [Threads -> SUBSET Objects] /\ pc' \in [Threads -> RetirePC]
      BY <3>0 DEF Return, Types, RetirePC, PallocPC, FreePC
    <3> QED
      BY <1>1, <3>0, <3>1, <3>2 DEF Pop, Types
  <2>3. CASE ~ (toProcess.ver # localVer[t] \/ toProcess.head = NULL)
    <3>0. reg' = [reg EXCEPT ![t] = toProcess] /\ pc' = [pc EXCEPT ![t] = "follow"] /\ UNCHANGED <<calls, hps>>
      BY <1>1, <2>3 DEF Pop
    <3>1. reg' \in [Threads -> Versioned] /\ pc' \in [Threads -> RetirePC]
      BY <3>0 DEF Types, RetirePC, PopPC
    <3> QED
      BY <1>1, <3>0, <3>1 DEF Pop, Types
  <2> QED
    BY <2>2, <2>3
<1>2. CASE Follow(t)
  <2>1. reg[t].head \in Caches
    BY <1>2 DEF Follow, Control, RegistersOf
  <2>2. nxt' \in [Threads -> Pointers] /\ pc' \in [Threads -> RetirePC]
    BY <1>2, <2>1 DEF Follow, Types, RetirePC, PopPC, PallocPC
  <2> QED
    BY <1>2, <2>2 DEF Follow, Types
<1>3. CASE PopCas(t)
  <2>a. toProcess' = toProcess \/ toProcess' = [toProcess EXCEPT !.head = nxt[t]]
    BY <1>3 DEF PopCas
  <2>b. toProcess' \in Versioned
    BY <2>a DEF Types, Versioned
  <2>c. (reg' = reg \/ reg' = [reg EXCEPT ![t] = NoReg]) /\ (nxt' = nxt \/ nxt' = [nxt EXCEPT ![t] = NULL])
    BY <1>3 DEF PopCas
  <2>1. toProcess' \in Versioned /\ reg' \in [Threads -> Versioned] /\ nxt' \in [Threads -> Pointers]
    <3>1. reg \in [Threads -> Versioned] /\ nxt \in [Threads -> Pointers]
      BY DEF Types
    <3>2. reg' \in [Threads -> Versioned]
      BY <2>c, <3>1, ConstantTypes
    <3>3. nxt' \in [Threads -> Pointers]
      BY <2>c, <3>1, ConstantTypes
    <3> QED
      BY <2>b, <3>2, <3>3
  <2>2. pc' \in [Threads -> RetirePC]
    BY <1>3 DEF PopCas, Types, RetirePC, PopPC
  <2> QED
    BY <1>3, <2>1, <2>2 DEF PopCas, Types
<1>4. CASE Repair(t)
  <2> DEFINE e == reg[t].head
             f == [NewCall EXCEPT !.entry = e, !.rest = ptrs[e]]
  <2>1. e \in Caches /\ calls[t] # <<>>
    BY <1>0, <1>4 DEF Repair, Control, RegistersOf, PopPC
  <2>2. ptrs[e] \in Seq(Objects) /\ e \in Pointers
    BY <2>1, ConstantTypes DEF Types
  <2>3. f \in Frames
    BY <2>2, ConstantTypes DEF Frames, NewCall, ObjectOrNone
  <2>4. calls' \in [Threads -> Seq(Frames)]
    <3>1. SetTop(t, f)
      BY <1>4 DEF Repair
    <3> QED
      BY <2>1, <2>3, <3>1, TopSet
  <2>5. next' \in [Caches -> Pointers]
    BY <1>4, ConstantTypes DEF Repair, Types
  <2>6. reg' \in [Threads -> Versioned] /\ nxt' \in [Threads -> Pointers] /\ pc' \in [Threads -> RetirePC]
    BY <1>4, ConstantTypes DEF Repair, Types, RetirePC, ScanPC
  <2> QED
    BY <1>4, <2>4, <2>5, <2>6 DEF Repair, Types
<1>5. CASE Scan(t)
  <2> DEFINE o == Head(Top(t).rest)
             f == [Top(t) EXCEPT !.rest = Tail(@)]
  <2>1. Top(t) \in Frames /\ Top(t).rest # <<>> /\ calls[t] # <<>>
    BY <1>0, <1>5, TopFrame DEF Scan, ScanPC
  <2>2. o \in Objects /\ Tail(Top(t).rest) \in Seq(Objects)
    BY <2>1, HeadTailProperties DEF Frames
  <2>a. f \in Frames /\ f.kept \in Seq(Objects)
    BY <2>1, <2>2 DEF Frames
  <2>b. Append(f.kept, o) \in Seq(Objects) /\ o \in ObjectOrNone
    BY <2>2, <2>a DEF ObjectOrNone
  <2>3. f \in Frames /\ [f EXCEPT !.obj = o] \in Frames /\ [f EXCEPT !.kept = Append(@, o)] \in Frames
    <3> HIDE DEF f, o
    <3> QED
      BY <2>a, <2>b DEF Frames
  <2>4. calls' \in [Threads -> Seq(Frames)] /\ pc' \in [Threads -> RetirePC]
    <3>1. \/ SetTop(t, [f EXCEPT !.obj = o]) /\ pc' = [pc EXCEPT ![t] = "pfree"]
          \/ SetTop(t, [f EXCEPT !.kept = Append(@, o)]) /\ pc' = pc
      BY <1>5 DEF Scan
    <3>2. calls' \in [Threads -> Seq(Frames)]
      BY <2>1, <2>3, <3>1, TopSet
    <3> QED
      BY <3>1, <3>2 DEF Types, RetirePC, FreePC
  <2> QED
    BY <1>5, <2>4 DEF Scan, Types
<1>6. CASE EndScan(t)
  <2> DEFINE e == Top(t).entry
  <2>1. Top(t) \in Frames /\ calls[t] # <<>>
    BY <1>0, <1>6, TopFrame DEF EndScan, ScanPC
  <2>2. e \in Pointers /\ Top(t).kept \in Seq(Objects)
    BY <2>1 DEF Frames
  <2>a. /\ ptrs' = [ptrs EXCEPT ![e] = Top(t).kept] /\ (next' = next \/ next' = [next EXCEPT ![e] = head])
        /\ pc' = [pc EXCEPT ![t] = "pop"] \/ pc' = [pc EXCEPT ![t] = "giveCas"]
    BY <1>6 DEF EndScan
  <2>3. ptrs' \in [Caches -> Seq(Objects)] /\ next' \in [Caches -> Pointers] /\ pc' \in [Threads -> RetirePC]
    <3> HIDE DEF e
    <3> QED
      <4>1. ptrs' \in [Caches -> Seq(Objects)]
        BY <2>2, <2>a DEF Types
      <4>2. next' \in [Caches -> Pointers]
        BY <2>2, <2>a DEF Types
      <4>3. pc' \in [Threads -> RetirePC]
        BY <2>a DEF Types, RetirePC, PopPC, ScanPC
      <4> QED
        BY <4>1, <4>2, <4>3
  <2>4. calls' \in [Threads -> Seq(Frames)]
    <3>1. SetTop(t, NewCall) \/ UNCHANGED calls
      BY <1>6 DEF EndScan
    <3> QED
      BY <2>1, <3>1, TopSet, ConstantTypes DEF Types
  <2> QED
    BY <1>6, <2>3, <2>4 DEF EndScan, Types
<1>7. CASE GiveCas(t)
  <2>1. Top(t) \in Frames /\ calls[t] # <<>>
    BY <1>0, <1>7, TopFrame DEF GiveCas, ScanPC
  <2>2. head' \in Pointers /\ pc' \in [Threads -> RetirePC]
    BY <1>7, <2>1 DEF GiveCas, Types, RetirePC, PopPC, ScanPC, Frames
  <2>3. calls' \in [Threads -> Seq(Frames)]
    <3>1. SetTop(t, NewCall) \/ UNCHANGED calls
      BY <1>7 DEF GiveCas
    <3> QED
      BY <2>1, <3>1, TopSet, ConstantTypes DEF Types
  <2> QED
    BY <1>7, <2>2, <2>3 DEF GiveCas, Types
<1> QED
  BY <1>1, <1>2, <1>3, <1>4, <1>5, <1>6, <1>7

\* The types after a step of pfree or palloc.
LEMMA AllocTypes ==
    ASSUME NEW t \in Threads, Types, Control, UNCHANGED lastVer,
           PFree(t) \/ PushLink(t) \/ PushCas(t) \/ PopHead(t) \/ HeadCas(t) \/ UnlinkCache(t)
    PROVE  Types'
<1> USE DEF shared, caches, records, operation, regs, Goto
<1>1. CASE PFree(t)
  <2>0. pc[t] \in FreePC \cup {"retire"}
    BY <1>1 DEF PFree, FreePC
  <2>1. HPs' \in [Threads -> SUBSET Objects]
    BY <1>1 DEF PFree, Types
  <2>2. CASE NewFreeCache(t) /\ FreeReturns(t)
    <3>1. freeCache' \in [Threads -> Pointers] /\ ptrs' \in [Caches -> Seq(Objects)]
      BY <2>0, <2>2, NewFreeCacheTypes
    <3>2. /\ calls' \in [Threads -> Seq(Frames)] /\ own' \in [Threads -> ObjectOrNone]
          /\ op' \in [Threads -> {"none", "insert", "unlink"}] /\ pc' \in [Threads -> RetirePC]
      BY <2>0, <2>2, FreeReturnedTypes
    <3> QED
      BY <1>1, <2>1, <3>1, <3>2 DEF PFree, Types
  <2>3. CASE UNCHANGED freeCache /\ FreeReturns(t) /\ ptrs' = [ptrs EXCEPT ![freeCache[t]] = Append(@, Argument(t))]
    <3>1. ASSUME NEW c \in Caches PROVE Append(ptrs[c], Argument(t)) \in Seq(Objects)
      <4>1. ptrs[c] \in Seq(Objects) /\ Argument(t) \in Objects
        BY <2>0, ArgumentObject DEF Types
      <4> HIDE DEF Argument
      <4> QED
        BY <4>1, AppendProperties
    <3>2. ptrs' \in [Caches -> Seq(Objects)]
      BY <2>3, <3>1 DEF Types
    <3>3. /\ calls' \in [Threads -> Seq(Frames)] /\ own' \in [Threads -> ObjectOrNone]
          /\ op' \in [Threads -> {"none", "insert", "unlink"}] /\ pc' \in [Threads -> RetirePC]
      BY <2>0, <2>3, FreeReturnedTypes
    <3> QED
      BY <1>1, <2>1, <2>3, <3>2, <3>3 DEF PFree, Types
  <2>4. CASE UNCHANGED <<freeCache, ptrs, calls, own, op>> /\ pc' = [pc EXCEPT ![t] = "pushLink"]
    <3>1. pc' \in [Threads -> RetirePC]
      BY <2>4 DEF Types, RetirePC, FreePC
    <3> QED
      BY <1>1, <2>1, <2>4, <3>1 DEF PFree, Types
  <2> QED
    BY <1>1, <2>2, <2>3, <2>4 DEF PFree
<1>2. CASE PushLink(t)
  <2>1. CASE reclaim.ver # localVer[t]
    <3>0. Trigger(t) /\ UNCHANGED <<next, reg>>
      BY <1>2, <2>1 DEF PushLink
    <3>1. calls' \in [Threads -> Seq(Frames)] /\ pc' \in [Threads -> RetirePC]
      BY <3>0, CallBegun DEF Trigger, Types, RetirePC, ChangePC
    <3> QED
      BY <1>2, <3>0, <3>1 DEF PushLink, Types
  <2>2. CASE reclaim.ver = localVer[t]
    <3>0. /\ next' = [next EXCEPT ![freeCache[t]] = reclaim.head] /\ reg' = [reg EXCEPT ![t] = reclaim]
          /\ pc' = [pc EXCEPT ![t] = "pushCas"] /\ UNCHANGED calls
      BY <1>2, <2>2 DEF PushLink
    <3>1. next' \in [Caches -> Pointers]
      BY <3>0 DEF Types, Versioned
    <3>2. reg' \in [Threads -> Versioned]
      BY <3>0 DEF Types
    <3>3. pc' \in [Threads -> RetirePC]
      BY <3>0 DEF Types, RetirePC, FreePC
    <3> QED
      BY <1>2, <3>0, <3>1, <3>2, <3>3 DEF PushLink, Types
  <2> QED
    BY <2>1, <2>2
<1>3. CASE PushCas(t)
  <2>0. pc[t] \in FreePC \cup {"retire"}
    BY <1>3 DEF PushCas, FreePC
  <2>1. reg' \in [Threads -> Versioned]
    <3>1. reg' = [reg EXCEPT ![t] = NoReg]
      BY <1>3 DEF PushCas
    <3> QED
      BY <3>1, ConstantTypes DEF Types
  <2>2. CASE reclaim = reg[t]
    <3>0. reclaim' = [reclaim EXCEPT !.head = freeCache[t]] /\ NewFreeCache(t) /\ FreeReturns(t)
      BY <1>3, <2>2 DEF PushCas
    <3>1. reclaim' \in Versioned
      BY <3>0 DEF Types, Versioned
    <3>2. freeCache' \in [Threads -> Pointers] /\ ptrs' \in [Caches -> Seq(Objects)]
      BY <2>0, <3>0, NewFreeCacheTypes
    <3>3. /\ calls' \in [Threads -> Seq(Frames)] /\ own' \in [Threads -> ObjectOrNone]
          /\ op' \in [Threads -> {"none", "insert", "unlink"}] /\ pc' \in [Threads -> RetirePC]
      BY <2>0, <3>0, FreeReturnedTypes
    <3> QED
      BY <1>3, <2>1, <3>1, <3>2, <3>3 DEF PushCas, Types
  <2>3. CASE reclaim # reg[t]
    <3>0. pc' = [pc EXCEPT ![t] = "pushLink"] /\ UNCHANGED <<reclaim, ptrs, freeCache, own, op, calls>>
      BY <1>3, <2>3 DEF PushCas
    <3>1. pc' \in [Threads -> RetirePC]
      BY <3>0 DEF Types, RetirePC, FreePC
    <3> QED
      BY <1>3, <2>1, <3>0, <3>1 DEF PushCas, Types
  <2> QED
    BY <2>2, <2>3
<1>4. CASE PopHead(t)
  <2>1. CASE head = NULL
    <3>0. Trigger(t) /\ UNCHANGED reg
      BY <1>4, <2>1 DEF PopHead
    <3>1. calls' \in [Threads -> Seq(Frames)] /\ pc' \in [Threads -> RetirePC]
      BY <3>0, CallBegun DEF Trigger, Types, RetirePC, ChangePC
    <3> QED
      BY <1>4, <3>0, <3>1 DEF PopHead, Types
  <2>2. CASE head # NULL
    <3>0. /\ reg' = [reg EXCEPT ![t] = [reg[t] EXCEPT !.head = head]]
          /\ pc' = [pc EXCEPT ![t] = "followHead"] /\ UNCHANGED calls
      BY <1>4, <2>2 DEF PopHead, Types
    <3>1. [reg[t] EXCEPT !.head = head] \in Versioned
      BY DEF Types, Versioned
    <3>2. reg' \in [Threads -> Versioned] /\ pc' \in [Threads -> RetirePC]
      BY <3>0, <3>1 DEF Types, RetirePC, PallocPC
    <3> QED
      BY <1>4, <3>0, <3>2 DEF PopHead, Types
  <2> QED
    BY <2>1, <2>2
<1>5. CASE HeadCas(t)
  <2>0. reg' = [reg EXCEPT ![t] = NoReg] /\ nxt' = [nxt EXCEPT ![t] = NULL]
    BY <1>5 DEF HeadCas
  <2>1. reg' \in [Threads -> Versioned]
    BY <2>0, ConstantTypes DEF Types
  <2>2. nxt' \in [Threads -> Pointers]
    BY <2>0, ConstantTypes DEF Types
  <2>3. head' \in Pointers /\ allocCache' \in [Threads -> Pointers]
    BY <1>5 DEF HeadCas, Types
  <2>4. pc' \in [Threads -> RetirePC]
    BY <1>5 DEF HeadCas, Types, RetirePC, PallocPC
  <2> QED
    BY <1>5, <2>1, <2>2, <2>3, <2>4 DEF HeadCas, Types
<1>6. CASE UnlinkCache(t)
  <2>1. own' \in [Threads -> ObjectOrNone] /\ ptrs' \in [Caches -> Seq(Objects)] /\ pc' \in [Threads -> RetirePC]
    BY <1>6, TakeOrPopTypes DEF UnlinkCache
  <2>2. next' \in [Caches -> Pointers]
    BY <1>6, ConstantTypes DEF UnlinkCache, Types
  <2> QED
    BY <1>6, <2>1, <2>2 DEF UnlinkCache, Types
<1> QED
  BY <1>1, <1>2, <1>3, <1>4, <1>5, <1>6

\* The types after a step of a list operation.
LEMMA ListTypes ==
    ASSUME NEW t \in Threads, Types, Control, UNCHANGED lastVer,
           \/ Clear(t) \/ Search(t) \/ WalkToUnlink(t) \/ WalkToInsert(t) \/ Publish(t)
           \/ Fence(t) \/ Restart(t) \/ Cas(t) \/ Finish(t)
    PROVE  Types'
<1> USE DEF shared, caches, records, operation, regs, Goto
<1>0. /\ dirties[t] \in Words /\ [dirties[t] EXCEPT !.dirty = FALSE] \in Words
      /\ [dirties EXCEPT ![t].dirty = FALSE] = [dirties EXCEPT ![t] = [dirties[t] EXCEPT !.dirty = FALSE]]
      /\ [dirties EXCEPT ![t].dirty = FALSE] \in [Threads -> Words]
  <2>0. dirties \in [Threads -> Words]
    BY DEF Types
  <2>1. dirties[t] \in Words /\ [dirties[t] EXCEPT !.dirty = FALSE] \in Words
    <3>1. \A d \in Words : [d EXCEPT !.dirty = FALSE] \in Words
      BY DEF Words
    <3> QED
      BY <2>0, <3>1
  <2>2. [dirties EXCEPT ![t].dirty = FALSE] = [dirties EXCEPT ![t] = [dirties[t] EXCEPT !.dirty = FALSE]]
    BY DEF Types
  <2>3. [dirties EXCEPT ![t] = [dirties[t] EXCEPT !.dirty = FALSE]] \in [Threads -> Words]
    BY <2>0, <2>1
  <2> QED
    BY <2>1, <2>2, <2>3
<1>1. CASE Clear(t)
  BY <1>0, <1>1 DEF Clear, Types
<1>2. CASE Search(t)
  BY <1>2 DEF Search, vars, Types
<1>3. CASE WalkToUnlink(t)
  <2>1. ref' \in [Threads -> ObjectOrNone]
    BY <1>3 DEF WalkToUnlink, Types, ObjectOrNone
  <2>2. op' \in [Threads -> {"none", "insert", "unlink"}] /\ pc' \in [Threads -> RetirePC]
    BY <1>3 DEF WalkToUnlink, Types, RetirePC, ListPC
  <2> QED
    BY <1>3, <2>1, <2>2 DEF WalkToUnlink, Types
<1>4. CASE WalkToInsert(t)
  <2>1. own' \in [Threads -> ObjectOrNone] /\ ptrs' \in [Caches -> Seq(Objects)] /\ pc' \in [Threads -> RetirePC]
    BY <1>4, TakeOrPopTypes DEF WalkToInsert
  <2>2. ref' \in [Threads -> ObjectOrNone] /\ op' \in [Threads -> {"none", "insert", "unlink"}]
    BY <1>4 DEF WalkToInsert, Types, ObjectOrNone
  <2>a. left \in [Threads -> Nat] /\ (left' = left \/ (left[t] > 0 /\ left' = [left EXCEPT ![t] = left[t] - 1]))
    BY <1>4 DEF WalkToInsert, Types
  <2>3. left' \in [Threads -> Nat]
    <3>1. CASE left' = left
      BY <2>a, <3>1
    <3>2. CASE left[t] > 0 /\ left' = [left EXCEPT ![t] = left[t] - 1]
      <4>1. left[t] - 1 \in Nat
        BY <2>a, <3>2
      <4> QED
        BY <2>a, <3>2, <4>1
    <3> QED
      BY <2>a, <3>1, <3>2
  <2> QED
    BY <1>4, <2>1, <2>2, <2>3 DEF WalkToInsert, Types
<1>5. CASE Publish(t)
  <2>1. {ref[t], own[t]} \ {NoObject} \in SUBSET Objects
    BY DEF Types, ObjectOrNone
  <2>2. HPs' \in [Threads -> SUBSET Objects] /\ pc' \in [Threads -> RetirePC]
    BY <1>5, <2>1 DEF Publish, Types, RetirePC, ListPC
  <2> QED
    BY <1>5, <2>2 DEF Publish, Types
<1>6. CASE Fence(t)
  <2>1. pc' \in [Threads -> RetirePC]
    BY <1>6 DEF Fence, Types, RetirePC, ListPC
  <2> QED
    BY <1>0, <1>6, <2>1 DEF Fence, Types
<1>7. CASE Restart(t)
  <2>1. HPs' \in [Threads -> SUBSET Objects] /\ forgotten' \in SUBSET Objects
    BY <1>7 DEF Restart, Types, ObjectOrNone
  <2>2. own' \in [Threads -> ObjectOrNone] /\ ref' \in [Threads -> ObjectOrNone]
    BY <1>7 DEF Restart, Types, ObjectOrNone
  <2>3. op' \in [Threads -> {"none", "insert", "unlink"}] /\ pc' \in [Threads -> RetirePC]
    BY <1>7 DEF Restart, Types, RetirePC, ListPC
  <2> QED
    BY <1>0, <1>7, <2>1, <2>2, <2>3 DEF Restart, Types
<1>8. CASE Cas(t)
  <2>1. own' \in [Threads -> ObjectOrNone] /\ ref' \in [Threads -> ObjectOrNone]
    BY <1>8 DEF Cas, Types, ObjectOrNone
  <2>2. pc' \in [Threads -> RetirePC]
    BY <1>8 DEF Cas, Types, RetirePC, ListPC
  <2>3. linked' \in SUBSET Objects
    <3>1. op[t] = "insert" => own[t] \in Objects
      BY <1>8 DEF Cas, Control, OperationOf
    <3> QED
      BY <1>8, <3>1 DEF Cas, Types
  <2> QED
    BY <1>8, <2>1, <2>2, <2>3 DEF Cas, Types
<1>9. CASE Finish(t)
  <2>1. ptrs' \in [Caches -> Seq(Objects)]
    <3>1. CASE own[t] = NoObject
      BY <1>9, <3>1 DEF Finish, Types
    <3>2. CASE own[t] # NoObject
      <4>1. \A c \in Caches : Append(ptrs[c], own[t]) \in Seq(Objects)
        BY <3>2 DEF Types, ObjectOrNone
      <4>2. ptrs' = [ptrs EXCEPT ![allocCache[t]] = Append(@, own[t])]
        BY <1>9, <3>2 DEF Finish
      <4> QED
        BY <4>1, <4>2 DEF Types
    <3> QED
      BY <3>1, <3>2
  <2>2. HPs' \in [Threads -> SUBSET Objects] /\ own' \in [Threads -> ObjectOrNone]
    BY <1>9 DEF Finish, Types, ObjectOrNone
  <2>3. op' \in [Threads -> {"none", "insert", "unlink"}] /\ pc' \in [Threads -> RetirePC]
    BY <1>9 DEF Finish, Types, RetirePC, ListPC
  <2> QED
    BY <1>9, <2>1, <2>2, <2>3 DEF Finish, Types
<1> QED
  BY <1>1, <1>2, <1>3, <1>4, <1>5, <1>6, <1>7, <1>8, <1>9

\* The steps of a thread in groups.
LEMMA StepGroups ==
    ASSUME NEW t \in Threads, Step(t)
    PROVE  \/ Freeze(t) \/ LoadHead(t) \/ Move(t) \/ Unfreeze(t) \/ Look(t) \/ Stamp(t) \/ Save(t)
           \/ Pop(t) \/ Follow(t) \/ PopCas(t) \/ Repair(t) \/ Scan(t) \/ EndScan(t) \/ GiveCas(t)
           \/ PFree(t) \/ PushLink(t) \/ PushCas(t) \/ PopHead(t) \/ HeadCas(t) \/ UnlinkCache(t)
           \/ Clear(t) \/ Search(t) \/ WalkToUnlink(t) \/ WalkToInsert(t) \/ Publish(t)
           \/ Fence(t) \/ Restart(t) \/ Cas(t) \/ Finish(t)
  BY DEF Step

\* The types after any step.
LEMMA StepTypes ==
    ASSUME NEW t \in Threads, Types, Control, UNCHANGED lastVer, Step(t)
    PROVE  Types'
  BY StepGroups, ChangeTypes, RecycleTypes, AllocTypes, ListTypes

-----------------------------------------------------------------------------
(* What a step leaves alone.                                               *)

\* What belongs to the thread u, except its dirty byte, is as before.
Same(u) ==
    /\ pc'[u] = pc[u] /\ calls'[u] = calls[u] /\ HPs'[u] = HPs[u] /\ hps'[u] = hps[u]
    /\ op'[u] = op[u] /\ ref'[u] = ref[u] /\ own'[u] = own[u]
    /\ localVer'[u] = localVer[u] /\ allocCache'[u] = allocCache[u] /\ freeCache'[u] = freeCache[u]
    /\ reg'[u] = reg[u] /\ nxt'[u] = nxt[u] /\ seen'[u] = seen[u] /\ i'[u] = i[u]

\* A change of the topmost call, or of their number, is one of the thread's own calls.
LEMMA OtherCalls ==
    ASSUME NEW t \in Threads, Types, NEW u \in Threads, u # t
    PROVE  /\ \A f : SetTop(t, f) => calls'[u] = calls[u]
           /\ Trigger(t) => calls'[u] = calls[u] /\ pc'[u] = pc[u]
           /\ Return(t) => calls'[u] = calls[u] /\ pc'[u] = pc[u] /\ hps'[u] = hps[u]
           /\ FreeReturns(t) => calls'[u] = calls[u] /\ pc'[u] = pc[u] /\ op'[u] = op[u] /\ own'[u] = own[u]
<1> calls \in [Threads -> Seq(Frames)] /\ pc \in [Threads -> RetirePC] /\ hps \in [Threads -> SUBSET Objects]
       /\ op \in [Threads -> {"none", "insert", "unlink"}] /\ own \in [Threads -> ObjectOrNone]
  BY DEF Types
<1>1. ASSUME NEW f, SetTop(t, f) PROVE calls'[u] = calls[u]
  BY <1>1 DEF SetTop
<1>2. Trigger(t) => calls'[u] = calls[u] /\ pc'[u] = pc[u]
  BY DEF Trigger, Goto
<1>3. Return(t) => calls'[u] = calls[u] /\ pc'[u] = pc[u] /\ hps'[u] = hps[u]
  BY DEF Return, Goto
<1>4. FreeReturns(t) => calls'[u] = calls[u] /\ pc'[u] = pc[u] /\ op'[u] = op[u] /\ own'[u] = own[u]
  BY <1>1 DEF FreeReturns, Goto
<1> QED
  BY <1>1, <1>2, <1>3, <1>4

\* A step leaves alone what belongs to other threads.
LEMMA OthersSame ==
    ASSUME NEW t \in Threads, Types, Step(t), NEW u \in Threads, u # t
    PROVE  Same(u)
<1> USE DEF shared, caches, records, operation, regs, Goto, Same
<1> /\ calls \in [Threads -> Seq(Frames)] /\ pc \in [Threads -> RetirePC]
    /\ hps \in [Threads -> SUBSET Objects] /\ HPs \in [Threads -> SUBSET Objects]
    /\ op \in [Threads -> {"none", "insert", "unlink"}]
    /\ own \in [Threads -> ObjectOrNone] /\ ref \in [Threads -> ObjectOrNone]
    /\ localVer \in [Threads -> Nat] /\ allocCache \in [Threads -> Pointers]
    /\ freeCache \in [Threads -> Pointers] /\ reg \in [Threads -> Versioned]
    /\ nxt \in [Threads -> Pointers] /\ seen \in [Threads -> Words] /\ i \in [Threads -> Threads]
  BY DEF Types
<1>0. /\ Freeze(t) \/ LoadHead(t) \/ Move(t) \/ Unfreeze(t) \/ Look(t) \/ Stamp(t) \/ Save(t) => Same(u)
      /\ Follow(t) \/ PopCas(t) \/ HeadCas(t) => Same(u)
      /\ Clear(t) \/ WalkToUnlink(t) \/ Publish(t) \/ Fence(t) \/ Restart(t) \/ Cas(t) \/ Finish(t) => Same(u)
  BY DEF Freeze, LoadHead, Move, Unfreeze, Look, Stamp, Save, NextThread, Follow, PopCas, HeadCas, Clear,
    WalkToUnlink, Publish, Fence, Restart, Cas, Finish
<1>1. Pop(t) => Same(u)
  BY OtherCalls DEF Pop
<1>2. Repair(t) => Same(u)
  BY OtherCalls DEF Repair
<1>3. Scan(t) => Same(u)
  BY OtherCalls DEF Scan
<1>4. EndScan(t) => Same(u)
  BY OtherCalls DEF EndScan
<1>5. GiveCas(t) => Same(u)
  BY OtherCalls DEF GiveCas
<1>6. PFree(t) => Same(u)
  BY OtherCalls DEF PFree, NewFreeCache
<1>7. PushLink(t) => Same(u)
  BY OtherCalls DEF PushLink
<1>8. PushCas(t) => Same(u)
  BY OtherCalls DEF PushCas, NewFreeCache
<1>9. PopHead(t) => Same(u)
  BY OtherCalls DEF PopHead
<1>10. UnlinkCache(t) \/ WalkToInsert(t) => Same(u)
  BY DEF UnlinkCache, WalkToInsert, TakeOrPop
<1>11. Search(t) => Same(u)
  BY DEF Search, vars
<1> QED
  BY <1>0, <1>1, <1>2, <1>3, <1>4, <1>5, <1>6, <1>7, <1>8, <1>9, <1>10, <1>11 DEF Step

\* A step writes to the caches of its thread, and to a cache that malloc gives.
LEMMA OwnWrites ==
    ASSUME NEW t \in Threads, Types, Control, Remembered(t), Step(t),
           NEW c \in Caches, c \notin Mine(t), c \in Referenced
    PROVE  next'[c] = next[c] /\ ptrs'[c] = ptrs[c]
<1> USE DEF caches
<1> next \in [Caches -> Pointers] /\ ptrs \in [Caches -> Seq(Objects)]
  BY DEF Types
<1>0. NULL \notin Caches
  BY ConstantTypes
<1>1. c # allocCache[t] /\ c # freeCache[t] /\ (pc[t] = "repair" => c # reg[t].head)
  BY <1>0 DEF Mine, Popped
<1>2. pc[t] \in ScanPC => c # Top(t).entry
  <2> SUFFICES ASSUME pc[t] \in ScanPC PROVE c # Top(t).entry
    OBVIOUS
  <2>1. calls[t] # <<>>
    BY DEF Control, CallsOf, ScanPC, ListPC, PallocPC, FreePC
  <2>2. Top(t).entry \in Entries(t)
    BY <2>1, TopFrame DEF Entries
  <2> QED
    BY <1>0, <2>2 DEF Mine
<1>3. c \notin Fresh
  BY FreshCache
<1>4. \/ Freeze(t) \/ LoadHead(t) \/ Move(t) \/ Unfreeze(t) \/ Look(t) \/ Stamp(t) \/ Save(t)
      \/ Pop(t) \/ Follow(t) \/ PopCas(t) \/ Scan(t) \/ GiveCas(t) \/ PopHead(t) \/ HeadCas(t)
      \/ Clear(t) \/ Search(t) \/ WalkToUnlink(t) \/ Publish(t) \/ Fence(t) \/ Restart(t) \/ Cas(t)
      => UNCHANGED <<next, ptrs>>
  BY DEF Freeze, LoadHead, Move, Unfreeze, Look, Stamp, Save, Pop, Follow, PopCas, Scan, GiveCas, PopHead,
    HeadCas, Clear, Search, vars, WalkToUnlink, Publish, Fence, Restart, Cas
<1>5. Repair(t) => next'[c] = next[c] /\ ptrs'[c] = ptrs[c]
  BY <1>1 DEF Repair, Remembered
<1>6. EndScan(t) => next'[c] = next[c] /\ ptrs'[c] = ptrs[c]
  BY <1>2 DEF EndScan, ScanPC
<1>7. PFree(t) => next'[c] = next[c] /\ ptrs'[c] = ptrs[c]
  BY <1>1, <1>3 DEF PFree, NewFreeCache
<1>8. PushLink(t) => next'[c] = next[c] /\ ptrs'[c] = ptrs[c]
  BY <1>1 DEF PushLink
<1>9. PushCas(t) => next'[c] = next[c] /\ ptrs'[c] = ptrs[c]
  BY <1>3 DEF PushCas, NewFreeCache
<1>10. UnlinkCache(t) \/ WalkToInsert(t) \/ Finish(t) => next'[c] = next[c] /\ ptrs'[c] = ptrs[c]
  BY <1>1 DEF UnlinkCache, WalkToInsert, TakeOrPop, Finish
<1> QED
  BY <1>4, <1>5, <1>6, <1>7, <1>8, <1>9, <1>10 DEF Step

-----------------------------------------------------------------------------
(* The versions.                                                           *)

\* The numbers of the version order.
LEMMA VersionNumbers ==
    ASSUME Types, VersionOrder
    PROVE  /\ reclaim.ver \in Nat /\ toProcess.ver \in Nat /\ lastVer \in Nat
           /\ toProcess.ver >= 2
           /\ \/ reclaim.ver = toProcess.ver - 1 /\ ~ Even(reclaim.ver)
              \/ reclaim.ver = toProcess.ver /\ Even(reclaim.ver)
              \/ reclaim.ver = toProcess.ver + 1 /\ ~ Even(reclaim.ver)
           /\ \A u \in Threads : localVer[u] \in Nat
<1>1. /\ reclaim.ver \in Nat /\ toProcess.ver \in Nat /\ lastVer \in Nat
      /\ \A u \in Threads : localVer[u] \in Nat
  BY DEF Types, Versioned
<1>2. /\ Even(toProcess.ver) /\ toProcess.ver >= 2
      /\ reclaim.ver \in {toProcess.ver - 1, toProcess.ver, toProcess.ver + 1}
  BY DEF VersionOrder
<1>3. ~ Even(toProcess.ver - 1) /\ ~ Even(toProcess.ver + 1)
  BY <1>1, <1>2, EvenFacts
<1> QED
  BY <1>1, <1>2, <1>3

\* The thread that makes reclaim's version odd finds that everything has been processed.
LEMMA FreezeVersions ==
    ASSUME NEW t \in Threads, Types, Control, Versions, Freeze(t), UNCHANGED lastVer
    PROVE  Versions'
<1> USE DEF shared, caches, regs, Goto
<1>0. /\ reclaim \in Versioned /\ pc \in [Threads -> RetirePC] /\ reg \in [Threads -> Versioned]
      /\ UNCHANGED <<toProcess, localVer, calls>> /\ pc[t] = "freeze" /\ localVer[t] < lastVer
      /\ \A u \in Threads : localVer[u] \in Nat
  BY DEF Types, Freeze
<1>1. VersionOrder /\ Emptied /\ \A u \in Threads : Changing(u)
  BY DEF Versions
<1>2. \A u \in Threads : u # t => pc'[u] = pc[u] /\ reg'[u] = reg[u]
  BY <1>0 DEF Freeze
<1>3. CASE reclaim.ver = localVer[t]
  <2>1. /\ reclaim'.ver = localVer[t] + 1 /\ reclaim'.head = reclaim.head
        /\ reg'[t].head = reclaim.head /\ pc'[t] = "move"
    BY <1>0, <1>3 DEF Freeze, Versioned
  <2>2. toProcess.ver = localVer[t] /\ toProcess.head = NULL /\ Even(localVer[t])
    BY <1>0, <1>1, <1>3, VersionNumbers DEF Changing, Emptied
  <2>3. VersionOrder'
    BY <1>0, <1>1, <1>3, <2>1, <2>2, VersionNumbers, EvenFacts DEF VersionOrder
  <2>4. ASSUME NEW u \in Threads PROVE Changing(u)'
    BY <1>0, <1>1, <1>2, <1>3, <2>1, <2>2, VersionNumbers DEF Changing
  <2>5. Emptied'
    BY <1>0, <2>2 DEF Emptied
  <2> QED
    BY <2>3, <2>4, <2>5 DEF Versions
<1>4. CASE reclaim.ver # localVer[t]
  <2>1. /\ UNCHANGED <<reclaim, reg>>
        /\ pc'[t] = (IF reclaim.ver = localVer[t] + 1 THEN "loadHead" ELSE "unfreeze")
    BY <1>0, <1>4 DEF Freeze
  <2>2. VersionOrder'
    BY <1>0, <1>1, <2>1 DEF VersionOrder
  <2>3. reclaim.ver > localVer[t] /\ (reclaim.ver # localVer[t] + 1 => toProcess.ver > localVer[t])
    BY <1>0, <1>1, <1>4, VersionNumbers, EvenFacts DEF Changing
  <2>4. ASSUME NEW u \in Threads PROVE Changing(u)'
    BY <1>0, <1>1, <1>2, <2>1, <2>3 DEF Changing
  <2>5. Emptied'
    BY <1>0, <1>1, <1>2, <2>1 DEF Emptied
  <2> QED
    BY <2>2, <2>4, <2>5 DEF Versions
<1> QED
  BY <1>3, <1>4

\* toProcess takes the retired caches.
LEMMA MoveVersions ==
    ASSUME NEW t \in Threads, Types, Control, Versions, Move(t), UNCHANGED lastVer
    PROVE  /\ Versions'
           /\ toProcess.ver = localVer[t] => toProcess.head = NULL /\ reclaim.ver = toProcess.ver + 1
<1> USE DEF shared, caches, regs, Goto
<1>0. /\ toProcess \in Versioned /\ pc \in [Threads -> RetirePC] /\ reg \in [Threads -> Versioned]
      /\ UNCHANGED <<reclaim, localVer, calls>> /\ pc[t] = "move" /\ pc'[t] = "unfreeze"
      /\ \A u \in Threads : localVer[u] \in Nat
  BY DEF Types, Move
<1>1. VersionOrder /\ Emptied /\ \A u \in Threads : Changing(u)
  BY DEF Versions
<1>2. \A u \in Threads : u # t => pc'[u] = pc[u] /\ reg'[u] = reg[u]
  BY <1>0 DEF Move
<1>3. reclaim.ver > localVer[t] /\ localVer[t] < lastVer
  BY <1>0, <1>1 DEF Changing, ChangePC
<1>4. CASE toProcess.ver = localVer[t]
  <2>1. reclaim.ver = toProcess.ver + 1 /\ toProcess.head = NULL
    BY <1>0, <1>1, <1>3, <1>4, VersionNumbers DEF Emptied
  <2>2. toProcess'.ver = localVer[t] + 2
    BY <1>0, <1>4 DEF Move
  <2>3. lastVer >= localVer[t] + 2
    BY <1>0, <1>1, <1>4, <2>1, VersionNumbers, EvenFacts DEF VersionOrder
  <2>4. VersionOrder'
    BY <1>0, <1>1, <1>4, <2>1, <2>2, <2>3, VersionNumbers, EvenFacts DEF VersionOrder
  <2>5. ASSUME NEW u \in Threads PROVE Changing(u)'
    BY <1>0, <1>1, <1>2, <1>3, <1>4, <2>2, VersionNumbers DEF Changing
  <2>6. Emptied'
    BY <1>0, <1>1, <1>4, <2>1, <2>2, VersionNumbers DEF Emptied, Changing
  <2> QED
    BY <2>1, <2>4, <2>5, <2>6 DEF Versions
<1>5. CASE toProcess.ver # localVer[t]
  <2>1. UNCHANGED toProcess
    BY <1>5 DEF Move
  <2>2. VersionOrder'
    BY <1>0, <1>1, <2>1 DEF VersionOrder
  <2>3. toProcess.ver > localVer[t]
    BY <1>0, <1>1, <1>5, VersionNumbers DEF Changing
  <2>4. ASSUME NEW u \in Threads PROVE Changing(u)'
    BY <1>0, <1>1, <1>2, <1>3, <2>1, <2>3 DEF Changing
  <2>5. Emptied'
    BY <1>0, <1>1, <1>2, <2>1 DEF Emptied
  <2> QED
    BY <1>5, <2>2, <2>4, <2>5 DEF Versions
<1> QED
  BY <1>4, <1>5

\* reclaim follows.
LEMMA UnfreezeVersions ==
    ASSUME NEW t \in Threads, Types, Control, Versions, Unfreeze(t), UNCHANGED lastVer
    PROVE  /\ Versions'
           /\ reclaim.ver = localVer[t] + 1 => toProcess.ver = localVer[t] + 2 /\ reclaim.ver = toProcess.ver - 1
<1> USE DEF shared, caches, regs, Goto
<1>0. /\ pc \in [Threads -> RetirePC] /\ localVer \in [Threads -> Nat]
      /\ UNCHANGED <<toProcess, calls, reg>> /\ pc[t] = "unfreeze" /\ pc'[t] = "look"
      /\ localVer'[t] = localVer[t] + 2
  BY DEF Types, Unfreeze
<1>1. VersionOrder /\ Emptied /\ \A u \in Threads : Changing(u)
  BY DEF Versions
<1>2. \A u \in Threads : u # t => pc'[u] = pc[u] /\ localVer'[u] = localVer[u]
  BY <1>0 DEF Unfreeze
<1>3. /\ toProcess.ver > localVer[t] /\ toProcess.ver >= localVer[t] + 2 /\ reclaim.ver > localVer[t]
      /\ Even(localVer[t]) /\ Even(localVer[t] + 2)
  BY <1>0, <1>1, VersionNumbers, EvenFacts DEF Changing, ChangePC, VersionOrder
<1>4. calls[t] # <<>>
  BY <1>0 DEF Control, CallsOf, ListPC, PallocPC, FreePC
<1>5. CASE reclaim.ver = localVer[t] + 1
  <2>1. toProcess.ver = localVer[t] + 2 /\ reclaim.ver = toProcess.ver - 1
    BY <1>0, <1>1, <1>3, <1>5, VersionNumbers
  <2>2. reclaim'.ver = localVer[t] + 2 /\ reclaim'.ver = toProcess.ver
    BY <1>5, <2>1 DEF Unfreeze
  <2>3. VersionOrder'
    BY <1>0, <1>1, <2>1, <2>2, VersionNumbers DEF VersionOrder
  <2>4. ASSUME NEW u \in Threads PROVE Changing(u)'
    <3>1. CASE u = t
      BY <1>0, <1>3, <2>1, <2>2, <3>1 DEF Changing, ChangePC
    <3>2. CASE u # t
      BY <1>0, <1>1, <1>2, <2>1, <2>2, <3>2, VersionNumbers DEF Changing
    <3> QED
      BY <3>1, <3>2
  <2>5. Emptied'
    BY <1>0, <1>1, <1>2, <1>4, <2>1, <2>2, VersionNumbers DEF Emptied, Changing
  <2> QED
    BY <2>1, <2>3, <2>4, <2>5 DEF Versions
<1>6. CASE reclaim.ver # localVer[t] + 1
  <2>1. UNCHANGED reclaim
    BY <1>6 DEF Unfreeze
  <2>2. VersionOrder'
    BY <1>0, <1>1, <2>1 DEF VersionOrder
  <2>3. reclaim.ver >= localVer[t] + 2
    BY <1>0, <1>3, <1>6, VersionNumbers, <1>1
  <2>4. ASSUME NEW u \in Threads PROVE Changing(u)'
    <3>1. CASE u = t
      BY <1>0, <1>3, <2>1, <2>3, <3>1 DEF Changing, ChangePC
    <3>2. CASE u # t
      BY <1>0, <1>1, <1>2, <2>1, <3>2 DEF Changing
    <3> QED
      BY <3>1, <3>2
  <2>5. Emptied'
    BY <1>0, <1>1, <1>2, <1>4, <2>1 DEF Emptied
  <2> QED
    BY <1>6, <2>2, <2>4, <2>5 DEF Versions
<1> QED
  BY <1>5, <1>6

\* What the other steps do to the versions, the stacks and the calls.
VersionEffects(t) ==
    /\ reclaim'.ver = reclaim.ver /\ toProcess'.ver = toProcess.ver /\ localVer' = localVer
    /\ UNCHANGED reclaim \/ reclaim.ver = localVer[t]
    /\ UNCHANGED toProcess \/ (toProcess.head # NULL /\ toProcess.ver = localVer[t])
    /\ \/ pc'[t] \notin ChangePC
       \/ pc'[t] = "move" /\ pc[t] = "loadHead" /\ reg'[t].head = reclaim.head /\ UNCHANGED reclaim
       \/ /\ pc'[t] = "freeze" /\ UNCHANGED toProcess
          /\ calls[t] = <<>> \/ reclaim.ver # localVer[t]
    /\ calls'[t] = <<>> =>
        \/ calls[t] = <<>>
        \/ (toProcess.ver # localVer[t] \/ toProcess.head = NULL) /\ UNCHANGED toProcess

\* The steps of a collection after the change of phase.
LEMMA RecycleVersions ==
    ASSUME NEW t \in Threads, Types, Control,
           \/ LoadHead(t) \/ Look(t) \/ Stamp(t) \/ Save(t)
           \/ Pop(t) \/ Follow(t) \/ PopCas(t) \/ Repair(t) \/ Scan(t) \/ EndScan(t) \/ GiveCas(t)
    PROVE  VersionEffects(t)
<1> USE DEF shared, caches, regs, Goto, VersionEffects
<1>0. pc \in [Threads -> RetirePC] /\ reg \in [Threads -> Versioned] /\ toProcess \in Versioned
  BY DEF Types
<1>a. /\ ~ Follow(t) => calls[t] # <<>>
      /\ pc[t] = "popCas" => reg[t].head # NULL /\ reg[t].ver = localVer[t]
  <2>1. ~ Follow(t) => pc[t] \in StampPC \cup {"save", "loadHead"} \cup PopPC \cup ScanPC
    <3>1. LoadHead(t) \/ Look(t) \/ Stamp(t) \/ Save(t) => pc[t] \in StampPC \cup {"save", "loadHead"}
      BY DEF LoadHead, Look, Stamp, Save, StampPC
    <3>2. /\ Pop(t) => pc[t] = "pop"
          /\ PopCas(t) => pc[t] = "popCas"
          /\ Repair(t) => pc[t] = "repair"
          /\ Scan(t) \/ EndScan(t) => pc[t] = "scan"
          /\ GiveCas(t) => pc[t] = "giveCas"
      BY DEF Pop, PopCas, Repair, Scan, EndScan, GiveCas
    <3> QED
      BY <3>1, <3>2 DEF StampPC, PopPC, ScanPC
  <2> QED
    BY <2>1, ConstantTypes DEF Control, CallsOf, RegistersOf, ListPC, PallocPC, FreePC, StampPC, PopPC, ScanPC
<1>b. ~ Follow(t) => \A f \in Frames : SetTop(t, f) => calls'[t] # <<>>
  BY <1>a, TopSet
<1>c. /\ Repair(t) \/ Scan(t) \/ EndScan(t) \/ GiveCas(t) => ~ Follow(t)
      /\ LoadHead(t) \/ Pop(t) \/ PopCas(t) => ~ Follow(t)
  BY DEF Repair, Scan, EndScan, GiveCas, LoadHead, Pop, PopCas, Follow
<1>1. CASE LoadHead(t)
  BY <1>0, <1>a, <1>c, <1>1 DEF LoadHead
<1>2. CASE Look(t) \/ Stamp(t) \/ Save(t) \/ Follow(t)
  <2>1. UNCHANGED <<reclaim, toProcess, localVer, calls>>
    BY <1>2 DEF Look, Stamp, Save, Follow
  <2>2. pc'[t] \notin ChangePC
    BY <1>0, <1>2 DEF Look, Stamp, Save, Follow, NextThread, ChangePC
  <2> QED
    BY <2>1, <2>2
<1>3. CASE Pop(t)
  <2>1. UNCHANGED <<reclaim, toProcess, localVer>>
    BY <1>3 DEF Pop
  <2>2. pc'[t] \notin ChangePC
    BY <1>0, <1>3 DEF Pop, Return, ChangePC
  <2>3. UNCHANGED calls \/ toProcess.ver # localVer[t] \/ toProcess.head = NULL
    BY <1>3 DEF Pop
  <2> QED
    BY <1>a, <1>c, <2>1, <2>2, <2>3
<1>4. CASE PopCas(t)
  <2>1. UNCHANGED <<reclaim, localVer, calls>>
    BY <1>4 DEF PopCas
  <2>2. pc'[t] \notin ChangePC
    BY <1>0, <1>4 DEF PopCas, ChangePC
  <2>3. UNCHANGED toProcess \/ (toProcess = reg[t] /\ toProcess'.ver = toProcess.ver)
    BY <1>0, <1>4 DEF PopCas, Versioned
  <2>4. pc[t] = "popCas"
    BY <1>4 DEF PopCas
  <2> QED
    BY <1>a, <1>c, <2>1, <2>2, <2>3, <2>4
<1>5. CASE Repair(t)
  <2>1. UNCHANGED <<reclaim, toProcess, localVer>> /\ pc'[t] = "scan"
    BY <1>0, <1>5 DEF Repair
  <2>2. calls'[t] # <<>>
    BY <1>5, <1>a, <1>c DEF Repair, SetTop, Types
  <2> QED
    BY <2>1, <2>2 DEF ChangePC
<1>6. CASE Scan(t)
  <2>1. UNCHANGED <<reclaim, toProcess, localVer>> /\ pc'[t] \in {"scan", "pfree"}
    BY <1>0, <1>6 DEF Scan
  <2>2. calls'[t] # <<>>
    BY <1>6, <1>a, <1>c DEF Scan, SetTop, Types
  <2> QED
    BY <2>1, <2>2 DEF ChangePC
<1>7. CASE EndScan(t)
  <2>1. UNCHANGED <<reclaim, toProcess, localVer>> /\ pc'[t] \in {"giveCas", "pop"}
    BY <1>0, <1>7 DEF EndScan
  <2>2. calls'[t] # <<>>
    BY <1>7, <1>a, <1>b, <1>c, ConstantTypes DEF EndScan
  <2> QED
    BY <2>1, <2>2 DEF ChangePC
<1>8. CASE GiveCas(t)
  <2>1. UNCHANGED <<reclaim, toProcess, localVer>> /\ pc'[t] \in {"scan", "pop"}
    BY <1>0, <1>8 DEF GiveCas
  <2>2. calls'[t] # <<>>
    BY <1>8, <1>a, <1>b, <1>c, ConstantTypes DEF GiveCas
  <2> QED
    BY <2>1, <2>2 DEF ChangePC
<1> QED
  BY <1>1, <1>2, <1>3, <1>4, <1>5, <1>6, <1>7, <1>8

\* The steps of pfree, palloc and the list.
LEMMA MutatorVersions ==
    ASSUME NEW t \in Threads, Types, Control,
           \/ PFree(t) \/ PushLink(t) \/ PushCas(t) \/ PopHead(t) \/ HeadCas(t) \/ UnlinkCache(t)
           \/ Clear(t) \/ Search(t) \/ WalkToUnlink(t) \/ WalkToInsert(t) \/ Publish(t)
           \/ Fence(t) \/ Restart(t) \/ Cas(t) \/ Finish(t)
    PROVE  VersionEffects(t)
<1> USE DEF shared, caches, regs, Goto, VersionEffects
<1>0. pc \in [Threads -> RetirePC] /\ reg \in [Threads -> Versioned] /\ reclaim \in Versioned
  BY DEF Types
<1>a. /\ pc[t] \in ListPC \cup PallocPC => calls[t] = <<>>
      /\ pc[t] = "pushCas" => reg[t].ver = localVer[t]
  BY DEF Control, CallsOf, RegistersOf
<1>b. FreeReturns(t) => pc'[t] \in {"walk", "scan"} /\ (calls'[t] = <<>> => calls[t] = <<>>)
  BY <1>0 DEF FreeReturns, SetTop, Types
<1>c. Trigger(t) => pc'[t] = "freeze" /\ calls'[t] # <<>>
  BY <1>0, CallBegun DEF Trigger
<1>1. CASE PFree(t)
  <2>1. UNCHANGED <<reclaim, toProcess, localVer>>
    BY <1>1 DEF PFree
  <2>2. FreeReturns(t) \/ (pc'[t] = "pushLink" /\ UNCHANGED calls)
    BY <1>0, <1>1 DEF PFree
  <2> QED
    BY <1>b, <2>1, <2>2 DEF ChangePC
<1>2. CASE PushLink(t)
  <2>1. UNCHANGED <<reclaim, toProcess, localVer>>
    BY <1>2 DEF PushLink
  <2>2. (Trigger(t) /\ reclaim.ver # localVer[t]) \/ (pc'[t] = "pushCas" /\ UNCHANGED calls)
    BY <1>0, <1>2 DEF PushLink
  <2> QED
    BY <1>c, <2>1, <2>2 DEF ChangePC
<1>3. CASE PushCas(t)
  <2>1. UNCHANGED <<toProcess, localVer>>
    BY <1>3 DEF PushCas
  <2>2. FreeReturns(t) \/ (pc'[t] = "pushLink" /\ UNCHANGED calls)
    BY <1>0, <1>3 DEF PushCas
  <2>3. UNCHANGED reclaim \/ (reclaim'.ver = reclaim.ver /\ reclaim.ver = localVer[t])
    BY <1>0, <1>3, <1>a DEF PushCas, Versioned
  <2> QED
    BY <1>b, <2>1, <2>2, <2>3 DEF ChangePC
<1>4. CASE PopHead(t)
  <2>1. UNCHANGED <<reclaim, toProcess, localVer>> /\ calls[t] = <<>>
    BY <1>4, <1>a DEF PopHead, PallocPC
  <2>2. Trigger(t) \/ pc'[t] = "followHead"
    BY <1>0, <1>4 DEF PopHead
  <2> QED
    BY <1>c, <2>1, <2>2 DEF ChangePC
<1>5. CASE \/ HeadCas(t) \/ UnlinkCache(t) \/ Clear(t) \/ Search(t) \/ WalkToUnlink(t) \/ WalkToInsert(t)
           \/ Publish(t) \/ Fence(t) \/ Restart(t) \/ Cas(t) \/ Finish(t)
  <2>1. UNCHANGED <<reclaim, toProcess, localVer, calls>>
    BY <1>5 DEF HeadCas, UnlinkCache, Clear, Search, vars, WalkToUnlink, WalkToInsert, Publish, Fence, Restart,
      Cas, Finish
  <2>2. pc'[t] \in ListPC \cup PallocPC
    BY <1>0, <1>5 DEF HeadCas, UnlinkCache, Clear, Search, vars, WalkToUnlink, WalkToInsert, Publish, Fence, Restart,
      Cas, Finish, TakeOrPop, ListPC, PallocPC
  <2> QED
    BY <2>1, <2>2 DEF ListPC, PallocPC, ChangePC
<1> QED
  BY <1>1, <1>2, <1>3, <1>4, <1>5

\* Any step keeps the version order and what has been processed.
LEMMA StepVersions ==
    ASSUME NEW t \in Threads, Types, Control, Versions, Step(t), UNCHANGED lastVer
    PROVE  Versions'
<1>1. CASE Freeze(t) \/ Move(t) \/ Unfreeze(t)
  BY <1>1, FreezeVersions, MoveVersions, UnfreezeVersions
<1>2. CASE ~ (Freeze(t) \/ Move(t) \/ Unfreeze(t))
  <2>0. VersionEffects(t)
    BY <1>2, RecycleVersions, MutatorVersions DEF Step
  <2>1. VersionOrder /\ Emptied /\ \A u \in Threads : Changing(u)
    BY DEF Versions
  <2>2. VersionOrder'
    BY <2>0, <2>1 DEF VersionOrder, VersionEffects
  <2>3. ASSUME NEW u \in Threads PROVE Changing(u)'
    <3>1. CASE u = t
      BY <2>0, <2>1, <3>1 DEF Changing, VersionEffects, ChangePC
    <3>2. CASE u # t
      <4>1. pc'[u] = pc[u] /\ reg'[u] = reg[u]
        BY <3>2, OthersSame DEF Same
      <4>2. UNCHANGED reclaim \/ (reclaim.ver = localVer[t] /\ Even(reclaim.ver))
        BY <2>0, <2>1 DEF VersionEffects, Changing
      <4> QED
        BY <2>0, <2>1, <4>1, <4>2, VersionNumbers DEF Changing, VersionEffects, ChangePC
    <3> QED
      BY <3>1, <3>2
  <2>4. Emptied'
    <3>1. reclaim'.ver = toProcess'.ver + 1 => toProcess'.head = NULL
      BY <2>0, <2>1 DEF VersionEffects, Emptied
    <3>2. ASSUME NEW u \in Threads, localVer'[u] = toProcess'.ver,
                 calls'[u] = <<>> \/ (pc'[u] = "freeze" /\ reclaim'.ver = toProcess'.ver)
          PROVE  toProcess'.head = NULL
      <4>1. localVer[u] = toProcess.ver /\ reclaim'.ver = reclaim.ver /\ toProcess'.ver = toProcess.ver
        BY <2>0, <3>2 DEF VersionEffects
      <4>2. CASE u = t
        BY <2>0, <2>1, <3>2, <4>1, <4>2 DEF VersionEffects, Emptied, ChangePC
      <4>3. CASE u # t
        <5>1. pc'[u] = pc[u] /\ calls'[u] = calls[u]
          BY <4>3, OthersSame DEF Same
        <5>2. toProcess.head = NULL
          BY <2>1, <3>2, <4>1, <5>1 DEF Emptied
        <5> QED
          BY <2>0, <5>2 DEF VersionEffects
      <4> QED
        BY <4>2, <4>3
    <3> QED
      BY <3>1, <3>2 DEF Emptied
  <2> QED
    BY <2>2, <2>3, <2>4 DEF Versions
<1> QED
  BY <1>1, <1>2

-----------------------------------------------------------------------------
(* The places of a thread.                                                 *)

\* From where to where the steps of a collection go.
LEMMA CollectPlaces ==
    ASSUME NEW t \in Threads, Types
    PROVE  /\ Freeze(t) => pc[t] = "freeze" /\ pc'[t] \in {"move", "loadHead", "unfreeze"}
           /\ LoadHead(t) => pc[t] = "loadHead" /\ pc'[t] = "move"
           /\ Move(t) => pc[t] = "move" /\ pc'[t] = "unfreeze"
           /\ Unfreeze(t) => pc[t] = "unfreeze" /\ pc'[t] = "look"
           /\ Look(t) => /\ pc[t] \in {"look", "lookAgain"}
                         /\ pc'[t] \in {"look", "save", "stamp", "stampAgain"}
           /\ Stamp(t) => pc[t] \in {"stamp", "stampAgain"} /\ pc'[t] \in {"look", "save", "lookAgain"}
           /\ Save(t) => pc[t] = "save" /\ pc'[t] \in {"save", "pop"}
           /\ Pop(t) => pc[t] = "pop" /\ pc'[t] \in {"follow", "popHead", "pfree"}
           /\ Follow(t) => \/ pc[t] = "follow" /\ pc'[t] = "popCas"
                           \/ pc[t] = "followHead" /\ pc'[t] = "headCas"
           /\ PopCas(t) => pc[t] = "popCas" /\ pc'[t] \in {"repair", "pop"}
           /\ Repair(t) => pc[t] = "repair" /\ pc'[t] = "scan"
           /\ Scan(t) => pc[t] = "scan" /\ pc'[t] \in {"scan", "pfree"}
           /\ EndScan(t) => pc[t] = "scan" /\ pc'[t] \in {"pop", "giveCas"}
           /\ GiveCas(t) => pc[t] = "giveCas" /\ pc'[t] \in {"pop", "scan"}
<1> USE DEF Goto
<1>0. pc \in [Threads -> RetirePC]
  BY DEF Types
<1>1. /\ Freeze(t) => pc[t] = "freeze" /\ pc'[t] \in {"move", "loadHead", "unfreeze"}
      /\ LoadHead(t) => pc[t] = "loadHead" /\ pc'[t] = "move"
      /\ Move(t) => pc[t] = "move" /\ pc'[t] = "unfreeze"
      /\ Unfreeze(t) => pc[t] = "unfreeze" /\ pc'[t] = "look"
  BY <1>0 DEF Freeze, LoadHead, Move, Unfreeze
<1>2. /\ Look(t) => /\ pc[t] \in {"look", "lookAgain"}
                    /\ pc'[t] \in {"look", "save", "stamp", "stampAgain"}
      /\ Stamp(t) => pc[t] \in {"stamp", "stampAgain"} /\ pc'[t] \in {"look", "save", "lookAgain"}
      /\ Save(t) => pc[t] = "save" /\ pc'[t] \in {"save", "pop"}
  BY <1>0 DEF Look, Stamp, Save, NextThread
<1>3. /\ Pop(t) => pc[t] = "pop" /\ pc'[t] \in {"follow", "popHead", "pfree"}
      /\ Follow(t) => \/ pc[t] = "follow" /\ pc'[t] = "popCas"
                      \/ pc[t] = "followHead" /\ pc'[t] = "headCas"
      /\ PopCas(t) => pc[t] = "popCas" /\ pc'[t] \in {"repair", "pop"}
      /\ Repair(t) => pc[t] = "repair" /\ pc'[t] = "scan"
  BY <1>0 DEF Pop, Return, Follow, PopCas, Repair
<1>4. /\ Scan(t) => pc[t] = "scan" /\ pc'[t] \in {"scan", "pfree"}
      /\ EndScan(t) => pc[t] = "scan" /\ pc'[t] \in {"pop", "giveCas"}
      /\ GiveCas(t) => pc[t] = "giveCas" /\ pc'[t] \in {"pop", "scan"}
  BY <1>0 DEF Scan, EndScan, GiveCas
<1> QED
  BY <1>1, <1>2, <1>3, <1>4

\* From where to where the other steps go.
LEMMA MutatorPlaces ==
    ASSUME NEW t \in Threads, Types
    PROVE  /\ PFree(t) => pc[t] \in {"retire", "pfree"} /\ pc'[t] \in {"walk", "scan", "pushLink"}
           /\ PushLink(t) => pc[t] = "pushLink" /\ pc'[t] \in {"freeze", "pushCas"}
           /\ PushCas(t) => pc[t] = "pushCas" /\ pc'[t] \in {"walk", "scan", "pushLink"}
           /\ PopHead(t) => pc[t] = "popHead" /\ pc'[t] \in {"freeze", "followHead"}
           /\ HeadCas(t) => pc[t] = "headCas" /\ pc'[t] \in {"unlinkCache", "popHead"}
           /\ UnlinkCache(t) => pc[t] = "unlinkCache" /\ pc'[t] \in {"publish", "popHead"}
           /\ Clear(t) \/ Search(t) => pc[t] = "walk" /\ pc' = pc
           /\ WalkToUnlink(t) => pc[t] = "walk" /\ pc'[t] = "publish"
           /\ WalkToInsert(t) => pc[t] = "walk" /\ pc'[t] \in {"publish", "popHead"}
           /\ Publish(t) => pc[t] = "publish" /\ pc'[t] = "fence"
           /\ Fence(t) => pc[t] = "fence" /\ pc'[t] \in {"restart", "cas"}
           /\ Restart(t) => pc[t] = "restart" /\ pc'[t] = "walk"
           /\ Cas(t) => pc[t] = "cas" /\ pc'[t] \in {"finish", "retire"}
           /\ Finish(t) => pc[t] = "finish" /\ pc'[t] = "walk"
<1> USE DEF Goto
<1>0. pc \in [Threads -> RetirePC]
  BY DEF Types
<1>1. /\ PFree(t) => pc[t] \in {"retire", "pfree"} /\ pc'[t] \in {"walk", "scan", "pushLink"}
      /\ PushLink(t) => pc[t] = "pushLink" /\ pc'[t] \in {"freeze", "pushCas"}
      /\ PushCas(t) => pc[t] = "pushCas" /\ pc'[t] \in {"walk", "scan", "pushLink"}
  BY <1>0 DEF PFree, PushLink, PushCas, FreeReturns, Trigger
<1>2. /\ PopHead(t) => pc[t] = "popHead" /\ pc'[t] \in {"freeze", "followHead"}
      /\ HeadCas(t) => pc[t] = "headCas" /\ pc'[t] \in {"unlinkCache", "popHead"}
      /\ UnlinkCache(t) => pc[t] = "unlinkCache" /\ pc'[t] \in {"publish", "popHead"}
      /\ WalkToInsert(t) => pc[t] = "walk" /\ pc'[t] \in {"publish", "popHead"}
  BY <1>0 DEF PopHead, Trigger, HeadCas, UnlinkCache, WalkToInsert, TakeOrPop
<1>3. /\ Clear(t) \/ Search(t) => pc[t] = "walk" /\ pc' = pc
      /\ WalkToUnlink(t) => pc[t] = "walk" /\ pc'[t] = "publish"
      /\ Publish(t) => pc[t] = "publish" /\ pc'[t] = "fence"
  BY <1>0 DEF Clear, Search, vars, WalkToUnlink, Publish
<1>4. /\ Fence(t) => pc[t] = "fence" /\ pc'[t] \in {"restart", "cas"}
      /\ Restart(t) => pc[t] = "restart" /\ pc'[t] = "walk"
      /\ Cas(t) => pc[t] = "cas" /\ pc'[t] \in {"finish", "retire"}
      /\ Finish(t) => pc[t] = "finish" /\ pc'[t] = "walk"
  BY <1>0 DEF Fence, Restart, Cas, Finish
<1> QED
  BY <1>1, <1>2, <1>3, <1>4

-----------------------------------------------------------------------------
(* The stamps.                                                             *)

\* The records change when they are stamped, and when their owner clears the bit.
LEMMA RecordSteps ==
    ASSUME NEW t \in Threads, Types, Step(t)
    PROVE  \/ UNCHANGED dirties
           \/ /\ Stamp(t) /\ dirties[i[t]] = seen[t]
              /\ dirties' = [dirties EXCEPT ![i[t]] = [ver |-> localVer[t], dirty |-> TRUE]]
           \/ /\ Clear(t) \/ Fence(t) \/ Restart(t)
              /\ dirties' = [dirties EXCEPT ![t] = [dirties[t] EXCEPT !.dirty = FALSE]]
<1> USE DEF shared, caches, records, operation, regs
<1>0. dirties \in [Threads -> Words]
  BY DEF Types
<1>1. Stamp(t) => \/ UNCHANGED dirties
                  \/ /\ dirties[i[t]] = seen[t]
                     /\ dirties' = [dirties EXCEPT ![i[t]] = [ver |-> localVer[t], dirty |-> TRUE]]
  BY DEF Stamp
<1>2. Clear(t) \/ Fence(t) \/ Restart(t) => dirties' = [dirties EXCEPT ![t] = [dirties[t] EXCEPT !.dirty = FALSE]]
  BY <1>0 DEF Clear, Fence, Restart
<1>3. Freeze(t) \/ LoadHead(t) \/ Move(t) \/ Unfreeze(t) \/ Look(t) \/ Save(t) => UNCHANGED dirties
  BY DEF Freeze, LoadHead, Move, Unfreeze, Look, Save
<1>4. Pop(t) \/ Follow(t) \/ PopCas(t) \/ Repair(t) \/ Scan(t) \/ EndScan(t) \/ GiveCas(t) => UNCHANGED dirties
  BY DEF Pop, Follow, PopCas, Repair, Scan, EndScan, GiveCas
<1>5. PFree(t) \/ PushLink(t) \/ PushCas(t) \/ PopHead(t) \/ HeadCas(t) \/ UnlinkCache(t) => UNCHANGED dirties
  BY DEF PFree, PushLink, PushCas, PopHead, HeadCas, UnlinkCache
<1>6. Search(t) \/ WalkToUnlink(t) \/ WalkToInsert(t) \/ Publish(t) \/ Cas(t) \/ Finish(t) => UNCHANGED dirties
  BY DEF Search, vars, WalkToUnlink, WalkToInsert, Publish, Cas, Finish
<1> QED
  BY <1>1, <1>2, <1>3, <1>4, <1>5, <1>6 DEF Step

\* The index changes in the loops over the threads only.
LEMMA IndexSteps ==
    ASSUME NEW t \in Threads, Types, Step(t), ~ (Look(t) \/ Stamp(t) \/ Save(t))
    PROVE  i' = i
<1> USE DEF shared, caches, records, operation, regs
<1>1. Freeze(t) \/ LoadHead(t) \/ Move(t) \/ Unfreeze(t) => i' = i
  BY DEF Freeze, LoadHead, Move, Unfreeze
<1>2. Pop(t) \/ Follow(t) \/ PopCas(t) \/ Repair(t) \/ Scan(t) \/ EndScan(t) \/ GiveCas(t) => i' = i
  BY DEF Pop, Follow, PopCas, Repair, Scan, EndScan, GiveCas
<1>3. PFree(t) \/ PushLink(t) \/ PushCas(t) \/ PopHead(t) \/ HeadCas(t) \/ UnlinkCache(t) => i' = i
  BY DEF PFree, PushLink, PushCas, PopHead, HeadCas, UnlinkCache
<1>4. Clear(t) \/ Fence(t) \/ Restart(t) \/ Search(t) => i' = i
  BY DEF Clear, Fence, Restart, Search, vars
<1>5. WalkToUnlink(t) \/ WalkToInsert(t) \/ Publish(t) \/ Cas(t) \/ Finish(t) => i' = i
  BY DEF WalkToUnlink, WalkToInsert, Publish, Cas, Finish
<1> QED
  BY <1>1, <1>2, <1>3, <1>4, <1>5 DEF Step

\* How the versions change.
LEMMA VersionSteps ==
    ASSUME NEW t \in Threads, Types, Control, Versions, Step(t)
    PROVE  /\ \/ reclaim'.ver = reclaim.ver /\ toProcess'.ver = toProcess.ver
              \/ /\ Freeze(t) /\ reclaim.ver = toProcess.ver /\ localVer[t] = toProcess.ver
                 /\ reclaim'.ver = toProcess.ver + 1 /\ toProcess'.ver = toProcess.ver
              \/ /\ Move(t) /\ reclaim.ver = toProcess.ver + 1 /\ localVer[t] = toProcess.ver
                 /\ reclaim'.ver = reclaim.ver /\ toProcess'.ver = toProcess.ver + 2
              \/ /\ Unfreeze(t) /\ reclaim.ver = toProcess.ver - 1 /\ localVer'[t] = toProcess.ver
                 /\ reclaim'.ver = toProcess.ver /\ toProcess'.ver = toProcess.ver
           /\ IF Unfreeze(t) THEN localVer' = [localVer EXCEPT ![t] = localVer[t] + 2] /\ localVer[t] + 2 <= toProcess.ver
                             ELSE localVer' = localVer
<1> USE DEF shared, caches, regs
<1>0. VersionOrder /\ Emptied /\ \A u \in Threads : Changing(u)
  BY DEF Versions
<1>1. CASE Freeze(t)
  <2>1. pc[t] = "freeze" /\ UNCHANGED <<toProcess, localVer>> /\ ~ Unfreeze(t)
    BY <1>1 DEF Freeze, Unfreeze
  <2>2. \/ reclaim.ver = localVer[t] /\ reclaim'.ver = localVer[t] + 1
        \/ UNCHANGED reclaim
    BY <1>1 DEF Freeze, Types, Versioned
  <2>3. reclaim.ver = localVer[t] => localVer[t] = toProcess.ver
    BY <1>0, VersionNumbers DEF Changing
  <2> QED
    BY <1>1, <2>1, <2>2, <2>3
<1>2. CASE Move(t)
  <2>1. UNCHANGED <<reclaim, localVer>> /\ ~ Unfreeze(t)
    BY <1>2 DEF Move, Unfreeze
  <2>2. \/ toProcess.ver = localVer[t] /\ toProcess'.ver = localVer[t] + 2
        \/ UNCHANGED toProcess
    BY <1>2 DEF Move
  <2>3. toProcess.ver = localVer[t] => reclaim.ver = toProcess.ver + 1
    <3>1. pc[t] = "move" /\ reclaim.ver > localVer[t]
      BY <1>0, <1>2 DEF Changing, ChangePC, Move
    <3> QED
      BY <1>0, <3>1, VersionNumbers
  <2> QED
    BY <1>2, <2>1, <2>2, <2>3
<1>3. CASE Unfreeze(t)
  <2>1. UNCHANGED toProcess /\ pc[t] = "unfreeze" /\ localVer' = [localVer EXCEPT ![t] = localVer[t] + 2]
        /\ localVer'[t] = localVer[t] + 2
    BY <1>3 DEF Unfreeze, Types
  <2>2. /\ toProcess.ver > localVer[t] /\ toProcess.ver >= localVer[t] + 2
    BY <1>0, <2>1, VersionNumbers, EvenFacts DEF Changing, VersionOrder
  <2>3. \/ reclaim.ver = localVer[t] + 1 /\ reclaim'.ver = localVer[t] + 2
        \/ UNCHANGED reclaim
    BY <1>3 DEF Unfreeze
  <2>4. reclaim.ver = localVer[t] + 1 => toProcess.ver = localVer[t] + 2
    BY <1>0, <2>2, VersionNumbers
  <2> QED
    BY <1>0, <1>3, <2>1, <2>2, <2>3, <2>4, VersionNumbers
<1>4. CASE ~ (Freeze(t) \/ Move(t) \/ Unfreeze(t))
  <2>0. VersionEffects(t)
    BY <1>4, RecycleVersions, MutatorVersions DEF Step
  <2> QED
    BY <1>4, <2>0 DEF VersionEffects
<1> QED
  BY <1>1, <1>2, <1>3, <1>4

\* The record of a thread.
RecordOf(u) ==
    /\ Even(dirties[u].ver) /\ dirties[u].ver <= toProcess.ver /\ dirties[u].ver >= toProcess.ver - 2
    /\ reclaim.ver > toProcess.ver => dirties[u].ver = toProcess.ver

\* How far a collector has come with the stamps.
StamperOf(t) ==
    /\ \A u \in Threads : pc[t] \notin StampPC \/ u < i[t] => dirties[u].ver >= localVer[t]
    /\ pc[t] \in StampPC => Attempt(t)
    /\ pc[t] \in {"stamp", "stampAgain"} => seen[t].ver < localVer[t]
    /\ pc[t] \notin StampPC \cup {"save"} => i[t] = 0

\* Stamps is a fact about the record of every thread and one about every thread's collection.
LEMMA StampsParts ==
    Stamps <=> (\A u \in Threads : RecordOf(u) /\ StamperOf(u))
  BY DEF Stamps, RecordOf, StamperOf

\* A stamp raises a record to the version of toProcess.
LEMMA StampRaises ==
    ASSUME NEW t \in Threads, Types, Control, Versions, Stamps, Stamp(t), dirties[i[t]] = seen[t]
    PROVE  /\ localVer[t] = toProcess.ver /\ dirties[i[t]].ver = toProcess.ver - 2
           /\ reclaim.ver <= toProcess.ver
<1>1. pc[t] \in {"stamp", "stampAgain"} /\ i[t] \in Threads
  BY DEF Stamp, Types
<1>2. dirties[i[t]].ver < localVer[t]
  BY <1>1 DEF Stamps
<1>3. /\ Even(dirties[i[t]].ver) /\ dirties[i[t]].ver <= toProcess.ver /\ dirties[i[t]].ver >= toProcess.ver - 2
      /\ reclaim.ver > toProcess.ver => dirties[i[t]].ver = toProcess.ver
  BY <1>1 DEF Stamps
<1>4. /\ Even(localVer[t]) /\ localVer[t] <= toProcess.ver /\ Even(toProcess.ver)
      /\ localVer[t] \in Nat /\ toProcess.ver \in Nat /\ toProcess.ver >= 2 /\ dirties[i[t]].ver \in Nat
      /\ reclaim.ver \in Nat
  BY <1>1, VersionNumbers DEF Versions, Changing, VersionOrder, Types, Words
<1>5. dirties[i[t]].ver + 2 <= localVer[t]
  BY <1>2, <1>3, <1>4, EvenFacts
<1> QED
  BY <1>2, <1>3, <1>4, <1>5

\* Records grow, and what a step does to the dirty byte.
LEMMA RecordGrows ==
    ASSUME NEW t \in Threads, Types, Control, Versions, Stamps, Step(t), NEW u \in Threads
    PROVE  /\ dirties'[u] \in Words
           /\ \/ dirties'[u] = dirties[u]
              \/ /\ dirties'[u].ver = dirties[u].ver /\ dirties'[u].dirty = FALSE
                 /\ u = t /\ (Clear(t) \/ Fence(t) \/ Restart(t))
                 /\ dirties'[u] = [dirties[u] EXCEPT !.dirty = FALSE]
              \/ /\ dirties[u].ver = toProcess.ver - 2 /\ dirties'[u].ver = toProcess.ver /\ dirties'[u].dirty
                 /\ Stamp(t) /\ u = i[t] /\ localVer[t] = toProcess.ver /\ reclaim.ver <= toProcess.ver
<1>0. dirties \in [Threads -> Words] /\ i[t] \in Threads /\ localVer[t] \in Nat
  BY DEF Types
<1>1. CASE UNCHANGED dirties
  BY <1>0, <1>1
<1>2. CASE /\ Stamp(t) /\ dirties[i[t]] = seen[t]
           /\ dirties' = [dirties EXCEPT ![i[t]] = [ver |-> localVer[t], dirty |-> TRUE]]
  <2>1. CASE u = i[t]
    BY <1>0, <1>2, <2>1, StampRaises DEF Words
  <2>2. CASE u # i[t]
    BY <1>0, <1>2, <2>2
  <2> QED
    BY <2>1, <2>2
<1>3. CASE /\ Clear(t) \/ Fence(t) \/ Restart(t)
           /\ dirties' = [dirties EXCEPT ![t] = [dirties[t] EXCEPT !.dirty = FALSE]]
  <2>1. CASE u = t
    BY <1>0, <1>3, <2>1 DEF Words
  <2>2. CASE u # t
    BY <1>0, <1>3, <2>2
  <2> QED
    BY <2>1, <2>2
<1> QED
  BY <1>1, <1>2, <1>3, RecordSteps

\* The records after a step.
LEMMA StepRecords ==
    ASSUME NEW t \in Threads, Types, Control, Versions, Stamps, Step(t), NEW u \in Threads
    PROVE  RecordOf(u)' /\ dirties'[u].ver >= dirties[u].ver
<1>0. /\ RecordOf(u) /\ StamperOf(t) /\ VersionOrder
      /\ reclaim.ver \in Nat /\ toProcess.ver \in Nat /\ dirties[u].ver \in Nat /\ toProcess.ver >= 2
  BY StampsParts, VersionNumbers DEF Versions, Types, Words
<1>1. Even(toProcess.ver) /\ Even(toProcess.ver - 2) /\ Even(toProcess.ver + 2)
  BY <1>0 DEF VersionOrder, Even
<1>2. CASE reclaim'.ver = reclaim.ver /\ toProcess'.ver = toProcess.ver
  <2>1. \/ dirties'[u].ver = dirties[u].ver
        \/ /\ dirties[u].ver = toProcess.ver - 2 /\ dirties'[u].ver = toProcess.ver
           /\ reclaim.ver <= toProcess.ver
    BY RecordGrows
  <2> QED
    BY <1>0, <1>1, <1>2, <2>1 DEF RecordOf
<1>3. CASE ~ Stamp(t)
  <2>1. dirties'[u].ver = dirties[u].ver
    BY <1>3, RecordGrows
  <2>2. CASE /\ Freeze(t) /\ reclaim.ver = toProcess.ver /\ localVer[t] = toProcess.ver
             /\ reclaim'.ver = toProcess.ver + 1 /\ toProcess'.ver = toProcess.ver
    <3>1. pc[t] = "freeze"
      BY <2>2 DEF Freeze
    <3>2. dirties[u].ver >= toProcess.ver
      BY <1>0, <2>2, <3>1 DEF StamperOf, StampPC
    <3> QED
      BY <1>0, <2>1, <2>2, <3>2 DEF RecordOf
  <2>3. CASE /\ Move(t) /\ reclaim.ver = toProcess.ver + 1
             /\ reclaim'.ver = reclaim.ver /\ toProcess'.ver = toProcess.ver + 2
    BY <1>0, <1>1, <2>1, <2>3 DEF RecordOf
  <2>4. CASE /\ Unfreeze(t) /\ reclaim.ver = toProcess.ver - 1
             /\ reclaim'.ver = toProcess.ver /\ toProcess'.ver = toProcess.ver
    BY <1>0, <2>1, <2>4 DEF RecordOf
  <2> QED
    BY <1>2, <2>2, <2>3, <2>4, VersionSteps
<1>4. Stamp(t) => reclaim'.ver = reclaim.ver /\ toProcess'.ver = toProcess.ver
  BY DEF Stamp, shared
<1> QED
  BY <1>2, <1>3, <1>4

\* A collector at the stamps is not disturbed by the steps of others.
LEMMA OtherStamper ==
    ASSUME NEW t \in Threads, Types, Control, Versions, Stamps, Step(t), NEW v \in Threads, v # t
    PROVE  StamperOf(v)'
<1>0. /\ pc'[v] = pc[v] /\ i'[v] = i[v] /\ seen'[v] = seen[v] /\ localVer'[v] = localVer[v]
      /\ StamperOf(v) /\ i[v] \in Threads /\ localVer[v] \in Nat
      /\ \A u \in Threads : dirties[u].ver \in Nat /\ dirties'[u].ver \in Nat
  BY OthersSame, StampsParts, RecordGrows DEF Same, Types, Words
<1>1. \A u \in Threads : dirties'[u].ver >= dirties[u].ver
  BY StepRecords
<1>2. \A u \in Threads : pc[v] \notin StampPC \/ u < i[v] => dirties'[u].ver >= localVer[v]
  BY <1>0, <1>1 DEF StamperOf
<1>3. ASSUME pc[v] \in StampPC PROVE Attempt(v)'
  <2>0. Attempt(v)
    BY <1>0, <1>3 DEF StamperOf
  <2>1. CASE dirties'[i[v]] = dirties[i[v]]
    BY <1>0, <2>0, <2>1 DEF Attempt
  <2>2. CASE dirties[i[v]].ver >= localVer[v]
    BY <1>0, <1>1, <2>2 DEF Attempt
  <2>3. CASE dirties'[i[v]].ver = toProcess.ver
    BY <1>0, <2>3 DEF Attempt, Versions, Changing
  <2>4. CASE /\ dirties'[i[v]].ver = dirties[i[v]].ver /\ dirties'[i[v]].dirty = FALSE
             /\ dirties'[i[v]] = [dirties[i[v]] EXCEPT !.dirty = FALSE]
             /\ ~ dirties[i[v]].ver >= localVer[v]
    <3>1. dirties[i[v]] \in Words
      BY <1>0 DEF Types
    <3>2. ~ dirties[i[v]].dirty => dirties'[i[v]] = dirties[i[v]]
      BY <2>4, <3>1 DEF Words
    <3> QED
      BY <1>0, <2>0, <2>4, <3>2 DEF Attempt
  <2> QED
    BY <1>0, <2>1, <2>2, <2>3, <2>4, RecordGrows
<1> QED
  BY <1>0, <1>2, <1>3 DEF StamperOf

\* The collector's own steps.
LEMMA OwnStamper ==
    ASSUME NEW t \in Threads, Types, Control, Versions, Stamps, Step(t)
    PROVE  StamperOf(t)'
<1> USE DEF shared, caches, regs, records, operation, Goto
<1>0. /\ StamperOf(t) /\ i[t] \in Threads /\ localVer[t] \in Nat
      /\ pc \in [Threads -> RetirePC] /\ i \in [Threads -> Threads] /\ seen \in [Threads -> Words]
      /\ dirties \in [Threads -> Words]
      /\ \A u \in Threads : dirties[u].ver \in Nat /\ dirties'[u].ver \in Nat /\ dirties'[u].ver >= dirties[u].ver
  BY StampsParts, RecordGrows, StepRecords DEF Types, Words
<1>n. \A u \in Threads : u \in Nat /\ u < NumThreads
  BY RetireAssumption DEF Threads
<1>1. CASE Unfreeze(t)
  <2>1. i'[t] = 0 /\ pc'[t] = "look"
    BY <1>0, <1>1 DEF Unfreeze, StamperOf, StampPC
  <2> QED
    BY <1>n, <2>1 DEF StamperOf, StampPC, Attempt
<1>2. CASE Look(t)
  <2>0. pc[t] \in {"look", "lookAgain"} /\ UNCHANGED <<dirties, localVer>>
    BY <1>2 DEF Look
  <2>1. CASE dirties[i[t]].ver >= localVer[t]
    <3>0. \A u \in Threads : u < i[t] + 1 => dirties[u].ver >= localVer[t]
      BY <1>0, <1>n, <2>0, <2>1 DEF StamperOf, StampPC
    <3>1. /\ i'[t] = (i[t] + 1) % NumThreads
          /\ pc'[t] = IF i[t] + 1 < NumThreads THEN "look" ELSE "save"
      BY <1>0, <1>2, <2>1 DEF Look, NextThread
    <3>2. CASE i[t] + 1 < NumThreads
      <4>1. i'[t] = i[t] + 1 /\ pc'[t] = "look"
        BY <1>0, <3>1, <3>2, NextIndex
      <4> QED
        BY <2>0, <3>0, <4>1 DEF StamperOf, StampPC, Attempt
    <3>3. CASE ~ (i[t] + 1 < NumThreads)
      <4>1. i[t] + 1 >= NumThreads
        BY <1>0, <1>n, <3>3, RetireAssumption
      <4>2. i[t] + 1 = NumThreads
        BY <1>0, <4>1, NextIndex
      <4>3. pc'[t] = "save"
        BY <3>1, <3>3
      <4> QED
        BY <1>n, <2>0, <3>0, <4>2, <4>3 DEF StamperOf, StampPC
    <3> QED
      BY <3>2, <3>3
  <2>2. CASE ~ (dirties[i[t]].ver >= localVer[t])
    <3>1. /\ i' = i /\ seen'[t] = dirties[i[t]]
          /\ pc'[t] = IF pc[t] = "look" THEN "stamp" ELSE "stampAgain"
      BY <1>0, <1>2, <2>2 DEF Look
    <3>2. Attempt(t)'
      BY <1>0, <2>0, <2>2, <3>1 DEF StamperOf, StampPC, Attempt
    <3> QED
      BY <1>0, <2>0, <2>2, <3>1, <3>2 DEF StamperOf, StampPC
  <2> QED
    BY <2>1, <2>2
<1>3. CASE Stamp(t)
  <2>0. pc[t] \in {"stamp", "stampAgain"} /\ UNCHANGED localVer
    BY <1>3 DEF Stamp
  <2>1. CASE pc[t] = "stamp"
    <3>1. i' = i /\ pc'[t] = "lookAgain"
      BY <1>0, <1>3, <2>1 DEF Stamp
    <3>2. dirties'[i[t]].ver >= localVer[t] \/ ~ dirties'[i[t]].dirty
      <4>1. CASE dirties[i[t]] = seen[t]
        BY <1>0, <1>3, <4>1 DEF Stamp
      <4>2. CASE dirties[i[t]] # seen[t]
        BY <1>0, <1>3, <2>1, <4>2 DEF Stamp, StamperOf, StampPC, Attempt
      <4> QED
        BY <4>1, <4>2
    <3>3. Attempt(t)'
      BY <2>0, <3>1, <3>2 DEF Attempt
    <3> QED
      BY <1>0, <2>0, <2>1, <3>1, <3>3 DEF StamperOf, StampPC
  <2>2. CASE pc[t] = "stampAgain"
    <3>1. dirties'[i[t]].ver >= localVer[t]
      <4>1. CASE dirties[i[t]] = seen[t]
        BY <1>0, <1>3, <4>1 DEF Stamp
      <4>2. CASE dirties[i[t]] # seen[t]
        BY <1>0, <1>3, <2>2, <4>2 DEF Stamp, StamperOf, StampPC, Attempt
      <4> QED
        BY <4>1, <4>2
    <3>2. \A u \in Threads : u < i[t] + 1 => dirties'[u].ver >= localVer[t]
      <4> SUFFICES ASSUME NEW u \in Threads, u < i[t] + 1 PROVE dirties'[u].ver >= localVer[t]
        OBVIOUS
      <4>1. CASE u = i[t]
        BY <3>1, <4>1
      <4>2. CASE u # i[t]
        <5>1. u < i[t]
          <6>1. u \in Nat /\ i[t] \in Nat
            BY <1>0, <1>n
          <6> QED
            BY <4>2, <6>1
        <5>2. dirties[u].ver >= localVer[t]
          BY <1>0, <2>0, <5>1 DEF StamperOf, StampPC
        <5>3. dirties[u].ver \in Nat /\ dirties'[u].ver \in Nat /\ dirties'[u].ver >= dirties[u].ver
          BY <1>0
        <5> QED
          BY <1>0, <5>2, <5>3
      <4> QED
        BY <4>1, <4>2
    <3>3. /\ i'[t] = (i[t] + 1) % NumThreads
          /\ pc'[t] = IF i[t] + 1 < NumThreads THEN "look" ELSE "save"
      BY <1>0, <1>3, <2>2 DEF Stamp, NextThread
    <3>4. CASE i[t] + 1 < NumThreads
      <4>1. i'[t] = i[t] + 1 /\ pc'[t] = "look"
        BY <1>0, <3>3, <3>4, NextIndex
      <4> QED
        BY <2>0, <3>2, <4>1 DEF StamperOf, StampPC, Attempt
    <3>5. CASE ~ (i[t] + 1 < NumThreads)
      <4>1. i[t] + 1 >= NumThreads
        BY <1>0, <1>n, <3>5, RetireAssumption
      <4>2. i[t] + 1 = NumThreads
        BY <1>0, <4>1, NextIndex
      <4>3. pc'[t] = "save"
        BY <3>3, <3>5
      <4> QED
        BY <1>n, <2>0, <3>2, <4>2, <4>3 DEF StamperOf, StampPC
    <3> QED
      BY <3>4, <3>5
  <2> QED
    BY <2>0, <2>1, <2>2
<1>4. CASE Save(t)
  <2>0. pc[t] = "save" /\ UNCHANGED <<dirties, localVer>>
    BY <1>4 DEF Save
  <2>1. /\ i'[t] = (i[t] + 1) % NumThreads
        /\ pc'[t] = IF i[t] + 1 < NumThreads THEN "save" ELSE "pop"
    BY <1>0, <1>4 DEF Save, NextThread
  <2>2. \A u \in Threads : dirties[u].ver >= localVer[t]
    BY <1>0, <2>0 DEF StamperOf, StampPC
  <2>3. pc'[t] = "save" \/ (pc'[t] = "pop" /\ i'[t] = 0)
    <3>1. CASE i[t] + 1 < NumThreads
      BY <2>1, <3>1
    <3>2. CASE ~ (i[t] + 1 < NumThreads)
      <4>1. i[t] + 1 >= NumThreads
        BY <1>0, <1>n, <3>2, RetireAssumption
      <4> QED
        BY <1>0, <2>1, <3>2, <4>1, NextIndex
    <3> QED
      BY <3>1, <3>2
  <2> QED
    BY <2>0, <2>2, <2>3 DEF StamperOf, StampPC
<1>5. CASE ~ (Unfreeze(t) \/ Look(t) \/ Stamp(t) \/ Save(t))
  <2>1. pc[t] \notin StampPC \cup {"save"} /\ pc'[t] \notin StampPC \cup {"save"}
    <3>1. pc[t] \notin StampPC \cup {"save"}
      BY <1>5, CollectPlaces, MutatorPlaces DEF Step, StampPC
    <3>2. pc'[t] \notin StampPC \cup {"save"}
      BY <1>5, CollectPlaces, MutatorPlaces, <3>1 DEF Step, StampPC
    <3> QED
      BY <3>1, <3>2
  <2>2. i' = i /\ localVer' = localVer
    BY <1>5, IndexSteps, VersionSteps
  <2> QED
    BY <1>0, <2>1, <2>2 DEF StamperOf, StampPC
<1> QED
  BY <1>1, <1>2, <1>3, <1>4, <1>5

\* Any step keeps what is known of the records.
LEMMA StepStamps ==
    ASSUME NEW t \in Threads, Types, Control, Versions, Stamps, Step(t)
    PROVE  Stamps'
<1>1. ASSUME NEW u \in Threads PROVE RecordOf(u)' /\ StamperOf(u)'
  BY StepRecords, OtherStamper, OwnStamper
<1> QED
  BY <1>1 DEF Stamps, RecordOf, StamperOf

-----------------------------------------------------------------------------
(* The stacks.                                                             *)

\* What is in a stack or belongs to a thread is a cache that somebody refers to.
LEMMA ReferencedCaches ==
    ASSUME Types
    PROVE  /\ Free \cup Pending \cup Pushed \cup Chain(reclaim.head) \subseteq Referenced \cap Caches
           /\ \A u \in Threads : Mine(u) \subseteq Referenced \cap Caches
           /\ \A u \in Threads : reg[u].head \in Referenced /\ nxt[u] \in Referenced
<1> DEFINE S == {head, toProcess.head, reclaim.head}
<1>0. DOMAIN next = Caches
  BY DEF Types
<1>1. Free \subseteq Reach(next, S) /\ Pending \subseteq Reach(next, S) /\ Chain(reclaim.head) \subseteq Reach(next, S)
  BY ReachMonotone DEF Free, Pending, Chain
<1>2. Reach(next, S) \subseteq Caches
  BY <1>0, ReachClosed
<1>3. Pushed \subseteq Chain(reclaim.head)
  BY DEF Pushed
<1>4. Reach(next, S) \subseteq Referenced
  BY DEF Referenced
<1>5. ASSUME NEW u \in Threads
      PROVE  Mine(u) \subseteq Referenced \cap Caches /\ reg[u].head \in Referenced /\ nxt[u] \in Referenced
  <2>1. {allocCache[u], freeCache[u], reg[u].head, nxt[u]} \cup {calls[u][k].entry : k \in DOMAIN calls[u]} \subseteq Referenced
    BY DEF Referenced
  <2>2. Mine(u) \subseteq Referenced
    BY <2>1 DEF Mine, Popped, Entries
  <2>3. \A k \in DOMAIN calls[u] : calls[u][k].entry \in Pointers
    <3>1. \A f \in Frames : f.entry \in Pointers
      BY DEF Frames
    <3>2. \A k \in DOMAIN calls[u] : calls[u][k] \in Frames
      BY DEF Types
    <3> QED
      BY <3>1, <3>2
  <2>4. allocCache[u] \in Pointers /\ freeCache[u] \in Pointers /\ reg[u].head \in Pointers
    BY DEF Types, Versioned
  <2>5. Mine(u) \subseteq Caches
    BY <2>3, <2>4, ConstantTypes DEF Mine, Popped, Entries
  <2> QED
    BY <2>1, <2>2, <2>5
<1> QED
  BY <1>1, <1>2, <1>3, <1>4, <1>5

\* Nobody refers to the cache that malloc gives.
LEMMA FreshNowhere ==
    ASSUME Types, NEW c \in Fresh
    PROVE  /\ c \in Caches /\ c \notin Free \cup Pending \cup Pushed \cup Chain(reclaim.head)
           /\ \A u \in Threads : c \notin Mine(u) /\ c # reg[u].head
  BY FreshCache, ReferencedCaches

\* A step does not touch the links and the contents of the stacks, and of what other threads have.
LEMMA StacksUntouched ==
    ASSUME NEW t \in Threads, Types, Control, CacheInv, Step(t)
    PROVE  /\ \A c \in Free \cup Pending \cup Pushed : next'[c] = next[c] /\ ptrs'[c] = ptrs[c]
           /\ \A u \in Threads : u # t => \A c \in Mine(u) : next'[c] = next[c] /\ ptrs'[c] = ptrs[c]
<1>1. ASSUME NEW c, c \in Free \cup Pending \cup Pushed PROVE next'[c] = next[c] /\ ptrs'[c] = ptrs[c]
  <2>1. c \in Caches /\ c \in Referenced
    BY <1>1, ReferencedCaches
  <2>2. c \notin Mine(t)
    BY <1>1 DEF CacheInv, Exclusive
  <2> QED
    BY <2>1, <2>2, OwnWrites DEF CacheInv
<1>2. ASSUME NEW u \in Threads, u # t, NEW c \in Mine(u) PROVE next'[c] = next[c] /\ ptrs'[c] = ptrs[c]
  <2>1. c \in Caches /\ c \in Referenced
    BY <1>2, ReferencedCaches
  <2>2. c \notin Mine(t)
    BY <1>2 DEF CacheInv, Exclusive
  <2> QED
    BY <2>1, <2>2, OwnWrites DEF CacheInv
<1> QED
  BY <1>1, <1>2

\* What can be reached within the stacks is reached with the new links, too.
LEMMA StacksStable ==
    ASSUME NEW t \in Threads, Types, Types', Control, CacheInv, Step(t),
           NEW S, Reach(next, S) \subseteq Free \cup Pending \cup Pushed
    PROVE  Reach(next', S) = Reach(next, S)
<1> DEFINE W == {x \in Caches : next'[x] # next[x]}
<1>0. DOMAIN next = Caches /\ DOMAIN next' = Caches
  BY DEF Types
<1>1. W \cap Reach(next, S) = {}
  BY StacksUntouched
<1>2. \A x \in DOMAIN next \ W : next'[x] = next[x]
  BY <1>0
<1>3. DOMAIN next' = DOMAIN next
  BY <1>0
<1> HIDE DEF W
<1> QED
  BY <1>1, <1>2, <1>3, ReachOutside

\* The stacks with the new links, from where they began.
LEMMA StacksSame ==
    ASSUME NEW t \in Threads, Types, Types', Control, CacheInv, Step(t)
    PROVE  /\ Reach(next', {head}) = Free /\ Reach(next', {toProcess.head}) = Pending
           /\ reclaim.ver # toProcess.ver - 1 => Reach(next', {reclaim.head}) = Pushed
<1>2. Reach(next', {head}) = Free /\ Reach(next', {toProcess.head}) = Pending
  BY StacksStable DEF Free, Pending, Chain
<1>3. reclaim.ver # toProcess.ver - 1 => Reach(next', {reclaim.head}) = Pushed
  BY StacksStable DEF Pushed, Chain
<1> QED
  BY <1>2, <1>3

\* A stack begins with its top, and goes on with what follows it.
LEMMA StackTop ==
    ASSUME Types, NEW c \in Caches
    PROVE  Chain(c) = {c} \cup Chain(next[c])
  BY ReachUnfold DEF Types, Chain

\* The empty stack.
LEMMA EmptyStack ==
    ASSUME Types
    PROVE  Chain(NULL) = {} /\ \A c \in Pointers : Chain(c) = {} <=> c = NULL
<1>0. DOMAIN next = Caches
  BY DEF Types
<1>1. Chain(NULL) = {}
  BY <1>0, ReachNothing, ConstantTypes DEF Chain
<1>2. \A c \in Caches : c \in Chain(c)
  BY StackTop
<1> QED
  BY <1>1, <1>2, ConstantTypes

\* The stacks with their new tops.
LEMMA NewStacks ==
    ASSUME Types
    PROVE  /\ Free' = Reach(next', {head'}) /\ Pending' = Reach(next', {toProcess'.head})
           /\ reclaim'.ver = toProcess'.ver - 1 => Pushed' = {}
           /\ reclaim'.ver # toProcess'.ver - 1 => Pushed' = Reach(next', {reclaim'.head})
  BY DEF Free, Pending, Pushed, Chain

Quiet == Free' = Free /\ Pending' = Pending /\ Pushed' = Pushed

\* A stack whose top and whose version stay is as it was.
LEMMA QuietStacks ==
    ASSUME NEW t \in Threads, Types, Types', Control, CacheInv, Step(t),
           UNCHANGED <<head, toProcess, reclaim>>
    PROVE  Quiet
  BY StacksSame, NewStacks DEF Quiet, Pushed

\* pop takes the top of toProcess.
LEMMA PopStacks ==
    ASSUME NEW t \in Threads, Types, Types', Control, CacheInv, Step(t), PopCas(t)
    PROVE  \/ Quiet /\ pc'[t] = "pop" /\ reg'[t].head = NULL
           \/ /\ reg[t].head \in Pending /\ Pending' = Pending \ {reg[t].head}
              /\ Free' = Free /\ Pushed' = Pushed
              /\ pc'[t] = "repair" /\ reg'[t] = reg[t] /\ nxt'[t] = nxt[t] /\ nxt[t] = next[reg[t].head]
<1> USE DEF shared, caches, regs, Goto
<1>0. pc \in [Threads -> RetirePC] /\ reg \in [Threads -> Versioned] /\ toProcess \in Versioned /\ pc[t] = "popCas"
  BY DEF Types, PopCas
<1>1. CASE toProcess # reg[t]
  <2>1. UNCHANGED <<head, toProcess, reclaim>> /\ pc'[t] = "pop" /\ reg'[t] = NoReg
    BY <1>0, <1>1 DEF PopCas
  <2> QED
    BY <2>1, QuietStacks DEF NoReg
<1>2. CASE toProcess = reg[t]
  <2> DEFINE c == reg[t].head
  <2>1. c \in Caches /\ toProcess.ver = localVer[t] /\ toProcess.head = c
    BY <1>0, <1>2 DEF Control, RegistersOf
  <2>2. c \in Pending
    BY <2>1, StackTop DEF Pending
  <2>3. nxt[t] = next[c]
    BY <1>0, <2>1, <2>2 DEF CacheInv, Remembered
  <2>4. Pending = {c} \cup Chain(next[c]) /\ c \notin Chain(next[c])
    BY <2>1, <2>2, StackTop DEF Pending, CacheInv, Ends
  <2>5. /\ UNCHANGED <<head, reclaim, next, reg, nxt>> /\ pc'[t] = "repair"
        /\ toProcess'.ver = toProcess.ver /\ toProcess'.head = nxt[t]
    BY <1>0, <1>2 DEF PopCas, Versioned
  <2>6. Pending' = Chain(next[c])
    BY <2>3, <2>5, NewStacks DEF Chain
  <2>7. Free' = Free /\ Pushed' = Pushed
    BY <2>5, NewStacks DEF Free, Pushed, Chain
  <2> QED
    BY <2>2, <2>3, <2>4, <2>5, <2>6, <2>7
<1> QED
  BY <1>1, <1>2

\* The processed cache becomes the top of the stack of palloc.
LEMMA GiveStacks ==
    ASSUME NEW t \in Threads, Types, Types', Control, CacheInv, Step(t), GiveCas(t)
    PROVE  /\ Pending' = Pending /\ Pushed' = Pushed
           /\ \/ Free' = Free /\ UNCHANGED calls
              \/ Free' = Free \cup {Top(t).entry} /\ SetTop(t, NewCall) /\ pc'[t] = "pop"
           /\ Top(t).entry \in Caches /\ calls[t] # <<>>
<1> USE DEF shared, caches, regs, Goto
<1> DEFINE e == Top(t).entry
<1>0. pc \in [Threads -> RetirePC] /\ pc[t] = "giveCas"
  BY DEF Types, GiveCas
<1>1. e \in Caches /\ calls[t] # <<>>
  <2>1. calls[t] # <<>>
    BY <1>0 DEF Control, CallsOf, ListPC, PallocPC, FreePC
  <2>2. Scanning(Top(t))
    BY <1>0, <2>1, TopFrame DEF Control, CallsOf, FreePC, ScanPC
  <2> QED
    BY <2>1, <2>2 DEF Scanning
<1>2. UNCHANGED <<toProcess, reclaim, next>>
  BY DEF GiveCas
<1>3. Pending' = Pending /\ Pushed' = Pushed
  BY <1>2, NewStacks DEF Pending, Pushed, Chain
<1>4. CASE head # next[e]
  <2>1. UNCHANGED <<head, calls>>
    BY <1>4 DEF GiveCas
  <2> QED
    BY <1>1, <1>2, <1>3, <2>1, NewStacks DEF Free, Chain
<1>5. CASE head = next[e]
  <2>1. head' = e /\ SetTop(t, NewCall) /\ pc'[t] = "pop"
    BY <1>0, <1>5 DEF GiveCas
  <2>2. Free' = Chain(e)
    BY <1>2, <2>1, NewStacks DEF Chain
  <2> QED
    BY <1>1, <1>3, <1>5, <2>1, <2>2, StackTop DEF Free
<1> QED
  BY <1>4, <1>5

\* pfree pushes its full cache.
LEMMA PushStacks ==
    ASSUME NEW t \in Threads, Types, Types', Control, Versions, CacheInv, Step(t), PushCas(t)
    PROVE  /\ Free' = Free /\ Pending' = Pending
           /\ \/ Pushed' = Pushed /\ UNCHANGED <<freeCache, calls>>
              \/ /\ Pushed' = Pushed \cup {freeCache[t]} /\ freeCache[t] \in Caches
                 /\ NewFreeCache(t) /\ FreeReturns(t) /\ reclaim.ver = toProcess.ver
<1> USE DEF shared, caches, regs, Goto
<1>0. /\ pc \in [Threads -> RetirePC] /\ pc[t] = "pushCas" /\ reclaim \in Versioned /\ freeCache[t] \in Caches
      /\ reg[t].ver = localVer[t] /\ reg[t].head = next[freeCache[t]]
      /\ Even(localVer[t])
  BY DEF Types, PushCas, Control, RegistersOf, Versions, Changing
<1>1. UNCHANGED <<toProcess, head, next>>
  BY DEF PushCas
<1>2. Free' = Free /\ Pending' = Pending
  BY <1>1, NewStacks DEF Free, Pending, Chain
<1>3. CASE reclaim # reg[t]
  <2>1. UNCHANGED <<reclaim, freeCache, calls>>
    BY <1>3 DEF PushCas
  <2> QED
    BY <1>1, <1>2, <2>1, NewStacks DEF Pushed, Chain
<1>4. CASE reclaim = reg[t]
  <2>1. /\ reclaim'.ver = reclaim.ver /\ reclaim'.head = freeCache[t] /\ NewFreeCache(t) /\ FreeReturns(t)
    BY <1>0, <1>4 DEF PushCas, Versioned
  <2>2. reclaim.ver = toProcess.ver /\ toProcess.ver \in Nat
    BY <1>0, <1>4, VersionNumbers DEF Versions
  <2>3. Pushed' = Chain(freeCache[t])
    BY <1>1, <2>1, <2>2, NewStacks DEF Chain
  <2>4. Pushed = Chain(reclaim.head)
    BY <2>2 DEF Pushed
  <2> QED
    BY <1>0, <1>2, <1>4, <2>1, <2>2, <2>3, <2>4, StackTop
<1> QED
  BY <1>3, <1>4

\* palloc takes the top of its stack.
LEMMA TakeStacks ==
    ASSUME NEW t \in Threads, Types, Types', Control, CacheInv, Step(t), HeadCas(t)
    PROVE  /\ Pending' = Pending /\ Pushed' = Pushed
           /\ \/ Free' = Free /\ UNCHANGED <<head, allocCache>>
              \/ /\ head \in Free /\ Free' = Free \ {head} /\ allocCache' = [allocCache EXCEPT ![t] = head]
                 /\ head \in Caches /\ head' = next[head]
<1> USE DEF shared, caches, regs, Goto
<1>0. pc[t] = "headCas" /\ reg[t].head \in Caches
  BY DEF HeadCas, Control, RegistersOf
<1>1. UNCHANGED <<toProcess, reclaim, next>>
  BY DEF HeadCas
<1>2. Pending' = Pending /\ Pushed' = Pushed
  BY <1>1, NewStacks DEF Pending, Pushed, Chain
<1>3. CASE head # reg[t].head
  <2>1. UNCHANGED <<head, allocCache>>
    BY <1>3 DEF HeadCas
  <2> QED
    BY <1>1, <1>2, <2>1, NewStacks DEF Free, Chain
<1>4. CASE head = reg[t].head
  <2>1. head' = nxt[t] /\ allocCache' = [allocCache EXCEPT ![t] = head]
    BY <1>4 DEF HeadCas
  <2>2. head \in Caches /\ head \in Free
    BY <1>0, <1>4, StackTop DEF Free
  <2>3. nxt[t] = next[head]
    BY <1>0, <1>4, <2>2 DEF CacheInv, Remembered
  <2>4. Free = {head} \cup Chain(next[head]) /\ head \notin Chain(next[head])
    BY <2>2, StackTop DEF Free, CacheInv, Ends
  <2>5. Free' = Chain(next[head])
    BY <1>1, <2>1, <2>3, NewStacks DEF Chain
  <2> QED
    BY <1>2, <2>1, <2>2, <2>3, <2>4, <2>5
<1> QED
  BY <1>3, <1>4

\* The phase change moves the retired caches.
LEMMA MoveStacks ==
    ASSUME NEW t \in Threads, Types, Types', Control, Versions, CacheInv, Step(t),
           Freeze(t) \/ Move(t) \/ Unfreeze(t)
    PROVE  /\ Free' = Free
           /\ \/ Pending' = Pending /\ Pushed' = Pushed
              \/ /\ Move(t) /\ toProcess.ver = localVer[t] /\ toProcess'.ver = toProcess.ver + 2
                 /\ Pending = {} /\ Pending' = Pushed /\ Pushed' = {}
<1> USE DEF shared, caches, regs, Goto
<1>0. UNCHANGED <<head, next>>
  BY DEF Freeze, Move, Unfreeze
<1>1. Free' = Free
  BY <1>0, NewStacks DEF Free, Chain
<1>2. CASE Freeze(t)
  <2>1. UNCHANGED toProcess /\ reclaim'.head = reclaim.head
    BY <1>2 DEF Freeze, Types, Versioned
  <2>2. reclaim'.ver = reclaim.ver \/ (reclaim.ver = toProcess.ver /\ reclaim'.ver = toProcess.ver + 1)
    BY <1>2, VersionSteps DEF Freeze, Move, Unfreeze
  <2>3. reclaim'.ver # toProcess'.ver - 1 <=> reclaim.ver # toProcess.ver - 1
    BY <2>1, <2>2, VersionNumbers DEF Versions
  <2>4. Pending' = Pending
    BY <1>0, <2>1, NewStacks DEF Pending, Chain
  <2>5. Pushed' = Pushed
    BY <1>0, <2>1, <2>3, NewStacks DEF Pushed, Chain
  <2> QED
    BY <1>1, <2>4, <2>5
<1>3. CASE Move(t)
  <2>1. UNCHANGED reclaim /\ pc[t] = "move"
    BY <1>3 DEF Move
  <2>2. CASE toProcess.ver = localVer[t]
    <3>1. reclaim.ver = toProcess.ver + 1 /\ toProcess.head = NULL
      <4>1. reclaim.ver > toProcess.ver
        BY <2>1, <2>2 DEF Versions, Changing, ChangePC
      <4> QED
        BY <4>1, VersionNumbers DEF Versions, Emptied
    <3>2. toProcess' = [head |-> reg[t].head, ver |-> localVer[t] + 2] /\ reg[t].head = reclaim.head
      BY <1>3, <2>1, <2>2 DEF Move, Versions, Changing
    <3>3. Pending = {}
      BY <3>1, EmptyStack DEF Pending
    <3>4. toProcess.ver \in Nat /\ toProcess'.ver = toProcess.ver + 2 /\ toProcess'.head = reclaim.head
      BY <2>2, <3>2, VersionNumbers DEF Versions
    <3>5. Pushed = Chain(reclaim.head)
      BY <3>1, <3>4 DEF Pushed
    <3>6. Pending' = Chain(reclaim.head)
      BY <1>0, <3>4, NewStacks DEF Chain
    <3>7. Pushed' = {}
      BY <2>1, <3>1, <3>4, NewStacks
    <3> QED
      BY <1>1, <1>3, <2>2, <3>3, <3>4, <3>5, <3>6, <3>7
  <2>3. CASE toProcess.ver # localVer[t]
    <3>1. UNCHANGED toProcess
      BY <1>3, <2>3 DEF Move
    <3> QED
      BY <1>0, <1>1, <2>1, <3>1, NewStacks DEF Pending, Pushed, Chain
  <2> QED
    BY <2>2, <2>3
<1>4. CASE Unfreeze(t)
  <2>1. UNCHANGED toProcess
    BY <1>4 DEF Unfreeze
  <2>2. Pending' = Pending
    BY <1>0, <2>1, NewStacks DEF Pending, Chain
  <2>3. CASE reclaim.ver = localVer[t] + 1
    <3>1. toProcess.ver = localVer[t] + 2 /\ reclaim.ver = toProcess.ver - 1 /\ toProcess.ver \in Nat
      BY <1>4, <2>3, VersionSteps, VersionNumbers DEF Versions
    <3>2. reclaim' = [head |-> NULL, ver |-> localVer[t] + 2]
      BY <1>4, <2>3 DEF Unfreeze
    <3>3. reclaim'.ver # toProcess'.ver - 1 /\ reclaim'.head = NULL
      BY <2>1, <3>1, <3>2
    <3>4. Pushed = {}
      BY <3>1 DEF Pushed
    <3>5. Pushed' = {}
      BY <1>0, <3>3, NewStacks, EmptyStack DEF Chain
    <3> QED
      BY <1>1, <2>2, <3>4, <3>5
  <2>4. CASE reclaim.ver # localVer[t] + 1
    <3>1. UNCHANGED reclaim
      BY <1>4, <2>4 DEF Unfreeze
    <3> QED
      BY <1>0, <1>1, <2>1, <2>2, <3>1, NewStacks DEF Pushed, Chain
  <2> QED
    BY <2>3, <2>4
<1> QED
  BY <1>2, <1>3, <1>4

-----------------------------------------------------------------------------
(* The caches of a thread.                                                 *)

\* The topmost call is between caches, or goes on with its cache.
LEMMA EntriesTop ==
    ASSUME NEW t \in Threads, Types, Apart(t), calls[t] # <<>>, NEW f \in Frames, SetTop(t, f),
           f.entry \in {NULL, Top(t).entry}
    PROVE  /\ Entries(t)' \subseteq Entries(t) \cup {NULL} /\ Apart(t)'
           /\ f.entry = NULL /\ Top(t).entry # NULL => Top(t).entry \notin Entries(t)'
<1> DEFINE n == Len(calls[t])
<1>1. /\ DOMAIN calls'[t] = DOMAIN calls[t] /\ n \in DOMAIN calls[t]
      /\ calls'[t][n] = f /\ Top(t) = calls[t][n]
      /\ \A k \in DOMAIN calls[t] : k # n => calls'[t][k] = calls[t][k]
  BY TopSet
<1>2. Entries(t)' \subseteq Entries(t) \cup {NULL}
  BY <1>1 DEF Entries
<1>3. Apart(t)'
  BY <1>1 DEF Apart
<1>4. f.entry = NULL /\ Top(t).entry # NULL => Top(t).entry \notin Entries(t)'
  BY <1>1 DEF Apart, Entries
<1> QED
  BY <1>2, <1>3, <1>4

\* The topmost call begins with a cache.
LEMMA EntriesNew ==
    ASSUME NEW t \in Threads, Types, Apart(t), calls[t] # <<>>, NEW f \in Frames, SetTop(t, f),
           f.entry \notin Entries(t)
    PROVE  Entries(t)' \subseteq Entries(t) \cup {f.entry} /\ Apart(t)'
<1> DEFINE n == Len(calls[t])
<1>1. /\ DOMAIN calls'[t] = DOMAIN calls[t] /\ n \in DOMAIN calls[t]
      /\ calls'[t][n] = f
      /\ \A k \in DOMAIN calls[t] : k # n => calls'[t][k] = calls[t][k]
  BY TopSet
<1> QED
  BY <1>1 DEF Apart, Entries

\* A call begins without a cache.
LEMMA EntriesBegun ==
    ASSUME NEW t \in Threads, Types, Apart(t), Trigger(t)
    PROVE  Entries(t)' \subseteq Entries(t) \cup {NULL} /\ Apart(t)'
<1> DEFINE n == Len(calls[t])
<1>1. /\ DOMAIN calls'[t] = 1 .. n + 1 /\ DOMAIN calls[t] = 1 .. n /\ n \in Nat
      /\ calls'[t][n + 1].entry = NULL
      /\ \A k \in 1 .. n : calls'[t][k] = calls[t][k]
  BY CallBegun DEF NewCall
<1>2. \A k \in DOMAIN calls'[t] : k = n + 1 \/ k \in DOMAIN calls[t]
  BY <1>1
<1>3. Entries(t)' \subseteq Entries(t) \cup {NULL}
  BY <1>1, <1>2 DEF Entries
<1>4. ASSUME NEW k \in DOMAIN calls'[t], NEW j \in DOMAIN calls'[t],
             calls'[t][k].entry # NULL /\ calls'[t][j].entry = calls'[t][k].entry
      PROVE  j = k
  <2>1. k # n + 1 /\ j # n + 1
    BY <1>1, <1>4
  <2>2. k \in 1 .. n /\ j \in 1 .. n
    BY <1>1, <1>2, <2>1
  <2> QED
    BY <1>1, <1>4, <2>2 DEF Apart
<1> QED
  BY <1>3, <1>4 DEF Apart

\* A call returns.
LEMMA EntriesReturned ==
    ASSUME NEW t \in Threads, Types, Apart(t), calls[t] # <<>>, Return(t)
    PROVE  Entries(t)' \subseteq Entries(t) /\ Apart(t)'
<1>1. DOMAIN calls'[t] \subseteq DOMAIN calls[t] /\ \A k \in DOMAIN calls'[t] : calls'[t][k] = calls[t][k]
  BY CallReturned
<1> QED
  BY <1>1 DEF Apart, Entries

\* pfree returns.
LEMMA EntriesFreed ==
    ASSUME NEW t \in Threads, Types, Control, Apart(t), pc[t] \in FreePC \cup {"retire"}, FreeReturns(t)
    PROVE  Entries(t)' \subseteq Entries(t) \cup {NULL} /\ Apart(t)'
<1>1. CASE calls[t] = <<>>
  <2>1. calls' = calls
    BY <1>1, FreeReturned
  <2> QED
    BY <2>1 DEF Apart, Entries
<1>2. CASE calls[t] # <<>>
  <2> DEFINE f == [Top(t) EXCEPT !.obj = NoObject]
  <2>1. f \in Frames /\ SetTop(t, f)
    BY <1>2, FreeReturned
  <2>2. f.entry = Top(t).entry
    BY <1>2, TopFrame DEF Frames
  <2> HIDE DEF f
  <2> QED
    BY <1>2, <2>1, <2>2, EntriesTop
<1> QED
  BY <1>1, <1>2

\* The thread has the caches it had, or less.
Plain(t) ==
    /\ allocCache'[t] = allocCache[t] /\ freeCache'[t] = freeCache[t]
    /\ Popped(t)' = NULL /\ Entries(t)' \subseteq Entries(t) \cup {NULL} /\ Apart(t)'

\* Such a step gives the thread no cache.
LEMMA PlainMine ==
    ASSUME NEW t \in Threads, OneEach(t), Plain(t)
    PROVE  Mine(t)' \subseteq Mine(t) /\ OneEach(t)'
  BY DEF Plain, Mine, OneEach

\* The steps that do not take a cache.
LEMMA PlainSteps ==
    ASSUME NEW t \in Threads, Types, Types', Control, Apart(t), Step(t),
           ~ (PopCas(t) \/ Repair(t) \/ PFree(t) \/ PushCas(t) \/ HeadCas(t))
    PROVE  Plain(t)
<1> USE DEF shared, caches, regs, records, operation
<1>0. /\ calls[t] # <<>> /\ pc[t] \in ScanPC \cup {"pop"} => Top(t) \in Frames
      /\ pc[t] \in ScanPC \cup {"pop"} => calls[t] # <<>>
  BY TopFrame DEF Control, CallsOf, ScanPC, ListPC, PallocPC, FreePC
<1>1. pc'[t] # "repair"
  BY CollectPlaces, MutatorPlaces DEF Step
<1>2. Popped(t)' = NULL
  BY <1>1 DEF Popped
<1>3. allocCache' = allocCache /\ freeCache' = freeCache
  <2>1. Freeze(t) \/ LoadHead(t) \/ Move(t) \/ Unfreeze(t) \/ Look(t) \/ Stamp(t) \/ Save(t) \/ Pop(t) \/ Follow(t)
        => allocCache' = allocCache /\ freeCache' = freeCache
    BY DEF Freeze, LoadHead, Move, Unfreeze, Look, Stamp, Save, Pop, Follow
  <2>2. Scan(t) \/ EndScan(t) \/ GiveCas(t) \/ PushLink(t) \/ PopHead(t) \/ UnlinkCache(t) \/ Clear(t) \/ Search(t)
        => allocCache' = allocCache /\ freeCache' = freeCache
    BY DEF Scan, EndScan, GiveCas, PushLink, PopHead, UnlinkCache, Clear, Search, vars
  <2>3. WalkToUnlink(t) \/ WalkToInsert(t) \/ Publish(t) \/ Fence(t) \/ Restart(t) \/ Cas(t) \/ Finish(t)
        => allocCache' = allocCache /\ freeCache' = freeCache
    BY DEF WalkToUnlink, WalkToInsert, Publish, Fence, Restart, Cas, Finish
  <2> QED
    BY <2>1, <2>2, <2>3 DEF Step
<1>4. Entries(t)' \subseteq Entries(t) \cup {NULL} /\ Apart(t)'
  <2>0. calls' = calls => Entries(t)' \subseteq Entries(t) \cup {NULL} /\ Apart(t)'
    BY DEF Entries, Apart
  <2>1. Freeze(t) \/ LoadHead(t) \/ Move(t) \/ Unfreeze(t) \/ Look(t) \/ Stamp(t) \/ Save(t) \/ Follow(t)
        => calls' = calls
    BY DEF Freeze, LoadHead, Move, Unfreeze, Look, Stamp, Save, Follow
  <2>2. UnlinkCache(t) \/ Clear(t) \/ Search(t) \/ WalkToUnlink(t) \/ WalkToInsert(t) \/ Publish(t) \/ Fence(t)
        => calls' = calls
    BY DEF UnlinkCache, Clear, Search, vars, WalkToUnlink, WalkToInsert, Publish, Fence
  <2>3. Restart(t) \/ Cas(t) \/ Finish(t) => calls' = calls
    BY DEF Restart, Cas, Finish
  <2>4. CASE Pop(t)
    <3>1. calls' = calls \/ Return(t)
      BY <2>4 DEF Pop
    <3>2. calls[t] # <<>>
      BY <1>0, <2>4 DEF Pop
    <3> QED
      BY <2>0, <3>1, <3>2, EntriesReturned
  <2>5. CASE Scan(t)
    <3> DEFINE o == Head(Top(t).rest)
               f == [Top(t) EXCEPT !.rest = Tail(@)]
    <3>1. calls[t] # <<>> /\ Top(t) \in Frames /\ Top(t).rest # <<>>
      BY <1>0, <2>5 DEF Scan, ScanPC
    <3>2. o \in Objects /\ Tail(Top(t).rest) \in Seq(Objects)
      BY <3>1, HeadTailProperties DEF Frames
    <3>3. f \in Frames /\ f.entry = Top(t).entry /\ f.kept \in Seq(Objects)
      BY <3>1, <3>2 DEF Frames
    <3>4. SetTop(t, [f EXCEPT !.obj = o]) \/ SetTop(t, [f EXCEPT !.kept = Append(@, o)])
      BY <2>5 DEF Scan
    <3> HIDE DEF f, o
    <3>a. Append(f.kept, o) \in Seq(Objects) /\ o \in ObjectOrNone
      BY <3>2, <3>3, AppendProperties DEF ObjectOrNone
    <3>5. /\ [f EXCEPT !.obj = o] \in Frames /\ [f EXCEPT !.obj = o].entry = Top(t).entry
          /\ [f EXCEPT !.kept = Append(@, o)] \in Frames /\ [f EXCEPT !.kept = Append(@, o)].entry = Top(t).entry
      BY <3>3, <3>a DEF Frames
    <3> QED
      BY <3>1, <3>4, <3>5, EntriesTop
  <2>6. CASE EndScan(t) \/ GiveCas(t)
    <3>1. calls[t] # <<>>
      BY <1>0, <2>6 DEF EndScan, GiveCas, ScanPC
    <3>2. calls' = calls \/ SetTop(t, NewCall)
      BY <2>6 DEF EndScan, GiveCas
    <3>3. NewCall \in Frames /\ NewCall.entry = NULL
      BY ConstantTypes DEF NewCall
    <3> QED
      BY <2>0, <3>1, <3>2, <3>3, EntriesTop
  <2>7. CASE PushLink(t) \/ PopHead(t)
    <3>1. calls' = calls \/ Trigger(t)
      BY <2>7 DEF PushLink, PopHead
    <3> QED
      BY <2>0, <3>1, EntriesBegun
  <2> QED
    BY <2>0, <2>1, <2>2, <2>3, <2>4, <2>5, <2>6, <2>7 DEF Step
<1> QED
  BY <1>2, <1>3, <1>4 DEF Plain

\* pop.
LEMMA PopMine ==
    ASSUME NEW t \in Threads, Types, Types', Control, CacheInv, Step(t), PopCas(t)
    PROVE  /\ OneEach(t)'
           /\ \/ Quiet /\ Mine(t)' \subseteq Mine(t)
              \/ /\ reg[t].head \in Pending /\ Pending' = Pending \ {reg[t].head} /\ Free' = Free /\ Pushed' = Pushed
                 /\ Mine(t)' \subseteq Mine(t) \cup {reg[t].head}
<1>0. /\ OneEach(t) /\ pc[t] = "popCas" /\ calls' = calls /\ allocCache' = allocCache /\ freeCache' = freeCache
      /\ Entries(t)' = Entries(t) /\ Apart(t)'
  BY DEF PopCas, caches, CacheInv, Exclusive, Entries, Apart, OneEach
<1>1. CASE Quiet /\ pc'[t] = "pop"
  <2>1. Plain(t)
    BY <1>0, <1>1 DEF Plain, Popped
  <2> QED
    BY <1>0, <1>1, <2>1, PlainMine
<1>2. CASE /\ reg[t].head \in Pending /\ Pending' = Pending \ {reg[t].head} /\ Free' = Free /\ Pushed' = Pushed
           /\ pc'[t] = "repair" /\ reg'[t] = reg[t]
  <2> DEFINE c == reg[t].head
  <2>1. Popped(t)' = c
    BY <1>2 DEF Popped
  <2>2. c \notin Mine(t) /\ c \in Caches
    BY <1>2, ReferencedCaches DEF CacheInv, Exclusive
  <2>3. Mine(t)' \subseteq Mine(t) \cup {c}
    BY <1>0, <2>1 DEF Mine
  <2>4. c \notin {allocCache[t], freeCache[t]} \cup Entries(t)
    BY <2>2, ConstantTypes DEF Mine
  <2>5. OneEach(t)'
    BY <1>0, <2>1, <2>4 DEF OneEach
  <2> QED
    BY <1>2, <2>3, <2>5
<1> QED
  BY <1>1, <1>2, PopStacks

\* The popped cache becomes the entry of the call.
LEMMA RepairMine ==
    ASSUME NEW t \in Threads, Types, Types', Control, CacheInv, Step(t), Repair(t)
    PROVE  OneEach(t)' /\ Mine(t)' \subseteq Mine(t)
<1> DEFINE e == reg[t].head
           f == [NewCall EXCEPT !.entry = e, !.rest = ptrs[e]]
<1>0. /\ OneEach(t) /\ pc[t] = "repair" /\ pc'[t] = "scan" /\ allocCache' = allocCache /\ freeCache' = freeCache
  BY CollectPlaces DEF Repair, CacheInv, Exclusive
<1>1. e \in Caches /\ calls[t] # <<>>
  BY <1>0 DEF Control, RegistersOf, CallsOf, ListPC, PallocPC, FreePC
<1>2. f \in Frames /\ f.entry = e
  <2>1. ptrs[e] \in Seq(Objects) /\ e \in Pointers
    BY <1>1, ConstantTypes DEF Types
  <2> QED
    BY <2>1, ConstantTypes DEF Frames, NewCall, ObjectOrNone
<1>3. SetTop(t, f)
  BY DEF Repair
<1>4. Popped(t) = e /\ Popped(t)' = NULL /\ e # NULL
  BY <1>0, <1>1, ConstantTypes DEF Popped
<1>5. e \notin {allocCache[t], freeCache[t]} \cup Entries(t)
  BY <1>0, <1>4 DEF OneEach
<1> HIDE DEF f
<1>6. Entries(t)' \subseteq Entries(t) \cup {e} /\ Apart(t)'
  BY <1>0, <1>1, <1>2, <1>3, <1>5, EntriesNew DEF OneEach
<1>7. Mine(t)' \subseteq Mine(t)
  BY <1>0, <1>4, <1>6 DEF Mine
<1>8. OneEach(t)'
  <2>1. NULL \notin Caches
    BY ConstantTypes
  <2> HIDE DEF e
  <2> QED
    BY <1>0, <1>4, <1>5, <1>6 DEF OneEach
<1> QED
  BY <1>7, <1>8

\* A malloc gives the new free_cache.
LEMMA FreshMine ==
    ASSUME NEW t \in Threads, Types, Types', Control, CacheInv, pc[t] \in FreePC \cup {"retire"},
           NewFreeCache(t), FreeReturns(t), allocCache' = allocCache
    PROVE  \E c \in Fresh : /\ freeCache' = [freeCache EXCEPT ![t] = c] /\ ptrs' = [ptrs EXCEPT ![c] = <<Argument(t)>>]
                            /\ freeCache'[t] = c /\ OneEach(t)' /\ Mine(t)' \subseteq (Mine(t) \ {freeCache[t]}) \cup {c}
<1>0. OneEach(t) /\ pc \in [Threads -> RetirePC] /\ freeCache \in [Threads -> Pointers]
  BY DEF CacheInv, Exclusive, Types
<1>1. PICK c \in Fresh : freeCache' = [freeCache EXCEPT ![t] = c] /\ ptrs' = [ptrs EXCEPT ![c] = <<Argument(t)>>]
  BY DEF NewFreeCache
<1>2. freeCache'[t] = c
  BY <1>0, <1>1
<1>3. c \notin Mine(t) /\ c \in Caches /\ c # NULL
  BY FreshNowhere, ConstantTypes
<1>4. c \notin {allocCache[t], freeCache[t]} \cup Entries(t)
  BY <1>3 DEF Mine
<1>5. Popped(t)' = NULL /\ Popped(t) = NULL
  <2>1. pc'[t] # "repair" /\ pc[t] # "repair"
    BY <1>0 DEF FreeReturns, Goto, FreePC
  <2> QED
    BY <2>1 DEF Popped
<1>6. Entries(t)' \subseteq Entries(t) \cup {NULL} /\ Apart(t)'
  BY <1>0, EntriesFreed DEF OneEach
<1>7. OneEach(t)'
  BY <1>0, <1>2, <1>3, <1>4, <1>5, <1>6 DEF OneEach
<1>8. Mine(t)' \subseteq (Mine(t) \ {freeCache[t]}) \cup {c}
  <2>1. Mine(t)' \subseteq ({allocCache[t], c} \cup Entries(t)) \ {NULL}
    BY <1>2, <1>5, <1>6 DEF Mine
  <2>2. freeCache[t] # NULL => freeCache[t] \notin {allocCache[t]} \cup Entries(t)
    BY <1>0 DEF OneEach
  <2> QED
    BY <2>1, <2>2 DEF Mine
<1> QED
  BY <1>1, <1>2, <1>7, <1>8

\* pfree.
LEMMA FreeMine ==
    ASSUME NEW t \in Threads, Types, Types', Control, CacheInv, Step(t), PFree(t)
    PROVE  /\ OneEach(t)'
           /\ \/ Mine(t)' \subseteq Mine(t)
              \/ \E c \in Fresh : Mine(t)' \subseteq Mine(t) \cup {c}
<1>0. OneEach(t) /\ pc[t] \in FreePC \cup {"retire"} /\ allocCache' = allocCache /\ pc'[t] # "repair"
  BY MutatorPlaces DEF PFree, CacheInv, Exclusive, FreePC
<1>1. CASE NewFreeCache(t) /\ FreeReturns(t)
  BY <1>0, <1>1, FreshMine
<1>2. CASE UNCHANGED freeCache /\ (FreeReturns(t) \/ UNCHANGED calls)
  <2>1. Entries(t)' \subseteq Entries(t) \cup {NULL} /\ Apart(t)'
    <3>1. CASE FreeReturns(t)
      BY <1>0, <3>1, EntriesFreed DEF OneEach
    <3>2. CASE UNCHANGED calls
      BY <1>0, <3>2 DEF OneEach, Entries, Apart
    <3> QED
      BY <1>2, <3>1, <3>2
  <2>2. Plain(t)
    BY <1>0, <1>2, <2>1 DEF Plain, Popped
  <2> QED
    BY <1>0, <2>2, PlainMine
<1> QED
  BY <1>1, <1>2 DEF PFree

\* The push of a full cache.
LEMMA PushMine ==
    ASSUME NEW t \in Threads, Types, Types', Control, Versions, CacheInv, Step(t), PushCas(t)
    PROVE  /\ OneEach(t)' /\ Free' = Free /\ Pending' = Pending
           /\ \/ Mine(t)' \subseteq Mine(t) /\ Pushed' = Pushed
              \/ /\ \E c \in Fresh : Mine(t)' \subseteq (Mine(t) \ {freeCache[t]}) \cup {c}
                 /\ Pushed' = Pushed \cup {freeCache[t]} /\ freeCache[t] \in Mine(t)
<1>0. OneEach(t) /\ pc[t] \in FreePC \cup {"retire"} /\ allocCache' = allocCache /\ pc'[t] # "repair"
  BY MutatorPlaces DEF PushCas, CacheInv, Exclusive, FreePC
<1>1. CASE Pushed' = Pushed /\ UNCHANGED <<freeCache, calls>>
  <2>1. Plain(t)
    BY <1>0, <1>1 DEF Plain, Popped, OneEach, Entries, Apart
  <2> QED
    BY <1>0, <1>1, <2>1, PlainMine, PushStacks
<1>2. CASE /\ Pushed' = Pushed \cup {freeCache[t]} /\ freeCache[t] \in Caches
           /\ NewFreeCache(t) /\ FreeReturns(t)
  <2>1. freeCache[t] \in Mine(t)
    BY <1>2, ConstantTypes DEF Mine
  <2> QED
    BY <1>0, <1>2, <2>1, FreshMine, PushStacks
<1> QED
  BY <1>1, <1>2, PushStacks

\* palloc takes a cache.
LEMMA TakeMine ==
    ASSUME NEW t \in Threads, Types, Types', Control, CacheInv, Step(t), HeadCas(t)
    PROVE  /\ OneEach(t)' /\ Pending' = Pending /\ Pushed' = Pushed
           /\ \/ Mine(t)' \subseteq Mine(t) /\ Free' = Free
              \/ Mine(t)' \subseteq Mine(t) \cup {head} /\ head \in Free /\ Free' = Free \ {head}
<1>0. /\ OneEach(t) /\ pc'[t] # "repair" /\ pc[t] # "repair"
      /\ freeCache' = freeCache /\ calls' = calls /\ allocCache \in [Threads -> Pointers]
  BY MutatorPlaces DEF HeadCas, CacheInv, Exclusive, Types
<1>1. Popped(t) = NULL /\ Popped(t)' = NULL /\ Entries(t)' = Entries(t) /\ Apart(t)'
  BY <1>0 DEF Popped, Entries, Apart, OneEach
<1>2. CASE Free' = Free /\ UNCHANGED allocCache
  <2>1. Plain(t)
    BY <1>0, <1>1, <1>2 DEF Plain
  <2> QED
    BY <1>0, <1>2, <2>1, PlainMine, TakeStacks
<1>3. CASE head \in Free /\ Free' = Free \ {head} /\ allocCache' = [allocCache EXCEPT ![t] = head] /\ head \in Caches
  <2>1. head \notin Mine(t) /\ head # NULL /\ allocCache'[t] = head
    BY <1>0, <1>3, ConstantTypes DEF CacheInv, Exclusive
  <2>2. head \notin {freeCache[t]} \cup Entries(t)
    BY <2>1 DEF Mine
  <2>3. OneEach(t)'
    BY <1>0, <1>1, <2>1, <2>2 DEF OneEach
  <2>4. Mine(t)' \subseteq Mine(t) \cup {head}
    BY <1>0, <1>1, <2>1 DEF Mine
  <2> QED
    BY <1>3, <2>3, <2>4, TakeStacks
<1> QED
  BY <1>2, <1>3, TakeStacks

\* The processed cache is given away.
LEMMA GiveMine ==
    ASSUME NEW t \in Threads, Types, Types', Control, CacheInv, Step(t), GiveCas(t)
    PROVE  /\ OneEach(t)' /\ Pending' = Pending /\ Pushed' = Pushed /\ Mine(t)' \subseteq Mine(t)
           /\ \/ Free' = Free
              \/ Free' = Free \cup {Top(t).entry} /\ Top(t).entry \in Mine(t) /\ Top(t).entry \notin Mine(t)'
<1>0. OneEach(t) /\ Apart(t)
  BY DEF CacheInv, Exclusive, OneEach
<1>1. Plain(t)
  BY <1>0, PlainSteps DEF GiveCas, PopCas, Repair, PFree, PushCas, HeadCas
<1>2. ASSUME SetTop(t, NewCall), Top(t).entry \in Caches, calls[t] # <<>>
      PROVE  Top(t).entry \in Mine(t) /\ Top(t).entry \notin Mine(t)'
  <2>1. NewCall \in Frames /\ NewCall.entry = NULL /\ Top(t).entry # NULL
    BY <1>2, ConstantTypes DEF NewCall
  <2>2. Top(t).entry \notin Entries(t)'
    BY <1>0, <1>2, <2>1, EntriesTop
  <2>3. Top(t).entry \in Entries(t)
    BY <1>2, TopFrame DEF Entries
  <2>4. Top(t).entry \notin {allocCache[t], freeCache[t]}
    BY <1>0, <2>1, <2>3 DEF OneEach
  <2> QED
    BY <1>1, <2>1, <2>2, <2>3, <2>4 DEF Mine, Plain
<1> QED
  BY <1>0, <1>1, <1>2, PlainMine, GiveStacks

-----------------------------------------------------------------------------
(* The caches after a step.                                                *)

\* The invariant of the places of the caches, from what a step changes.
LEMMA ExclusiveParts ==
    ASSUME NEW t \in Threads, Exclusive, OneEach(t)', NEW G,
           \A u \in Threads : u # t => Same(u) /\ G \cap Mine(u) = {},
           Mine(t)' \subseteq Mine(t) \cup G,
           Mine(t)' \cap (Free' \cup Pending' \cup Pushed') = {},
           Free' \cup Pending' \cup Pushed' \subseteq Free \cup Pending \cup Pushed \cup Mine(t),
           Free' \cap Pending' = {}, Free' \cap Pushed' = {}, Pending' \cap Pushed' = {}
    PROVE  Exclusive'
<1>1. ASSUME NEW u \in Threads, u # t PROVE Mine(u)' = Mine(u) /\ (OneEach(u) => OneEach(u)')
  <2>1. Same(u)
    BY <1>1
  <2> QED
    BY <2>1 DEF Same, Mine, Popped, Entries, OneEach, Apart
<1>2. ASSUME NEW u \in Threads
      PROVE  /\ Mine(u)' \cap (Free' \cup Pending' \cup Pushed') = {} /\ OneEach(u)'
             /\ \A v \in Threads : v # u => Mine(u)' \cap Mine(v)' = {}
  <2>1. CASE u = t
    <3>1. ASSUME NEW v \in Threads, v # t PROVE Mine(t)' \cap Mine(v)' = {}
      BY <1>1, <3>1 DEF Exclusive
    <3> QED
      BY <2>1, <3>1
  <2>2. CASE u # t
    <3>1. Mine(u)' = Mine(u) /\ OneEach(u)'
      BY <1>1, <2>2 DEF Exclusive
    <3>2. Mine(u) \cap (Free' \cup Pending' \cup Pushed') = {}
      BY <2>2 DEF Exclusive
    <3>3. ASSUME NEW v \in Threads, v # u PROVE Mine(u)' \cap Mine(v)' = {}
      <4>1. CASE v = t
        BY <2>2, <3>1, <4>1 DEF Exclusive
      <4>2. CASE v # t
        BY <1>1, <3>1, <3>3, <4>2 DEF Exclusive
      <4> QED
        BY <4>1, <4>2
    <3> QED
      BY <3>1, <3>2, <3>3
  <2> QED
    BY <2>1, <2>2
<1> QED
  BY <1>2 DEF Exclusive

\* The other steps leave the tops of the stacks and their versions alone.
LEMMA TopsSame ==
    ASSUME NEW t \in Threads, Step(t),
           ~ (PopCas(t) \/ PushCas(t) \/ HeadCas(t) \/ GiveCas(t) \/ Freeze(t) \/ Move(t) \/ Unfreeze(t))
    PROVE  UNCHANGED <<head, toProcess, reclaim>>
<1> USE DEF shared
<1>1. LoadHead(t) \/ Look(t) \/ Stamp(t) \/ Save(t) \/ Pop(t) \/ Follow(t) \/ Scan(t) \/ EndScan(t) \/ Repair(t)
      => UNCHANGED <<head, toProcess, reclaim>>
  BY DEF LoadHead, Look, Stamp, Save, Pop, Follow, Scan, EndScan, Repair
<1>2. PFree(t) \/ PushLink(t) \/ PopHead(t) \/ UnlinkCache(t) \/ Clear(t) \/ Search(t)
      => UNCHANGED <<head, toProcess, reclaim>>
  BY DEF PFree, PushLink, PopHead, UnlinkCache, Clear, Search, vars
<1>3. WalkToUnlink(t) \/ WalkToInsert(t) \/ Publish(t) \/ Fence(t) \/ Restart(t) \/ Cas(t) \/ Finish(t)
      => UNCHANGED <<head, toProcess, reclaim>>
  BY DEF WalkToUnlink, WalkToInsert, Publish, Fence, Restart, Cas, Finish
<1> QED
  BY <1>1, <1>2, <1>3 DEF Step

\* A step keeps the caches apart.
LEMMA StepExclusive ==
    ASSUME NEW t \in Threads, Types, Types', Control, Versions, CacheInv, Step(t)
    PROVE  Exclusive'
<1>0. /\ \A u \in Threads : u # t => Same(u)
      /\ Exclusive /\ Apart(t) /\ OneEach(t)
      /\ Free \cap Pending = {} /\ Free \cap Pushed = {} /\ Pending \cap Pushed = {}
      /\ \A u \in Threads : Mine(u) \cap (Free \cup Pending \cup Pushed) = {}
      /\ \A u \in Threads : u # t => Mine(u) \cap Mine(t) = {}
  BY OthersSame DEF CacheInv, Exclusive, OneEach
<1>f. \A c \in Fresh : c \notin Free \cup Pending \cup Pushed /\ \A u \in Threads : c \notin Mine(u)
  BY FreshNowhere
<1>1. CASE PopCas(t)
  <2>1. CASE Quiet /\ Mine(t)' \subseteq Mine(t)
    BY <1>0, <1>1, <2>1, PopMine, ExclusiveParts DEF Quiet
  <2>2. CASE /\ reg[t].head \in Pending /\ Pending' = Pending \ {reg[t].head} /\ Free' = Free /\ Pushed' = Pushed
             /\ Mine(t)' \subseteq Mine(t) \cup {reg[t].head}
    <3> DEFINE G == {reg[t].head}
    <3>1. /\ \A u \in Threads : u # t => Same(u) /\ G \cap Mine(u) = {}
          /\ Mine(t)' \subseteq Mine(t) \cup G /\ OneEach(t)'
      BY <1>0, <1>1, <2>2, PopMine
    <3>2. Mine(t)' \cap (Free' \cup Pending' \cup Pushed') = {}
      BY <1>0, <2>2
    <3>3. /\ Free' \cup Pending' \cup Pushed' \subseteq Free \cup Pending \cup Pushed \cup Mine(t)
          /\ Free' \cap Pending' = {} /\ Free' \cap Pushed' = {} /\ Pending' \cap Pushed' = {}
      BY <1>0, <2>2
    <3> HIDE DEF G
    <3> QED
      BY <1>0, <3>1, <3>2, <3>3, ExclusiveParts
  <2> QED
    BY <1>1, <2>1, <2>2, PopMine
<1>2. CASE PushCas(t)
  <2>1. CASE Mine(t)' \subseteq Mine(t) /\ Pushed' = Pushed
    BY <1>0, <1>2, <2>1, PushMine, ExclusiveParts
  <2>2. CASE /\ \E c \in Fresh : Mine(t)' \subseteq (Mine(t) \ {freeCache[t]}) \cup {c}
             /\ Pushed' = Pushed \cup {freeCache[t]} /\ freeCache[t] \in Mine(t)
    <3>0. PICK c \in Fresh : Mine(t)' \subseteq (Mine(t) \ {freeCache[t]}) \cup {c}
      BY <2>2
    <3> DEFINE G == {c}
    <3>1. /\ \A u \in Threads : u # t => Same(u) /\ G \cap Mine(u) = {}
          /\ Mine(t)' \subseteq Mine(t) \cup G /\ OneEach(t)' /\ Free' = Free /\ Pending' = Pending
      BY <1>0, <1>f, <1>2, <3>0, PushMine
    <3>2. Mine(t)' \cap (Free' \cup Pending' \cup Pushed') = {}
      BY <1>0, <1>f, <2>2, <3>0, <3>1
    <3>3. /\ Free' \cup Pending' \cup Pushed' \subseteq Free \cup Pending \cup Pushed \cup Mine(t)
          /\ Free' \cap Pending' = {} /\ Free' \cap Pushed' = {} /\ Pending' \cap Pushed' = {}
      BY <1>0, <2>2, <3>1
    <3> HIDE DEF G
    <3> QED
      BY <1>0, <3>1, <3>2, <3>3, ExclusiveParts
  <2> QED
    BY <1>2, <2>1, <2>2, PushMine
<1>3. CASE HeadCas(t)
  <2>1. CASE Mine(t)' \subseteq Mine(t) /\ Free' = Free
    BY <1>0, <1>3, <2>1, TakeMine, ExclusiveParts
  <2>2. CASE Mine(t)' \subseteq Mine(t) \cup {head} /\ head \in Free /\ Free' = Free \ {head}
    <3> DEFINE G == {head}
    <3>1. /\ \A u \in Threads : u # t => Same(u) /\ G \cap Mine(u) = {}
          /\ Mine(t)' \subseteq Mine(t) \cup G /\ OneEach(t)' /\ Pending' = Pending /\ Pushed' = Pushed
      BY <1>0, <1>3, <2>2, TakeMine
    <3>2. Mine(t)' \cap (Free' \cup Pending' \cup Pushed') = {}
      BY <1>0, <2>2, <3>1
    <3>3. /\ Free' \cup Pending' \cup Pushed' \subseteq Free \cup Pending \cup Pushed \cup Mine(t)
          /\ Free' \cap Pending' = {} /\ Free' \cap Pushed' = {} /\ Pending' \cap Pushed' = {}
      BY <1>0, <2>2, <3>1
    <3> HIDE DEF G
    <3> QED
      BY <1>0, <3>1, <3>2, <3>3, ExclusiveParts
  <2> QED
    BY <1>3, <2>1, <2>2, TakeMine
<1>4. CASE GiveCas(t)
  <2>1. /\ OneEach(t)' /\ Pending' = Pending /\ Pushed' = Pushed /\ Mine(t)' \subseteq Mine(t) \cup {}
        /\ \/ Free' = Free
           \/ Free' = Free \cup {Top(t).entry} /\ Top(t).entry \in Mine(t) /\ Top(t).entry \notin Mine(t)'
    BY <1>4, GiveMine
  <2>2. Mine(t)' \cap (Free' \cup Pending' \cup Pushed') = {}
    BY <1>0, <2>1
  <2>3. /\ Free' \cup Pending' \cup Pushed' \subseteq Free \cup Pending \cup Pushed \cup Mine(t)
        /\ Free' \cap Pending' = {} /\ Free' \cap Pushed' = {} /\ Pending' \cap Pushed' = {}
    BY <1>0, <2>1
  <2> QED
    BY <1>0, <2>1, <2>2, <2>3, ExclusiveParts
<1>5. CASE PFree(t)
  <2>0. Quiet
    BY <1>5, QuietStacks DEF PFree, shared
  <2>1. CASE Mine(t)' \subseteq Mine(t)
    BY <1>0, <1>5, <2>0, <2>1, FreeMine, ExclusiveParts DEF Quiet
  <2>2. CASE \E c \in Fresh : Mine(t)' \subseteq Mine(t) \cup {c}
    <3>0. PICK c \in Fresh : Mine(t)' \subseteq Mine(t) \cup {c}
      BY <2>2
    <3> DEFINE G == {c}
    <3>1. /\ \A u \in Threads : u # t => Same(u) /\ G \cap Mine(u) = {}
          /\ Mine(t)' \subseteq Mine(t) \cup G /\ OneEach(t)'
      BY <1>0, <1>f, <1>5, <3>0, FreeMine
    <3>2. Mine(t)' \cap (Free' \cup Pending' \cup Pushed') = {}
      BY <1>0, <1>f, <2>0, <3>0 DEF Quiet
    <3>3. /\ Free' \cup Pending' \cup Pushed' \subseteq Free \cup Pending \cup Pushed \cup Mine(t)
          /\ Free' \cap Pending' = {} /\ Free' \cap Pushed' = {} /\ Pending' \cap Pushed' = {}
      BY <1>0, <2>0 DEF Quiet
    <3> HIDE DEF G
    <3> QED
      BY <1>0, <3>1, <3>2, <3>3, ExclusiveParts
  <2> QED
    BY <1>5, <2>1, <2>2, FreeMine
<1>6. CASE Repair(t)
  <2>1. Free' = Free /\ Pending' = Pending /\ Pushed' = Pushed
    BY <1>6, QuietStacks DEF Repair, shared, Quiet
  <2>2. Mine(t)' \subseteq Mine(t) \cup {} /\ OneEach(t)'
    BY <1>6, RepairMine
  <2> QED
    BY <1>0, <2>1, <2>2, ExclusiveParts
<1>7. CASE Freeze(t) \/ Move(t) \/ Unfreeze(t)
  <2>1. ~ (PopCas(t) \/ Repair(t) \/ PFree(t) \/ PushCas(t) \/ HeadCas(t))
    BY <1>7 DEF Freeze, Move, Unfreeze, PopCas, Repair, PFree, PushCas, HeadCas
  <2>2. Plain(t)
    BY <1>0, <2>1, PlainSteps
  <2>3. Mine(t)' \subseteq Mine(t) \cup {} /\ OneEach(t)'
    BY <1>0, <2>2, PlainMine
  <2>4. \/ Free' = Free /\ Pending' = Pending /\ Pushed' = Pushed
        \/ Free' = Free /\ Pending' = Pushed /\ Pushed' = {}
    BY <1>7, MoveStacks
  <2> QED
    BY <1>0, <2>3, <2>4, ExclusiveParts
<1>8. CASE /\ ~ (PopCas(t) \/ Repair(t) \/ PFree(t) \/ PushCas(t) \/ HeadCas(t))
           /\ ~ (GiveCas(t) \/ Freeze(t) \/ Move(t) \/ Unfreeze(t))
  <2>1. Mine(t)' \subseteq Mine(t) \cup {} /\ OneEach(t)'
    BY <1>0, <1>8, PlainSteps, PlainMine
  <2>2. UNCHANGED <<head, toProcess, reclaim>>
    BY <1>8, TopsSame
  <2>3. Free' = Free /\ Pending' = Pending /\ Pushed' = Pushed
    BY <2>2, QuietStacks DEF Quiet
  <2> QED
    BY <1>0, <2>1, <2>3, ExclusiveParts
<1> QED
  BY <1>1, <1>2, <1>3, <1>4, <1>5, <1>6, <1>7, <1>8

\* How the stacks change.
LEMMA StackSteps ==
    ASSUME NEW t \in Threads, Types, Types', Control, Versions, CacheInv, Step(t)
    PROVE  /\ \/ Free' \subseteq Free
              \/ GiveCas(t) /\ Free' = Free \cup {Top(t).entry} /\ Top(t).entry \in Entries(t)
                 /\ head = next[Top(t).entry] /\ next' = next
           /\ \/ Pending' \subseteq Pending /\ toProcess'.ver = toProcess.ver
              \/ Pending' = Pushed /\ toProcess'.ver = toProcess.ver + 2 /\ localVer' = localVer
           /\ \/ Pushed' \subseteq Pushed
              \/ PushCas(t) /\ Pushed' = Pushed \cup {freeCache[t]} /\ freeCache[t] \in Caches
                 /\ Pushed = Chain(next[freeCache[t]]) /\ next' = next
<1>1. CASE PopCas(t)
  <2>1. toProcess'.ver = toProcess.ver
    BY <1>1, VersionSteps DEF PopCas, Freeze, Move, Unfreeze
  <2> QED
    BY <1>1, <2>1, PopStacks DEF Quiet
<1>2. CASE PushCas(t)
  <2>1. toProcess'.ver = toProcess.ver /\ next' = next
    BY <1>2 DEF PushCas
  <2>2. reclaim # reg[t] => Pushed' = Pushed
    <3>1. reclaim # reg[t] => UNCHANGED <<reclaim, toProcess, next>>
      BY <1>2 DEF PushCas
    <3> QED
      BY <3>1 DEF Pushed, Chain
  <2>3. reg[t].head = next[freeCache[t]]
    BY <1>2 DEF PushCas, Control, RegistersOf
  <2>4. reclaim = reg[t] /\ reclaim.ver = toProcess.ver => Pushed = Chain(next[freeCache[t]])
    <3>1. toProcess.ver \in Nat
      BY VersionNumbers DEF Versions
    <3> QED
      BY <2>3, <3>1 DEF Pushed
  <2> QED
    BY <1>2, <2>1, <2>2, <2>4, PushStacks
<1>3. CASE HeadCas(t)
  BY <1>3, TakeStacks DEF HeadCas
<1>4. CASE GiveCas(t)
  <2>1. toProcess' = toProcess /\ next' = next
    BY <1>4 DEF GiveCas, caches
  <2>2. calls[t] # <<>> => Top(t).entry \in Entries(t)
    BY TopFrame DEF Entries
  <2>3. head # next[Top(t).entry] => Free' = Free
    BY <1>4, <2>1 DEF GiveCas, Free, Chain
  <2> QED
    BY <1>4, <2>1, <2>2, <2>3, GiveStacks
<1>5. CASE Freeze(t) \/ Move(t) \/ Unfreeze(t)
  <2>1. Move(t) => localVer' = localVer
    BY DEF Move
  <2>2. CASE Pending' = Pending /\ Pushed' = Pushed
    <3>1. CASE toProcess'.ver = toProcess.ver
      BY <1>5, <2>2, <3>1, MoveStacks
    <3>2. CASE toProcess'.ver # toProcess.ver
      <4>1. Move(t) /\ toProcess'.ver = toProcess.ver + 2 /\ toProcess.ver = localVer[t]
        BY <3>2, VersionSteps, VersionNumbers DEF Versions
      <4>2. UNCHANGED <<reclaim, next>> /\ toProcess'.head = reg[t].head /\ reg[t].head = reclaim.head
        BY <4>1 DEF Move, caches, Versions, Changing
      <4>3. reclaim.ver = toProcess.ver + 1 /\ toProcess.ver \in Nat
        BY <3>2, <4>1, VersionSteps, VersionNumbers DEF Versions
      <4>4. Pushed = Chain(reclaim.head) /\ Pending' = Chain(reclaim.head)
        BY <4>2, <4>3 DEF Pushed, Pending, Chain
      <4> QED
        BY <1>5, <2>1, <2>2, <4>1, <4>4, MoveStacks
    <3> QED
      BY <3>1, <3>2
  <2> QED
    BY <1>5, <2>1, <2>2, MoveStacks
<1>6. CASE ~ (PopCas(t) \/ PushCas(t) \/ HeadCas(t) \/ GiveCas(t) \/ Freeze(t) \/ Move(t) \/ Unfreeze(t))
  <2>1. UNCHANGED <<head, toProcess, reclaim>>
    BY <1>6, TopsSame
  <2> QED
    BY <2>1, QuietStacks DEF Quiet
<1> QED
  BY <1>1, <1>2, <1>3, <1>4, <1>5, <1>6

\* A step keeps the stacks finite.
LEMMA StepEnds ==
    ASSUME NEW t \in Threads, Types, Types', Control, Versions, CacheInv, Step(t)
    PROVE  Ends'
<1> DEFINE All == Free \cup Pending \cup Pushed
<1>1. ASSUME NEW c \in All PROVE c \notin Reach(next', {next'[c]})
  <2>1. next'[c] = next[c] /\ c \in Caches
    BY StacksUntouched, ReferencedCaches
  <2>2. Chain(next[c]) \subseteq All
    <3>1. \/ next[c] \in Free \/ next[c] \in Pending \/ next[c] \in Pushed \/ next[c] \notin Caches
      BY <2>1, ReachClosed DEF Free, Pending, Pushed, Chain, Types
    <3>2. \A S \in {Free, Pending, Pushed} : next[c] \in S => Chain(next[c]) \subseteq S
      <4>1. next[c] \in Free => Chain(next[c]) \subseteq Free
        BY ReachIdempotent DEF Free, Chain
      <4>2. next[c] \in Pending => Chain(next[c]) \subseteq Pending
        BY ReachIdempotent DEF Pending, Chain
      <4>3. next[c] \in Pushed => Chain(next[c]) \subseteq Pushed
        BY ReachIdempotent DEF Pushed, Chain
      <4> QED
        BY <4>1, <4>2, <4>3
    <3>3. next[c] \notin Caches => Chain(next[c]) = {}
      <4>1. DOMAIN next = Caches
        BY DEF Types
      <4> QED
        BY <4>1, ReachNothing DEF Chain
    <3> QED
      BY <3>1, <3>2, <3>3
  <2>3. Reach(next', {next[c]}) = Chain(next[c])
    BY <2>2, StacksStable DEF Chain
  <2>4. c \notin Chain(next[c])
    BY DEF CacheInv, Ends
  <2> QED
    BY <2>1, <2>3, <2>4
<1>2. ASSUME NEW c \in Free' \cup Pending' \cup Pushed', c \notin All PROVE c \notin Reach(next', {next'[c]})
  <2>1. \/ c = Top(t).entry /\ head = next[c] /\ next' = next
        \/ c = freeCache[t] /\ Pushed = Chain(next[c]) /\ next' = next
    BY <1>2, StackSteps
  <2>2. c \notin Chain(next[c])
    BY <1>2, <2>1 DEF Free
  <2> QED
    BY <2>1, <2>2 DEF Chain
<1> QED
  BY <1>1, <1>2 DEF Ends, Chain

\* What a thread brings comes from what it brought, from the pending caches, or from malloc.
LEMMA BringingSteps ==
    ASSUME NEW t \in Threads, Types, Types', Control, Versions, CacheInv, Step(t)
    PROVE  Bringing(t)' \subseteq Bringing(t) \cup Pending \cup Fresh
<1>0. OneEach(t) /\ Apart(t)
  BY DEF CacheInv, Exclusive, OneEach
<1>p. Plain(t) => Bringing(t)' \subseteq Bringing(t)
  BY DEF Plain, Bringing
<1>1. CASE PopCas(t)
  <2>1. /\ freeCache' = freeCache /\ Entries(t)' = Entries(t)
        /\ \/ Popped(t)' = NULL
           \/ Popped(t)' \in Pending
    <3>1. freeCache' = freeCache /\ calls' = calls
      BY <1>1 DEF PopCas, caches
    <3>2. pc'[t] = "pop" \/ (pc'[t] = "repair" /\ reg[t].head \in Pending /\ reg'[t] = reg[t])
      BY <1>1, PopStacks
    <3> QED
      BY <3>1, <3>2 DEF Popped, Entries
  <2> QED
    BY <2>1 DEF Bringing
<1>2. CASE Repair(t)
  <2> DEFINE e == reg[t].head
             f == [NewCall EXCEPT !.entry = e, !.rest = ptrs[e]]
  <2>0. OneEach(t) /\ pc[t] = "repair" /\ pc'[t] = "scan" /\ freeCache' = freeCache
    BY <1>0, <1>2, CollectPlaces DEF Repair
  <2>1. e \in Caches /\ calls[t] # <<>>
    BY <2>0 DEF Control, RegistersOf, CallsOf, ListPC, PallocPC, FreePC
  <2>2. f \in Frames /\ f.entry = e
    <3>1. ptrs[e] \in Seq(Objects) /\ e \in Pointers
      BY <2>1, ConstantTypes DEF Types
    <3> QED
      BY <3>1, ConstantTypes DEF Frames, NewCall, ObjectOrNone
  <2>3. SetTop(t, f)
    BY <1>2 DEF Repair
  <2>4. Popped(t) = e /\ Popped(t)' = NULL /\ e # NULL
    BY <2>0, <2>1, ConstantTypes DEF Popped
  <2>5. e \notin Entries(t)
    BY <1>0, <2>4 DEF OneEach
  <2> HIDE DEF f
  <2>6. Entries(t)' \subseteq Entries(t) \cup {e}
    BY <1>0, <2>1, <2>2, <2>3, <2>5, EntriesNew
  <2> HIDE DEF e
  <2> QED
    BY <2>0, <2>4, <2>6 DEF Bringing
<1>3. CASE PFree(t) \/ PushCas(t)
  <2>0. pc[t] \in FreePC \cup {"retire"} /\ pc'[t] # "repair"
    BY <1>3, MutatorPlaces DEF PFree, PushCas, FreePC
  <2>1. UNCHANGED calls \/ FreeReturns(t)
    BY <1>3 DEF PFree, PushCas
  <2>2. Entries(t)' \subseteq Entries(t) \cup {NULL}
    BY <1>0, <2>0, <2>1, EntriesFreed DEF Entries
  <2>3. freeCache' = freeCache \/ freeCache'[t] \in Fresh
    BY <1>3 DEF PFree, PushCas, NewFreeCache, Types
  <2>4. Popped(t)' = NULL
    BY <2>0 DEF Popped
  <2> QED
    BY <2>2, <2>3, <2>4 DEF Bringing
<1>4. CASE HeadCas(t)
  <2>1. freeCache' = freeCache /\ calls' = calls /\ pc'[t] # "repair"
    BY <1>4, MutatorPlaces DEF HeadCas
  <2> QED
    BY <2>1 DEF Bringing, Popped, Entries
<1>5. CASE ~ (PopCas(t) \/ Repair(t) \/ PFree(t) \/ PushCas(t) \/ HeadCas(t))
  BY <1>0, <1>5, <1>p, PlainSteps
<1> QED
  BY <1>1, <1>2, <1>3, <1>4, <1>5

\* No cache comes to palloc's stack but those that were coming, and new ones.
LEMMA ComingSteps ==
    ASSUME NEW t \in Threads, Types, Types', Control, Versions, CacheInv, Step(t)
    PROVE  Coming' \subseteq Coming \cup Fresh
<1>1. ASSUME NEW u \in Threads PROVE Bringing(u)' \subseteq Coming \cup Fresh
  <2>1. CASE u = t
    BY <2>1, BringingSteps DEF Coming
  <2>2. CASE u # t
    <3>1. Bringing(u)' = Bringing(u)
      BY <2>2, OthersSame DEF Same, Bringing, Popped, Entries
    <3> QED
      BY <3>1 DEF Coming
  <2> QED
    BY <2>1, <2>2
<1>2. Pending' \subseteq Coming
  BY StackSteps DEF Coming
<1>3. Pushed' \subseteq Coming
  <2>1. freeCache[t] \in Caches => freeCache[t] \in Bringing(t)
    BY ConstantTypes DEF Bringing
  <2> QED
    BY <2>1, StackSteps DEF Coming
<1> QED
  BY <1>1, <1>2, <1>3 DEF Coming

\* What is in the stack of palloc is not on its way there.
LEMMA FreeNotComing ==
    ASSUME CacheInv
    PROVE  Free \cap Coming = {}
<1>1. \A u \in Threads : Bringing(u) \subseteq Mine(u)
  BY DEF Bringing, Mine
<1> QED
  BY <1>1 DEF CacheInv, Exclusive, Coming

\* What other threads have read about the stacks stays true.
LEMMA OtherRemembers ==
    ASSUME NEW t \in Threads, Types, Types', Control, Versions, CacheInv, Step(t), NEW u \in Threads, u # t
    PROVE  Remembered(u)'
<1>0. /\ pc'[u] = pc[u] /\ reg'[u] = reg[u] /\ nxt'[u] = nxt[u] /\ localVer'[u] = localVer[u] /\ Remembered(u)
      /\ localVer[u] <= toProcess.ver /\ localVer[u] \in Nat /\ toProcess.ver \in Nat
  BY OthersSame, VersionNumbers DEF Same, CacheInv, Versions, Changing
<1>1. ASSUME pc[u] = "popCas", toProcess'.ver = localVer[u], reg[u].head \in Pending'
      PROVE  nxt[u] = next'[reg[u].head]
  <2>1. Pending' \subseteq Pending /\ toProcess'.ver = toProcess.ver
    BY <1>0, <1>1, StackSteps
  <2>2. next'[reg[u].head] = next[reg[u].head]
    BY <1>1, <2>1, StacksUntouched
  <2> QED
    BY <1>0, <1>1, <2>1, <2>2 DEF Remembered
<1>2. ASSUME pc[u] = "repair" PROVE nxt[u] = next'[reg[u].head]
  <2>1. reg[u].head \in Mine(u)
    <3>1. reg[u].head \in Caches
      BY <1>2 DEF Control, RegistersOf
    <3> QED
      BY <1>2, <3>1, ConstantTypes DEF Mine, Popped
  <2>2. next'[reg[u].head] = next[reg[u].head]
    BY <2>1, StacksUntouched
  <2> QED
    BY <1>0, <1>2, <2>2 DEF Remembered
<1>3. ASSUME pc[u] \in {"followHead", "headCas"} PROVE reg[u].head \notin Coming'
  BY <1>0, <1>3, ComingSteps, FreshNowhere DEF Remembered
<1>4. ASSUME pc[u] = "headCas", reg[u].head \in Free' PROVE nxt[u] = next'[reg[u].head]
  <2>1. reg[u].head \notin Coming
    BY <1>0, <1>4 DEF Remembered
  <2>2. reg[u].head \in Caches
    BY <1>4 DEF Control, RegistersOf
  <2>3. reg[u].head \in Free
    <3>1. Top(t).entry \in Entries(t) /\ Top(t).entry = reg[u].head => reg[u].head \in Coming
      BY <2>2, ConstantTypes DEF Coming, Bringing
    <3> QED
      BY <1>4, <2>1, <3>1, StackSteps
  <2>4. next'[reg[u].head] = next[reg[u].head]
    BY <2>3, StacksUntouched
  <2> QED
    BY <1>0, <1>4, <2>3, <2>4 DEF Remembered
<1> QED
  BY <1>0, <1>1, <1>2, <1>3, <1>4 DEF Remembered

\* What a thread reads about the stacks is true.
LEMMA OwnRemembers ==
    ASSUME NEW t \in Threads, Types, Types', Control, Versions, CacheInv, Step(t)
    PROVE  Remembered(t)'
<1> USE DEF shared, caches, regs, Goto
<1>1. CASE Follow(t)
  <2>1. nxt'[t] = next[reg[t].head] /\ reg' = reg /\ next' = next
    BY <1>1 DEF Follow, Types
  <2>2. \/ pc[t] = "follow" /\ pc'[t] = "popCas"
        \/ pc[t] = "followHead" /\ pc'[t] = "headCas"
    BY <1>1, CollectPlaces
  <2>3. pc[t] = "followHead" => reg[t].head \notin Coming'
    BY ComingSteps, FreshNowhere DEF CacheInv, Remembered
  <2> QED
    BY <2>1, <2>2, <2>3 DEF Remembered
<1>2. CASE PopCas(t)
  <2>1. pc'[t] = "pop" \/ (pc'[t] = "repair" /\ reg'[t] = reg[t] /\ nxt'[t] = nxt[t] /\ nxt[t] = next[reg[t].head])
    BY <1>2, PopStacks
  <2>2. next' = next
    BY <1>2 DEF PopCas
  <2> QED
    BY <2>1, <2>2 DEF Remembered
<1>3. CASE PopHead(t)
  <2>1. pc'[t] \in {"freeze", "followHead"}
    BY <1>3, MutatorPlaces
  <2>2. pc'[t] = "followHead" => reg'[t].head = head /\ head # NULL
    BY <1>3 DEF PopHead, Trigger, Types, Versioned
  <2>3. head # NULL => head \notin Coming'
    <3> SUFFICES ASSUME head # NULL PROVE head \notin Coming'
      OBVIOUS
    <3>1. head \in Caches
      BY ConstantTypes DEF Types
    <3>2. head \in Chain(head)
      BY <3>1, StackTop
    <3>3. head \in Free
      BY <3>2 DEF Free
    <3> QED
      BY <3>3, ComingSteps, FreeNotComing, FreshNowhere
  <2> QED
    BY <2>1, <2>2, <2>3 DEF Remembered
<1>4. CASE ~ (Follow(t) \/ PopCas(t) \/ PopHead(t))
  <2>1. pc'[t] \notin {"popCas", "repair", "followHead", "headCas"}
    BY <1>4, CollectPlaces, MutatorPlaces DEF Step
  <2> QED
    BY <2>1 DEF Remembered
<1> QED
  BY <1>1, <1>2, <1>3, <1>4

\* Any step keeps what is known of the caches.
LEMMA StepCaches ==
    ASSUME NEW t \in Threads, Types, Types', Control, Versions, CacheInv, Step(t)
    PROVE  CacheInv'
<1>1. ASSUME NEW u \in Threads PROVE Remembered(u)'
  BY OtherRemembers, OwnRemembers
<1> QED
  BY <1>1, StepExclusive, StepEnds DEF CacheInv

-----------------------------------------------------------------------------
(* Control.                                                                *)

\* The caches that control speaks about belong to the thread.
LEMMA OwnCachesMine ==
    ASSUME NEW u \in Threads, Types, CallsOf(u)
    PROVE  /\ allocCache[u] \in Caches => allocCache[u] \in Mine(u)
           /\ freeCache[u] \in Caches => freeCache[u] \in Mine(u)
           /\ \A k \in DOMAIN calls[u] : calls[u][k].entry \in Caches => calls[u][k].entry \in Mine(u)
           /\ pc[u] \in ScanPC => calls[u] # <<>> /\ Scanning(Top(u)) /\ Top(u).entry \in Mine(u)
<1>1. \A c \in Caches : c # NULL
  BY ConstantTypes
<1>2. ASSUME pc[u] \in ScanPC PROVE calls[u] # <<>> /\ Scanning(Top(u)) /\ Top(u).entry \in Mine(u)
  <2>1. calls[u] # <<>>
    BY <1>2 DEF CallsOf, ScanPC, ListPC, PallocPC, FreePC
  <2>2. Scanning(Top(u))
    BY <1>2, <2>1, TopFrame DEF CallsOf, ScanPC, FreePC
  <2>3. Top(u).entry \in Entries(u)
    BY <2>1, TopFrame DEF Entries
  <2> QED
    BY <1>1, <2>1, <2>2, <2>3 DEF Scanning, Mine
<1> QED
  BY <1>1, <1>2 DEF Mine, Entries

\* Control of the other threads.
LEMMA OtherControl ==
    ASSUME NEW t \in Threads, Types, Types', Control, Versions, CacheInv, Step(t), NEW u \in Threads, u # t
    PROVE  CallsOf(u)' /\ OperationOf(u)' /\ RegistersOf(u)'
<1>0. Same(u) /\ CallsOf(u) /\ OperationOf(u) /\ RegistersOf(u)
  BY OthersSame DEF Control
<1>1. \A c \in Mine(u) : next'[c] = next[c] /\ ptrs'[c] = ptrs[c]
  BY StacksUntouched
<1>2. CallsOf(u)'
  <2>1. Top(u)' = Top(u)
    BY <1>0 DEF Same, Top
  <2>2. pc[u] = "giveCas" => ptrs'[Top(u).entry] = ptrs[Top(u).entry]
    BY <1>0, <1>1, OwnCachesMine DEF ScanPC
  <2> QED
    BY <1>0, <2>1, <2>2 DEF Same, CallsOf
<1>3. OperationOf(u)'
  <2>1. allocCache[u] \in Caches => ptrs'[allocCache[u]] = ptrs[allocCache[u]]
    BY <1>0, <1>1, OwnCachesMine
  <2>2. allocCache[u] = NULL \/ allocCache[u] \in Caches
    BY ConstantTypes DEF Types
  <2> QED
    BY <1>0, <2>1, <2>2 DEF Same, OperationOf
<1>4. RegistersOf(u)'
  <2>1. freeCache[u] \in Caches => next'[freeCache[u]] = next[freeCache[u]]
    BY <1>0, <1>1, OwnCachesMine
  <2> QED
    BY <1>0, <2>1 DEF Same, RegistersOf
<1> QED
  BY <1>2, <1>3, <1>4

\* The calls when they stay as they are, or the topmost one is replaced.
LEMMA CallsKept ==
    ASSUME NEW t \in Threads, Types, CallsOf(t), calls'[t] = calls[t], pc[t] \in RetirePC,
           \/ pc[t] \in ListPC \cup PallocPC /\ pc'[t] \in ListPC \cup PallocPC
           \/ pc[t] \in {"retire"} \cup FreePC /\ pc'[t] \in FreePC
           \/ /\ pc[t] \in RetirePC \ (ListPC \cup PallocPC \cup FreePC \cup ScanPC)
              /\ pc'[t] \in RetirePC \ (ListPC \cup PallocPC \cup FreePC \cup ScanPC)
           \/ pc[t] \in ScanPC /\ pc'[t] = "scan"
    PROVE  CallsOf(t)'
<1>1. calls[t] \in Seq(Frames)
  BY DEF Types
<1>2. CASE pc[t] \in ListPC \cup PallocPC /\ pc'[t] \in ListPC \cup PallocPC
  BY <1>1, <1>2 DEF CallsOf, ListPC, PallocPC, FreePC
<1>3. CASE pc[t] \in {"retire"} \cup FreePC /\ pc'[t] \in FreePC
  <2>1. \A k \in DOMAIN calls[t] : Waiting(calls[t][k])
    BY <1>1, <1>3 DEF CallsOf, ListPC
  <2> QED
    BY <1>3, <2>1 DEF CallsOf, ListPC, PallocPC, FreePC, Waiting
<1>4. CASE /\ pc[t] \in RetirePC \ (ListPC \cup PallocPC \cup FreePC \cup ScanPC)
           /\ pc'[t] \in RetirePC \ (ListPC \cup PallocPC \cup FreePC \cup ScanPC)
  <2>1. pc'[t] # "giveCas"
    BY <1>4 DEF ScanPC
  <2> QED
    BY <1>4, <2>1 DEF CallsOf
<1>5. CASE pc[t] \in ScanPC /\ pc'[t] = "scan"
  BY <1>5 DEF CallsOf, ScanPC, ListPC, PallocPC, FreePC
<1> QED
  BY <1>2, <1>3, <1>4, <1>5

\* A step that replaces the topmost call.
LEMMA CallsTop ==
    ASSUME NEW t \in Threads, Types, CallsOf(t), calls[t] # <<>>, NEW f \in Frames, SetTop(t, f),
           \/ pc'[t] = "pfree" /\ Waiting(f)
           \/ pc'[t] = "scan" /\ Scanning(f)
           \/ pc'[t] = "pop" /\ f = NewCall
    PROVE  CallsOf(t)'
<1> DEFINE n == Len(calls[t])
<1>1. /\ calls'[t] # <<>> /\ Len(calls'[t]) = n /\ DOMAIN calls'[t] = 1 .. n /\ DOMAIN calls[t] = 1 .. n
      /\ calls'[t][n] = f /\ n \in Nat
      /\ \A k \in 1 .. n : k # n => calls'[t][k] = calls[t][k]
  BY TopSet
<1>2. \A k \in 1 .. n : k # n => k < n /\ Waiting(calls[t][k])
  BY <1>1 DEF CallsOf
<1>3. \A k \in 1 .. n : k # n => k < n /\ Waiting(calls'[t][k])
  BY <1>1, <1>2
<1>4. ~ (n < n)
  BY <1>1
<1> HIDE DEF n
<1> QED
  BY <1>1, <1>3, <1>4 DEF CallsOf, ListPC, PallocPC, FreePC, ScanPC, Waiting, Scanning

\* A step that begins a collection.
LEMMA CallsBegin ==
    ASSUME NEW t \in Threads, Types, CallsOf(t), Trigger(t), pc[t] \in FreePC \cup PallocPC
    PROVE  CallsOf(t)'
<1> DEFINE n == Len(calls[t])
<1>1. /\ calls'[t] # <<>> /\ Len(calls'[t]) = n + 1 /\ DOMAIN calls'[t] = 1 .. n + 1 /\ DOMAIN calls[t] = 1 .. n
      /\ calls'[t][n + 1] = NewCall /\ n \in Nat
      /\ \A k \in 1 .. n : calls'[t][k] = calls[t][k]
  BY CallBegun
<1>2. \A k \in 1 .. n : Waiting(calls[t][k])
  <2>1. pc[t] \in PallocPC => n = 0
    BY DEF CallsOf
  <2> QED
    BY <1>1, <2>1 DEF CallsOf
<1>3. pc'[t] = "freeze"
  BY DEF Trigger, Goto, Types
<1>4. \A k \in 1 .. n + 1 : IF k < n + 1 THEN k \in 1 .. n ELSE k = n + 1
  BY <1>1
<1> HIDE DEF n
<1> QED
  BY <1>1, <1>2, <1>3, <1>4 DEF CallsOf, ListPC, PallocPC, FreePC, ScanPC, Waiting

\* A step that ends one.
LEMMA CallsEnd ==
    ASSUME NEW t \in Threads, Types, CallsOf(t), Return(t), calls[t] # <<>>
    PROVE  CallsOf(t)' /\ (calls'[t] = <<>> <=> Len(calls[t]) = 1)
<1> DEFINE n == Len(calls[t])
<1>1. /\ Len(calls'[t]) = n - 1 /\ DOMAIN calls'[t] = 1 .. n - 1 /\ DOMAIN calls[t] = 1 .. n
      /\ calls'[t] = <<>> <=> n = 1
      /\ n \in Nat \ {0}
      /\ \A k \in 1 .. n - 1 : calls'[t][k] = calls[t][k]
  BY CallReturned
<1>2. \A k \in 1 .. n - 1 : k < n /\ k \in 1 .. n
  BY <1>1
<1>3. \A k \in 1 .. n - 1 : Waiting(calls'[t][k])
  BY <1>1, <1>2 DEF CallsOf
<1>4. pc'[t] = IF n = 1 /\ op[t] = "insert" THEN "popHead" ELSE "pfree"
  BY DEF Return, Goto, Types
<1> HIDE DEF n
<1> QED
  BY <1>1, <1>3, <1>4 DEF CallsOf, ListPC, PallocPC, FreePC, ScanPC, Waiting, n

\* A step with which pfree returns.
LEMMA CallsFreed ==
    ASSUME NEW t \in Threads, Types, Control, pc[t] \in FreePC \cup {"retire"}, FreeReturns(t)
    PROVE  CallsOf(t)'
<1>0. CallsOf(t)
  BY DEF Control
<1>1. CASE calls[t] = <<>>
  <2>1. calls' = calls /\ pc'[t] = "walk"
    BY <1>1, FreeReturned DEF Types
  <2> QED
    BY <1>1, <2>1 DEF CallsOf, ListPC, PallocPC, FreePC
<1>2. CASE calls[t] # <<>>
  <2> DEFINE f == [Top(t) EXCEPT !.obj = NoObject]
  <2>1. f \in Frames /\ SetTop(t, f) /\ pc'[t] = "scan"
    BY <1>2, FreeReturned DEF Types
  <2>2. Waiting(Top(t))
    BY <1>0, <1>2, TopFrame DEF CallsOf, ListPC
  <2>3. Scanning(f)
    BY <1>2, <2>2, TopFrame DEF Frames, Waiting, Scanning
  <2> HIDE DEF f
  <2> QED
    BY <1>0, <1>2, <2>1, <2>3, CallsTop
<1> QED
  BY <1>1, <1>2

\* The calls of the thread after its step.
LEMMA OwnCalls ==
    ASSUME NEW t \in Threads, Types, Types', Control, Step(t)
    PROVE  CallsOf(t)'
<1> USE DEF shared, caches, regs, records, operation
<1>0. CallsOf(t) /\ pc[t] \in RetirePC /\ pc'[t] \in RetirePC
  BY DEF Control, Types
<1>a. pc[t] \in ScanPC \cup {"pop", "repair"} => calls[t] # <<>> /\ Top(t) \in Frames
  BY <1>0, TopFrame DEF CallsOf, ListPC, PallocPC, FreePC, ScanPC
<1>1. CASE Freeze(t) \/ LoadHead(t) \/ Move(t) \/ Unfreeze(t) \/ Look(t) \/ Stamp(t) \/ Save(t) \/ PopCas(t)
  <2>1. calls' = calls
    BY <1>1 DEF Freeze, LoadHead, Move, Unfreeze, Look, Stamp, Save, PopCas
  <2> DEFINE Q == ChangePC \cup StampPC \cup {"save"} \cup PopPC
  <2>2. pc[t] \in Q /\ pc'[t] \in Q
    BY <1>1, CollectPlaces DEF ChangePC, StampPC, PopPC
  <2>3. Q \subseteq RetirePC \ (ListPC \cup PallocPC \cup FreePC \cup ScanPC)
    BY DEF RetirePC, ListPC, PallocPC, FreePC, ScanPC, ChangePC, StampPC, PopPC
  <2> HIDE DEF Q
  <2> QED
    BY <1>0, <2>1, <2>2, <2>3, CallsKept
<1>2. CASE Follow(t)
  <2>1. calls' = calls
    BY <1>2 DEF Follow
  <2>2. \/ pc[t] = "follow" /\ pc'[t] = "popCas"
        \/ pc[t] = "followHead" /\ pc'[t] = "headCas"
    BY <1>2, CollectPlaces
  <2> QED
    BY <1>0, <2>1, <2>2, CallsKept DEF ListPC, PallocPC, FreePC, ScanPC
<1>3. CASE Pop(t)
  <2>1. pc[t] = "pop" /\ calls[t] # <<>>
    BY <1>3, <1>a, CollectPlaces
  <2>2. Return(t) \/ (calls' = calls /\ pc'[t] = "follow")
    BY <1>3 DEF Pop, Goto, Types
  <2> QED
    BY <1>0, <2>1, <2>2, CallsKept, CallsEnd DEF ListPC, PallocPC, FreePC, ScanPC
<1>4. CASE Repair(t)
  <2> DEFINE e == reg[t].head
             f == [NewCall EXCEPT !.entry = e, !.rest = ptrs[e]]
  <2>0. pc[t] = "repair" /\ pc'[t] = "scan" /\ calls[t] # <<>>
    BY <1>4, <1>a, CollectPlaces
  <2>1. e \in Caches
    BY <2>0 DEF Control, RegistersOf
  <2>2. f \in Frames /\ f.entry = e /\ f.obj = NoObject
    <3>1. ptrs[e] \in Seq(Objects) /\ e \in Pointers
      BY <2>1, ConstantTypes DEF Types
    <3> QED
      BY <3>1, ConstantTypes DEF Frames, NewCall, ObjectOrNone
  <2>3. SetTop(t, f)
    BY <1>4 DEF Repair
  <2> HIDE DEF f
  <2> QED
    BY <1>0, <2>0, <2>1, <2>2, <2>3, CallsTop DEF Scanning
<1>5. CASE Scan(t)
  <2> DEFINE o == Head(Top(t).rest)
             f == [Top(t) EXCEPT !.rest = Tail(@)]
  <2>0. pc[t] = "scan" /\ calls[t] # <<>> /\ Top(t) \in Frames /\ Top(t).rest # <<>>
    BY <1>5, <1>a DEF Scan, ScanPC
  <2>1. Scanning(Top(t))
    BY <1>0, <2>0, OwnCachesMine DEF ScanPC
  <2>2. o \in Objects /\ Tail(Top(t).rest) \in Seq(Objects)
    BY <2>0, HeadTailProperties DEF Frames
  <2>3. f \in Frames /\ f.kept \in Seq(Objects) /\ f.entry = Top(t).entry /\ f.obj = NoObject
    BY <2>0, <2>1, <2>2 DEF Frames, Scanning
  <2>4. Append(f.kept, o) \in Seq(Objects) /\ o \in ObjectOrNone
    BY <2>2, <2>3, AppendProperties DEF ObjectOrNone
  <2>5. \/ SetTop(t, [f EXCEPT !.obj = o]) /\ pc'[t] = "pfree"
        \/ SetTop(t, [f EXCEPT !.kept = Append(@, o)]) /\ pc'[t] = "scan"
    BY <1>5, <2>0 DEF Scan, Goto, Types
  <2> HIDE DEF f, o
  <2>6. /\ [f EXCEPT !.obj = o] \in Frames /\ Waiting([f EXCEPT !.obj = o])
        /\ [f EXCEPT !.kept = Append(@, o)] \in Frames /\ Scanning([f EXCEPT !.kept = Append(@, o)])
    BY <2>1, <2>2, <2>3, <2>4 DEF Frames, Waiting, Scanning
  <2> QED
    BY <1>0, <2>0, <2>5, <2>6, CallsTop
<1>6. CASE EndScan(t)
  <2>0. pc[t] = "scan" /\ calls[t] # <<>> /\ Top(t) \in Frames /\ Top(t).rest = <<>>
    BY <1>6, <1>a DEF EndScan, ScanPC
  <2>1. CASE Top(t).kept = <<>>
    <3>1. SetTop(t, NewCall) /\ pc'[t] = "pop"
      BY <1>6, <2>1 DEF EndScan, Goto, Types
    <3> QED
      BY <1>0, <2>0, <3>1, CallsTop, ConstantTypes
  <2>2. CASE Top(t).kept # <<>>
    <3>1. calls' = calls /\ pc'[t] = "giveCas" /\ ptrs' = [ptrs EXCEPT ![Top(t).entry] = Top(t).kept]
      BY <1>6, <2>2 DEF EndScan, Goto, Types
    <3>2. Top(t)' = Top(t)
      BY <3>1 DEF Top
    <3>3. Top(t).entry \in Caches
      BY <1>0, <2>0, OwnCachesMine DEF Scanning, ScanPC
    <3>4. ptrs'[Top(t).entry] = Top(t).kept
      BY <3>1, <3>3 DEF Types
    <3> QED
      BY <1>0, <2>0, <2>2, <3>1, <3>2, <3>4 DEF CallsOf, ListPC, PallocPC, FreePC, ScanPC
  <2> QED
    BY <2>1, <2>2
<1>7. CASE GiveCas(t)
  <2>0. pc[t] = "giveCas" /\ calls[t] # <<>>
    BY <1>7, <1>a DEF GiveCas, ScanPC
  <2>1. \/ SetTop(t, NewCall) /\ pc'[t] = "pop"
        \/ calls' = calls /\ pc'[t] = "scan"
    BY <1>7 DEF GiveCas, Goto, Types
  <2> QED
    BY <1>0, <2>0, <2>1, CallsTop, CallsKept, ConstantTypes DEF ScanPC
<1>8. CASE PFree(t) \/ PushCas(t)
  <2>0. pc[t] \in FreePC \cup {"retire"}
    BY <1>8, MutatorPlaces DEF FreePC
  <2>1. FreeReturns(t) \/ (calls' = calls /\ pc'[t] = "pushLink")
    BY <1>8 DEF PFree, PushCas, Goto, Types
  <2> QED
    BY <1>0, <2>0, <2>1, CallsFreed, CallsKept DEF FreePC
<1>9. CASE PushLink(t) \/ PopHead(t)
  <2>0. pc[t] \in {"pushLink", "popHead"}
    BY <1>9, MutatorPlaces
  <2>1. \/ Trigger(t)
        \/ calls' = calls /\ pc[t] = "pushLink" /\ pc'[t] = "pushCas"
        \/ calls' = calls /\ pc[t] = "popHead" /\ pc'[t] = "followHead"
    BY <1>9 DEF PushLink, PopHead, Goto, Types
  <2> QED
    BY <1>0, <2>0, <2>1, CallsBegin, CallsKept DEF FreePC, PallocPC
<1>10. CASE \/ HeadCas(t) \/ UnlinkCache(t) \/ Clear(t) \/ Search(t) \/ WalkToUnlink(t) \/ WalkToInsert(t)
            \/ Publish(t) \/ Fence(t) \/ Restart(t) \/ Cas(t) \/ Finish(t)
  <2>1. calls' = calls
    BY <1>10 DEF HeadCas, UnlinkCache, Clear, Search, vars, WalkToUnlink, WalkToInsert, Publish, Fence, Restart,
      Cas, Finish
  <2>2. pc[t] \in ListPC \cup PallocPC /\ pc'[t] \in ListPC \cup PallocPC
    BY <1>10, MutatorPlaces DEF ListPC, PallocPC
  <2> QED
    BY <1>0, <2>1, <2>2, CallsKept
<1> QED
  BY <1>1, <1>2, <1>3, <1>4, <1>5, <1>6, <1>7, <1>8, <1>9, <1>10 DEF Step

\* The registers of the thread after its step.
LEMMA OwnRegisters ==
    ASSUME NEW t \in Threads, Types, Types', Control, CacheInv, Step(t)
    PROVE  RegistersOf(t)'
<1> USE DEF shared, caches, regs, Goto
<1>0. RegistersOf(t)
  BY DEF Control
<1>1. CASE Pop(t)
  <2>1. pc'[t] \in {"popHead", "pfree"} \/ (pc'[t] = "follow" /\ reg'[t] = toProcess /\ toProcess.ver = localVer[t]
          /\ toProcess.head # NULL /\ localVer' = localVer)
    BY <1>1 DEF Pop, Return, Types
  <2>2. toProcess.head # NULL => toProcess.head \in Caches
    BY ConstantTypes DEF Types, Versioned
  <2> QED
    BY <2>1, <2>2 DEF RegistersOf
<1>2. CASE Follow(t)
  <2>1. UNCHANGED <<reg, localVer>>
    BY <1>2 DEF Follow
  <2>2. \/ pc[t] = "follow" /\ pc'[t] = "popCas"
        \/ pc[t] = "followHead" /\ pc'[t] = "headCas"
    BY <1>2, CollectPlaces
  <2> QED
    BY <1>0, <2>1, <2>2 DEF RegistersOf
<1>3. CASE PopCas(t)
  <2>1. localVer' = localVer /\ pc[t] = "popCas"
    BY <1>3 DEF PopCas
  <2>2. pc'[t] = "pop" \/ (pc'[t] = "repair" /\ reg'[t] = reg[t])
    BY <1>3, PopStacks
  <2> QED
    BY <1>0, <2>1, <2>2 DEF RegistersOf
<1>4. CASE PFree(t)
  <2>1. pc'[t] \in {"walk", "scan"} \/ (pc'[t] = "pushLink" /\ freeCache'[t] = freeCache[t] /\ freeCache[t] # NULL)
    BY <1>4 DEF PFree, FreeReturns, Types
  <2>2. freeCache[t] # NULL => freeCache[t] \in Caches
    BY ConstantTypes DEF Types
  <2> QED
    BY <2>1, <2>2 DEF RegistersOf
<1>5. CASE PushLink(t)
  <2>0. pc[t] = "pushLink" /\ freeCache[t] \in Caches
    BY <1>0, <1>5, MutatorPlaces DEF RegistersOf
  <2>1. \/ pc'[t] = "freeze"
        \/ pc'[t] = "pushCas" /\ reg'[t] = reclaim /\ reclaim.ver = localVer[t]
           /\ next' = [next EXCEPT ![freeCache[t]] = reclaim.head]
    BY <1>5 DEF PushLink, Trigger, Types
  <2>2. UNCHANGED <<freeCache, localVer>>
    BY <1>5 DEF PushLink
  <2>3. pc'[t] = "pushCas" => next'[freeCache[t]] = reclaim.head
    BY <2>0, <2>1 DEF Types
  <2> QED
    BY <2>0, <2>1, <2>2, <2>3 DEF RegistersOf
<1>6. CASE PushCas(t)
  <2>0. pc[t] = "pushCas" /\ freeCache[t] \in Caches
    BY <1>0, <1>6, MutatorPlaces DEF RegistersOf
  <2>1. pc'[t] \in {"walk", "scan"} \/ (pc'[t] = "pushLink" /\ freeCache'[t] = freeCache[t])
    BY <1>6 DEF PushCas, FreeReturns, Types
  <2> QED
    BY <2>0, <2>1 DEF RegistersOf
<1>7. CASE PopHead(t)
  <2>1. pc'[t] = "freeze" \/ (pc'[t] = "followHead" /\ reg'[t].head = head /\ head # NULL)
    BY <1>7 DEF PopHead, Trigger, Types, Versioned
  <2>2. head # NULL => head \in Caches
    BY ConstantTypes DEF Types
  <2> QED
    BY <2>1, <2>2 DEF RegistersOf
<1>8. CASE ~ (Pop(t) \/ Follow(t) \/ PopCas(t) \/ PFree(t) \/ PushLink(t) \/ PushCas(t) \/ PopHead(t))
  <2>1. pc'[t] \notin {"follow", "popCas", "repair", "followHead", "headCas", "pushLink", "pushCas"}
    BY <1>8, CollectPlaces, MutatorPlaces DEF Step
  <2> QED
    BY <2>1 DEF RegistersOf
<1> QED
  BY <1>1, <1>2, <1>3, <1>4, <1>5, <1>6, <1>7, <1>8

\* The steps of pfree and of a collection do not touch the cache of palloc.
LEMMA OwnAlloc ==
    ASSUME NEW t \in Threads, Types, Types', Control, CacheInv, Step(t),
           ~ (HeadCas(t) \/ UnlinkCache(t) \/ WalkToInsert(t) \/ Finish(t)), allocCache[t] \in Caches
    PROVE  ptrs'[allocCache[t]] = ptrs[allocCache[t]]
<1> USE DEF caches
<1> DEFINE c == allocCache[t]
<1>0. /\ ptrs \in [Caches -> Seq(Objects)] /\ OneEach(t) /\ CallsOf(t) /\ c # NULL /\ c \in Mine(t)
  BY ConstantTypes, OwnCachesMine DEF Types, CacheInv, Exclusive, Control
<1>1. c # freeCache[t] /\ c \notin Entries(t)
  BY <1>0 DEF OneEach
<1>2. c \notin Fresh
  BY <1>0, FreshNowhere
<1>3. EndScan(t) => ptrs'[c] = ptrs[c]
  <2> SUFFICES ASSUME EndScan(t) PROVE ptrs'[c] = ptrs[c]
    OBVIOUS
  <2>1. pc[t] = "scan"
    BY DEF EndScan
  <2>2. Top(t).entry \in Entries(t)
    BY <1>0, <2>1, OwnCachesMine, TopFrame DEF Entries, ScanPC
  <2>3. ptrs' = [ptrs EXCEPT ![Top(t).entry] = Top(t).kept]
    BY DEF EndScan
  <2> QED
    BY <1>0, <1>1, <2>2, <2>3
<1>4. PFree(t) \/ PushCas(t) => ptrs'[c] = ptrs[c]
  BY <1>0, <1>1, <1>2 DEF PFree, PushCas, NewFreeCache
<1>5. Freeze(t) \/ LoadHead(t) \/ Move(t) \/ Unfreeze(t) \/ Look(t) \/ Stamp(t) \/ Save(t) \/ Pop(t) \/ Follow(t)
      => ptrs' = ptrs
  BY DEF Freeze, LoadHead, Move, Unfreeze, Look, Stamp, Save, Pop, Follow
<1>6. PopCas(t) \/ Repair(t) \/ Scan(t) \/ GiveCas(t) \/ PushLink(t) \/ PopHead(t) \/ Clear(t) \/ Search(t)
      => ptrs' = ptrs
  BY DEF PopCas, Repair, Scan, GiveCas, PushLink, PopHead, Clear, Search, vars
<1>7. WalkToUnlink(t) \/ Publish(t) \/ Fence(t) \/ Restart(t) \/ Cas(t) => ptrs' = ptrs
  BY DEF WalkToUnlink, Publish, Fence, Restart, Cas
<1> QED
  BY <1>3, <1>4, <1>5, <1>6, <1>7 DEF Step

\* The operation of a thread in pfree and in a collection.
DeepPC == RetirePC \ (ListPC \cup PallocPC)

\* In pfree and in a collection a thread is about an insert without an object, or an unlinked object.
LEMMA DeepOperation ==
    ASSUME NEW t \in Threads, Types, Control, pc[t] \in DeepPC \cup {"retire", "popHead"}
    PROVE  /\ op[t] = "insert" =>
                own[t] = NoObject /\ (allocCache[t] = NULL \/ ptrs[allocCache[t]] = <<>>)
           /\ op[t] = "unlink" => ref[t] = NoObject /\ own[t] \in Objects
           /\ op[t] \in {"insert", "unlink"}
           /\ pc[t] \in FreePC \cup {"retire"} /\ calls[t] = <<>> => op[t] = "unlink"
<1>1. CallsOf(t) /\ OperationOf(t) /\ op[t] \in {"none", "insert", "unlink"}
  BY DEF Control, Types
<1>2. pc[t] \in DeepPC => pc[t] \in FreePC \/ calls[t] # <<>>
  BY <1>1 DEF CallsOf, DeepPC
<1>3. pc[t] \notin {"walk", "publish", "fence", "restart", "cas", "finish"}
  BY DEF DeepPC, ListPC
<1>4. op[t] # "none"
  BY <1>1, <1>3 DEF OperationOf
<1>5. op[t] = "unlink" => ref[t] = NoObject /\ own[t] \in Objects
  BY <1>1, <1>3 DEF OperationOf
<1>6. pc[t] \in FreePC \cup {"retire"} /\ calls[t] = <<>> => op[t] = "unlink"
  BY <1>1 DEF OperationOf
<1>7. op[t] = "insert" => pc[t] = "popHead" \/ calls[t] # <<>>
  BY <1>1, <1>2, <1>6
<1>8. op[t] = "insert" => own[t] = NoObject /\ (allocCache[t] = NULL \/ ptrs[allocCache[t]] = <<>>)
  BY <1>1, <1>7 DEF OperationOf, PallocPC
<1> QED
  BY <1>1, <1>4, <1>5, <1>6, <1>8

\* A step within pfree and collections leaves the operation as it is.
LEMMA StaysDeep ==
    ASSUME NEW t \in Threads, Types, Control, pc[t] \in DeepPC \cup {"retire", "popHead"},
           op'[t] = op[t], ref'[t] = ref[t], own'[t] = own[t], allocCache'[t] = allocCache[t],
           allocCache[t] \in Caches => ptrs'[allocCache[t]] = ptrs[allocCache[t]],
           \/ pc'[t] \in DeepPC
           \/ pc'[t] \in {"popHead", "followHead"} /\ op[t] = "insert",
           pc'[t] \in FreePC /\ calls'[t] = <<>> => op[t] = "unlink"
    PROVE  OperationOf(t)'
<1>1. /\ op[t] = "insert" => own[t] = NoObject /\ (allocCache[t] = NULL \/ ptrs'[allocCache[t]] = <<>>)
      /\ op[t] = "unlink" => ref[t] = NoObject /\ own[t] \in Objects
      /\ op[t] \in {"insert", "unlink"}
  <2>1. allocCache[t] = NULL \/ allocCache[t] \in Caches
    BY ConstantTypes DEF Types
  <2> QED
    BY <2>1, DeepOperation
<1>2. /\ pc'[t] \notin ListPC /\ pc'[t] # "unlinkCache"
      /\ pc'[t] \in PallocPC => op[t] = "insert"
  BY DEF DeepPC, ListPC, PallocPC
<1>3. NoObject \notin Objects
  BY ConstantTypes
<1> QED
  BY <1>1, <1>2, <1>3 DEF OperationOf, ListPC

\* The operation of the thread after its step of a collection or of pfree.
LEMMA DeepSteps ==
    ASSUME NEW t \in Threads, Types, Types', Control, CacheInv, Step(t),
           \/ Freeze(t) \/ LoadHead(t) \/ Move(t) \/ Unfreeze(t) \/ Look(t) \/ Stamp(t) \/ Save(t)
           \/ Pop(t) \/ (Follow(t) /\ pc[t] = "follow") \/ PopCas(t) \/ Repair(t) \/ Scan(t) \/ EndScan(t) \/ GiveCas(t)
           \/ PFree(t) \/ PushLink(t) \/ PushCas(t) \/ PopHead(t)
    PROVE  OperationOf(t)'
<1> USE DEF shared, caches, regs, operation, Goto
<1>a. /\ ~ (HeadCas(t) \/ UnlinkCache(t) \/ WalkToInsert(t) \/ Finish(t))
      /\ pc[t] \in DeepPC \cup {"retire", "popHead"}
  <2>1. pc[t] \in DeepPC \cup {"retire", "popHead"}
    BY CollectPlaces, MutatorPlaces DEF DeepPC, RetirePC, ListPC, PallocPC, FreePC, ChangePC, StampPC, PopPC, ScanPC
  <2>2. HeadCas(t) \/ UnlinkCache(t) \/ WalkToInsert(t) \/ Finish(t) => pc[t] \in {"headCas", "unlinkCache", "walk", "finish"}
    BY MutatorPlaces
  <2> QED
    BY <2>1, <2>2 DEF DeepPC, ListPC, PallocPC
<1>b. allocCache[t] \in Caches => ptrs'[allocCache[t]] = ptrs[allocCache[t]]
  BY <1>a, OwnAlloc
<1>c. allocCache' = allocCache
  <2>1. Freeze(t) \/ LoadHead(t) \/ Move(t) \/ Unfreeze(t) \/ Look(t) \/ Stamp(t) \/ Save(t) \/ Pop(t) \/ Follow(t)
        => allocCache' = allocCache
    BY DEF Freeze, LoadHead, Move, Unfreeze, Look, Stamp, Save, Pop, Follow
  <2>2. PopCas(t) \/ Repair(t) \/ Scan(t) \/ EndScan(t) \/ GiveCas(t) \/ PFree(t) \/ PushLink(t) \/ PushCas(t) \/ PopHead(t)
        => allocCache' = allocCache
    BY DEF PopCas, Repair, Scan, EndScan, GiveCas, PFree, PushLink, PushCas, PopHead
  <2> QED
    BY <2>1, <2>2
<1>1. CASE \/ Freeze(t) \/ LoadHead(t) \/ Move(t) \/ Unfreeze(t) \/ Look(t) \/ Stamp(t) \/ Save(t)
           \/ (Follow(t) /\ pc[t] = "follow") \/ PopCas(t) \/ Repair(t) \/ EndScan(t) \/ GiveCas(t)
  <2>1. op' = op /\ ref' = ref /\ own' = own
    BY <1>1 DEF Freeze, LoadHead, Move, Unfreeze, Look, Stamp, Save, Follow, PopCas, Repair, EndScan, GiveCas
  <2>2. pc'[t] \in DeepPC /\ pc'[t] \notin FreePC
    BY <1>1, CollectPlaces DEF DeepPC, RetirePC, ListPC, PallocPC, FreePC, ChangePC, StampPC, PopPC, ScanPC
  <2> QED
    BY <1>a, <1>b, <1>c, <2>1, <2>2, StaysDeep
<1>2. CASE Scan(t)
  <2>1. op' = op /\ ref' = ref /\ own' = own
    BY <1>2 DEF Scan
  <2>2. pc'[t] \in DeepPC /\ pc[t] = "scan"
    BY <1>2, CollectPlaces DEF DeepPC, RetirePC, ListPC, PallocPC, FreePC, ScanPC
  <2>3. calls'[t] # <<>>
    <3>1. calls[t] # <<>>
      BY <2>2 DEF Control, CallsOf, ListPC, PallocPC, FreePC
    <3> QED
      BY <1>2, <3>1 DEF Scan, SetTop, Types
  <2> QED
    BY <1>a, <1>b, <1>c, <2>1, <2>2, <2>3, StaysDeep
<1>3. CASE Pop(t)
  <2>1. op' = op /\ ref' = ref /\ own' = own /\ pc[t] = "pop" /\ calls[t] # <<>>
    BY <1>3 DEF Pop, Control, CallsOf, ListPC, PallocPC, FreePC
  <2>2. CASE Return(t)
    <3>1. calls'[t] = <<>> <=> Len(calls[t]) = 1
      BY <2>1, <2>2, CallReturned
    <3>2. pc'[t] = IF Len(calls[t]) = 1 /\ op[t] = "insert" THEN "popHead" ELSE "pfree"
      BY <2>2 DEF Return, Types
    <3>3. op[t] \in {"insert", "unlink"}
      BY <1>a, DeepOperation
    <3> QED
      BY <1>a, <1>b, <1>c, <2>1, <3>1, <3>2, <3>3, StaysDeep DEF DeepPC, RetirePC, ListPC, PallocPC, FreePC
  <2>3. CASE ~ Return(t)
    <3>1. pc'[t] = "follow"
      BY <1>3, <2>3 DEF Pop, Types
    <3> QED
      BY <1>a, <1>b, <1>c, <2>1, <3>1, StaysDeep DEF DeepPC, RetirePC, ListPC, PallocPC, FreePC, PopPC
  <2> QED
    BY <2>2, <2>3
<1>4. CASE PushLink(t) \/ PopHead(t)
  <2>1. op' = op /\ ref' = ref /\ own' = own
    BY <1>4 DEF PushLink, PopHead
  <2>2. CASE Trigger(t)
    <3>1. pc'[t] = "freeze"
      BY <2>2 DEF Trigger, Types
    <3> QED
      BY <1>a, <1>b, <1>c, <2>1, <3>1, StaysDeep DEF DeepPC, RetirePC, ListPC, PallocPC, FreePC, ChangePC
  <2>3. CASE ~ Trigger(t)
    <3>1. calls' = calls
      BY <1>4, <2>3 DEF PushLink, PopHead
    <3>2. (pc[t] = "pushLink" /\ pc'[t] = "pushCas") \/ (pc[t] = "popHead" /\ pc'[t] = "followHead")
      BY <1>4, <2>3 DEF PushLink, PopHead, Types
    <3>3. pc[t] = "popHead" => op[t] = "insert"
      BY DEF Control, OperationOf, PallocPC
    <3>4. pc[t] = "pushLink" /\ calls[t] = <<>> => op[t] = "unlink"
      BY <1>a, DeepOperation DEF FreePC
    <3> QED
      BY <1>a, <1>b, <1>c, <2>1, <3>1, <3>2, <3>3, <3>4, StaysDeep DEF DeepPC, RetirePC, ListPC, PallocPC, FreePC
  <2> QED
    BY <2>2, <2>3
<1>5. CASE PFree(t) \/ PushCas(t)
  <2>0. pc[t] \in FreePC \cup {"retire"} /\ ref' = ref
    <3>1. pc[t] \in FreePC \cup {"retire"}
      BY <1>5, MutatorPlaces DEF FreePC
    <3>2. ref' = ref
      BY <1>5 DEF PFree, PushCas
    <3> QED
      BY <3>1, <3>2
  <2>1. CASE FreeReturns(t)
    <3>1. CASE calls[t] = <<>>
      <4>0. /\ own' = [own EXCEPT ![t] = NoObject] /\ op' = [op EXCEPT ![t] = "none"]
            /\ pc' = [pc EXCEPT ![t] = "walk"]
        BY <2>0, <2>1, <3>1, FreeReturned
      <4>1. op'[t] = "none" /\ own'[t] = NoObject /\ pc'[t] = "walk"
        BY <4>0 DEF Types
      <4>2. ref[t] = NoObject
        BY <1>a, <2>0, <3>1, DeepOperation
      <4> QED
        BY <2>0, <4>1, <4>2, ConstantTypes DEF OperationOf, PallocPC, FreePC
    <3>2. CASE calls[t] # <<>>
      <4>0. UNCHANGED <<op, own>> /\ pc' = [pc EXCEPT ![t] = "scan"]
        BY <2>0, <2>1, <3>2, FreeReturned
      <4>1. UNCHANGED <<op, own>> /\ pc'[t] = "scan"
        BY <4>0 DEF Types
      <4> QED
        BY <1>a, <1>b, <1>c, <2>0, <4>1, StaysDeep DEF DeepPC, RetirePC, ListPC, PallocPC, FreePC, ScanPC
    <3> QED
      BY <3>1, <3>2
  <2>2. CASE ~ FreeReturns(t)
    <3>1. UNCHANGED <<op, own, calls>> /\ pc'[t] = "pushLink"
      BY <1>5, <2>2 DEF PFree, PushCas, Types
    <3>2. calls[t] = <<>> => op[t] = "unlink"
      BY <1>a, <2>0, DeepOperation
    <3> QED
      BY <1>a, <1>b, <1>c, <2>0, <3>1, <3>2, StaysDeep DEF DeepPC, RetirePC, ListPC, PallocPC, FreePC
  <2> QED
    BY <2>1, <2>2
<1> QED
  BY <1>1, <1>2, <1>3, <1>4, <1>5

\* palloc takes the last object of the thread's cache, or goes on to the stack.
LEMMA Taken ==
    ASSUME NEW t \in Threads, Types, TakeOrPop(t)
    PROVE  \/ /\ allocCache[t] \in Caches /\ ptrs[allocCache[t]] \in Seq(Objects) /\ ptrs[allocCache[t]] # <<>>
              /\ own' = [own EXCEPT ![t] = ptrs[allocCache[t]][Len(ptrs[allocCache[t]])]]
              /\ own'[t] = ptrs[allocCache[t]][Len(ptrs[allocCache[t]])] /\ own'[t] \in Objects
              /\ ptrs' = [ptrs EXCEPT ![allocCache[t]] = SubSeq(@, 1, Len(@) - 1)]
              /\ pc'[t] = "publish"
           \/ /\ allocCache[t] = NULL \/ ptrs[allocCache[t]] = <<>>
              /\ UNCHANGED <<own, ptrs>> /\ pc'[t] = "popHead"
<1> DEFINE c == allocCache[t]
           s == ptrs[c]
<1>1. CASE c # NULL /\ s # <<>>
  <2>1. c \in Caches /\ s \in Seq(Objects)
    BY <1>1, ConstantTypes DEF Types
  <2>2. own' = [own EXCEPT ![t] = s[Len(s)]] /\ ptrs' = [ptrs EXCEPT ![c] = SubSeq(@, 1, Len(@) - 1)] /\ pc'[t] = "publish"
    BY <1>1 DEF TakeOrPop, Goto, Types
  <2>3. Len(s) \in DOMAIN s /\ s[Len(s)] \in Objects
    BY <1>1, <2>1
  <2>4. own'[t] = s[Len(s)]
    BY <2>2 DEF Types
  <2> QED
    BY <1>1, <2>1, <2>2, <2>3, <2>4
<1>2. CASE ~ (c # NULL /\ s # <<>>)
  BY <1>2 DEF TakeOrPop, Goto, Types
<1> QED
  BY <1>1, <1>2

\* The operation of the thread after its step in palloc.
LEMMA AllocSteps ==
    ASSUME NEW t \in Threads, Types, Types', Control,
           (Follow(t) /\ pc[t] = "followHead") \/ HeadCas(t) \/ UnlinkCache(t) \/ WalkToInsert(t)
    PROVE  OperationOf(t)'
<1> USE DEF Goto
<1>0. OperationOf(t) /\ CallsOf(t)
  BY DEF Control
<1>a. NoObject \notin Objects /\ NULL \notin Caches
  BY ConstantTypes
<1>1. CASE Follow(t) /\ pc[t] = "followHead"
  <2>1. UNCHANGED <<op, ref, own, calls, allocCache, ptrs>> /\ pc'[t] = "headCas"
    BY <1>1 DEF Follow, operation, caches, Types
  <2>2. op[t] = "insert" /\ calls[t] = <<>> /\ own[t] = NoObject /\ (allocCache[t] = NULL \/ ptrs[allocCache[t]] = <<>>)
    BY <1>0, <1>1 DEF OperationOf, CallsOf, PallocPC
  <2> QED
    BY <1>a, <2>1, <2>2 DEF OperationOf, FreePC
<1>2. CASE HeadCas(t)
  <2>1. UNCHANGED <<op, ref, own, calls, ptrs>> /\ pc[t] = "headCas"
    BY <1>2 DEF HeadCas, operation, caches
  <2>2. op[t] = "insert" /\ calls[t] = <<>> /\ own[t] = NoObject /\ (allocCache[t] = NULL \/ ptrs[allocCache[t]] = <<>>)
    BY <1>0, <2>1 DEF OperationOf, CallsOf, PallocPC
  <2>3. \/ pc'[t] = "popHead" /\ allocCache' = allocCache
        \/ pc'[t] = "unlinkCache" /\ allocCache'[t] = reg[t].head
    BY <1>2 DEF HeadCas, Types
  <2>4. reg[t].head \in Caches
    BY <2>1 DEF Control, RegistersOf
  <2> QED
    BY <1>a, <2>1, <2>2, <2>3, <2>4 DEF OperationOf, FreePC
<1>3. CASE UnlinkCache(t)
  <2>1. UNCHANGED <<op, ref, calls, allocCache>> /\ TakeOrPop(t) /\ pc[t] = "unlinkCache"
    BY <1>3 DEF UnlinkCache
  <2>2. op[t] = "insert" /\ calls[t] = <<>> /\ own[t] = NoObject
    BY <1>0, <2>1 DEF OperationOf, CallsOf, PallocPC
  <2> QED
    BY <1>a, <2>1, <2>2, Taken DEF OperationOf, FreePC, PallocPC
<1>4. CASE WalkToInsert(t)
  <2>1. UNCHANGED <<calls, allocCache>> /\ TakeOrPop(t) /\ pc[t] = "walk"
    BY <1>4 DEF WalkToInsert
  <2>2. calls[t] = <<>> /\ own[t] = NoObject
    BY <1>0, <2>1 DEF OperationOf, CallsOf, ListPC
  <2>3. op'[t] = "insert"
    BY <1>4 DEF WalkToInsert, Types
  <2> QED
    BY <1>a, <2>1, <2>2, <2>3, Taken DEF OperationOf, FreePC, PallocPC
<1> QED
  BY <1>1, <1>2, <1>3, <1>4

\* The operation of the thread after its step in the list.
LEMMA ListSteps ==
    ASSUME NEW t \in Threads, Types, Types', Control,
           \/ Clear(t) \/ Search(t) \/ WalkToUnlink(t) \/ Publish(t) \/ Fence(t) \/ Restart(t) \/ Cas(t) \/ Finish(t)
    PROVE  OperationOf(t)'
<1> USE DEF Goto
<1>0. OperationOf(t) /\ CallsOf(t) /\ op[t] \in {"none", "insert", "unlink"}
  BY DEF Control, Types
<1>a. NoObject \notin Objects /\ NULL \notin Caches
  BY ConstantTypes
<1>1. CASE Clear(t) \/ Search(t)
  <2>1. UNCHANGED <<op, ref, own, calls, allocCache, ptrs, pc>> /\ pc[t] = "walk"
    BY <1>1 DEF Clear, Search, vars, operation, caches
  <2> QED
    BY <1>0, <2>1 DEF OperationOf
<1>2. CASE WalkToUnlink(t)
  <2>1. UNCHANGED <<own, calls>> /\ pc[t] = "walk" /\ pc'[t] = "publish"
    BY <1>2 DEF WalkToUnlink, Types
  <2>2. op'[t] = "unlink" /\ ref'[t] \in Objects
    BY <1>2 DEF WalkToUnlink, Types
  <2>3. own[t] = NoObject
    BY <1>0, <2>1 DEF OperationOf
  <2> QED
    BY <1>a, <2>1, <2>2, <2>3 DEF OperationOf, PallocPC, FreePC
<1>3. CASE Publish(t)
  <2>1. UNCHANGED <<op, ref, own, calls, allocCache, ptrs>> /\ pc[t] = "publish" /\ pc'[t] = "fence"
    BY <1>3 DEF Publish, Types, operation, caches
  <2>2. HPs'[t] = {ref[t], own[t]} \ {NoObject}
    BY <1>3 DEF Publish, Types
  <2>3. calls[t] = <<>>
    BY <1>0, <2>1 DEF CallsOf, ListPC
  <2> QED
    BY <1>0, <2>1, <2>2, <2>3 DEF OperationOf, PallocPC, FreePC
<1>4. CASE Fence(t)
  <2>1. UNCHANGED <<op, ref, own, calls, allocCache, ptrs, HPs>> /\ pc[t] = "fence" /\ pc'[t] \in {"restart", "cas"}
    BY <1>4 DEF Fence, Types, operation, caches
  <2>3. calls[t] = <<>>
    BY <1>0, <2>1 DEF CallsOf, ListPC
  <2> QED
    BY <1>0, <2>1, <2>3 DEF OperationOf, PallocPC, FreePC
<1>5. CASE Restart(t) \/ Finish(t)
  <2>1. pc[t] \in {"restart", "finish"} /\ pc'[t] = "walk" /\ op'[t] = "none" /\ own'[t] = NoObject
    BY <1>5 DEF Restart, Finish, Types
  <2>2. pc[t] = "restart" => ref'[t] = NoObject
    BY <1>5 DEF Restart, Finish, Types
  <2>3. pc[t] = "finish" => ref'[t] = NoObject
    BY <1>0, <1>5 DEF Restart, Finish, OperationOf
  <2> QED
    BY <1>a, <2>1, <2>2, <2>3 DEF OperationOf, PallocPC, FreePC
<1>6. CASE Cas(t)
  <2>1. UNCHANGED <<op, calls, allocCache, ptrs>> /\ pc[t] = "cas" /\ ref'[t] = NoObject
    BY <1>6 DEF Cas, Types, caches
  <2>2. \/ pc'[t] = "finish" /\ own' = own
        \/ pc'[t] = "retire" /\ op[t] = "unlink" /\ own'[t] = ref[t]
        \/ pc'[t] = "finish" /\ op[t] = "insert" /\ own'[t] = NoObject
    BY <1>6 DEF Cas, Types
  <2>3. calls[t] = <<>>
    BY <1>0, <2>1 DEF CallsOf, ListPC
  <2> QED
    BY <1>0, <1>a, <2>1, <2>2, <2>3 DEF OperationOf, PallocPC, FreePC
<1> QED
  BY <1>1, <1>2, <1>3, <1>4, <1>5, <1>6

\* Control is kept.
LEMMA StepControl ==
    ASSUME NEW t \in Threads, Types, Types', Control, Versions, CacheInv, Step(t)
    PROVE  Control'
<1>1. OperationOf(t)'
  <2>1. Follow(t) => pc[t] \in {"follow", "followHead"}
    BY DEF Follow
  <2> QED
    BY <2>1, DeepSteps, AllocSteps, ListSteps DEF Step
<1>2. \A u \in Threads : CallsOf(u)' /\ OperationOf(u)' /\ RegistersOf(u)'
  BY <1>1, OtherControl, OwnCalls, OwnRegisters
<1> QED
  BY <1>2 DEF Control

-----------------------------------------------------------------------------
(* Sequences.                                                              *)

\* Something is put at the end of a sequence.
LEMMA Appended ==
    ASSUME NEW s \in Seq(Objects), NEW o \in Objects
    PROVE  /\ Append(s, o) \in Seq(Objects) /\ Range(Append(s, o)) = Range(s) \cup {o} /\ Len(Append(s, o)) = Len(s) + 1
           /\ IsInjective(s) /\ o \notin Range(s) => IsInjective(Append(s, o))
<1> DEFINE r == Append(s, o)
           n == Len(s)
<1>1. /\ r \in Seq(Objects) /\ Len(r) = n + 1 /\ n \in Nat /\ DOMAIN s = 1 .. n /\ DOMAIN r = 1 .. n + 1
      /\ r[n + 1] = o /\ \A k \in 1 .. n : r[k] = s[k]
  BY AppendProperties
<1>2. \A k \in 1 .. n + 1 : k = n + 1 \/ k \in 1 .. n
  BY <1>1
<1>3. \A k \in 1 .. n : k \in 1 .. n + 1
  BY <1>1
<1>4. n + 1 \in 1 .. n + 1
  BY <1>1
<1> HIDE DEF r, n
<1>5. Range(r) = Range(s) \cup {o}
  BY <1>1, <1>2, <1>3, <1>4 DEF Range
<1>6. IsInjective(s) /\ o \notin Range(s) => IsInjective(r)
  BY <1>1, <1>2 DEF IsInjective, Range
<1> QED
  BY <1>1, <1>5, <1>6 DEF r, n

\* The last element is taken away.
LEMMA LastTaken ==
    ASSUME NEW s \in Seq(Objects), s # <<>>
    PROVE  LET r == SubSeq(s, 1, Len(s) - 1) IN
           /\ r \in Seq(Objects) /\ Len(r) = Len(s) - 1 /\ s[Len(s)] \in Range(s) /\ s[Len(s)] \in Objects
           /\ IsInjective(s) => IsInjective(r) /\ Range(r) = Range(s) \ {s[Len(s)]}
<1> DEFINE r == SubSeq(s, 1, Len(s) - 1)
           n == Len(s)
<1>a. n \in Nat \ {0} /\ DOMAIN s = 1 .. n
  BY EmptySeq
<1>b. r \in Seq(Objects) /\ Len(r) = n - 1 /\ DOMAIN r = 1 .. n - 1
  BY <1>a
<1>c. \A k \in 1 .. n - 1 : r[k] = s[k]
  BY <1>a, <1>b
<1>1. /\ n \in Nat \ {0} /\ DOMAIN s = 1 .. n /\ r \in Seq(Objects) /\ Len(r) = n - 1 /\ DOMAIN r = 1 .. n - 1
      /\ \A k \in 1 .. n - 1 : r[k] = s[k]
  BY <1>a, <1>b, <1>c
<1> HIDE DEF r, n
<1>2. \A k \in 1 .. n : k = n \/ k \in 1 .. n - 1
  BY <1>a
<1>3. \A k \in 1 .. n - 1 : k \in 1 .. n /\ k # n
  BY <1>a
<1>4. n \in 1 .. n
  BY <1>1
<1>5. s[n] \in Range(s)
  BY <1>1, <1>4 DEF Range
<1>6. s[n] \in Objects
  BY <1>1, <1>4
<1>7. IsInjective(s) => IsInjective(r) /\ Range(r) = Range(s) \ {s[n]}
  BY <1>1, <1>2, <1>3, <1>4 DEF Range, IsInjective
<1> QED
  BY <1>1, <1>5, <1>6, <1>7 DEF r, n

\* The first element is taken away.
LEMMA FirstTaken ==
    ASSUME NEW s \in Seq(Objects), s # <<>>
    PROVE  /\ Tail(s) \in Seq(Objects) /\ Len(s) = Len(Tail(s)) + 1 /\ Head(s) \in Objects
           /\ Range(s) = Range(Tail(s)) \cup {Head(s)}
           /\ IsInjective(s) => IsInjective(Tail(s)) /\ Head(s) \notin Range(Tail(s))
<1> DEFINE r == Tail(s)
           n == Len(s)
<1>b. n \in Nat \ {0} /\ DOMAIN s = 1 .. n
  BY EmptySeq
<1>c. r \in Seq(Objects) /\ Len(r) = n - 1 /\ DOMAIN r = 1 .. n - 1
  BY HeadTailProperties, <1>b
<1>d. Head(s) = s[1] /\ Head(s) \in Objects
  BY HeadTailProperties, <1>b
<1>e. \A k \in 1 .. n - 1 : r[k] = s[k + 1]
  BY HeadTailProperties, <1>b, <1>c
<1> HIDE DEF r, n
<1>2. \A k \in 1 .. n : k = 1 \/ (k - 1 \in 1 .. n - 1 /\ (k - 1) + 1 = k)
  BY <1>b
<1>3. \A k \in 1 .. n - 1 : k + 1 \in 1 .. n /\ k + 1 # 1
  BY <1>b
<1>4. 1 \in 1 .. n
  BY <1>b
<1>5. \A k, j \in 1 .. n - 1 : k + 1 = j + 1 => k = j
  BY <1>b
<1>a. n = Len(r) + 1
  BY <1>b, <1>c
<1>6. Range(s) = Range(r) \cup {s[1]}
  <2>1. ASSUME NEW k \in 1 .. n, k # 1 PROVE s[k] \in Range(r)
    <3>1. k - 1 \in 1 .. n - 1 /\ (k - 1) + 1 = k
      BY <1>2, <2>1
    <3>2. r[k - 1] = s[k]
      BY <1>e, <3>1
    <3> QED
      BY <1>c, <3>1, <3>2 DEF Range
  <2>2. ASSUME NEW k \in 1 .. n - 1 PROVE r[k] \in Range(s)
    BY <1>b, <1>e, <1>3 DEF Range
  <2>3. s[1] \in Range(s)
    BY <1>b, <1>4 DEF Range
  <2>4. \A x \in Range(s) : x \in Range(r) \cup {s[1]}
    BY <1>b, <2>1 DEF Range
  <2>5. \A x \in Range(r) : x \in Range(s)
    BY <1>c, <2>2 DEF Range
  <2> QED
    BY <2>3, <2>4, <2>5
<1>7. IsInjective(s) => IsInjective(r)
  <2> SUFFICES ASSUME IsInjective(s), NEW k \in 1 .. n - 1, NEW j \in 1 .. n - 1, r[k] = r[j] PROVE k = j
    BY <1>c DEF IsInjective
  <2>1. s[k + 1] = s[j + 1] /\ k + 1 \in DOMAIN s /\ j + 1 \in DOMAIN s
    BY <1>b, <1>e, <1>3
  <2>2. k + 1 = j + 1
    BY <2>1 DEF IsInjective
  <2> QED
    BY <1>5, <2>2
<1>8. IsInjective(s) => s[1] \notin Range(r)
  <2> SUFFICES ASSUME IsInjective(s), NEW k \in 1 .. n - 1, r[k] = s[1] PROVE FALSE
    BY <1>c DEF Range
  <2>1. s[k + 1] = s[1] /\ k + 1 \in DOMAIN s /\ 1 \in DOMAIN s /\ k + 1 # 1
    BY <1>b, <1>e, <1>3, <1>4
  <2> QED
    BY <2>1 DEF IsInjective
<1> QED
  BY <1>a, <1>c, <1>d, <1>6, <1>7, <1>8 DEF r, n

\* The sequences of no and of one element.
LEMMA ShortSequences ==
    /\ <<>> \in Seq(Objects) /\ Range(<<>>) = {} /\ IsInjective(<<>>) /\ Len(<<>>) = 0
    /\ \A o \in Objects : Range(<<o>>) = {o} /\ IsInjective(<<o>>) /\ Len(<<o>>) = 1
    /\ \A s \in Seq(Objects) : Range(s) \subseteq Objects /\ (Range(s) = {} <=> s = <<>>) /\ Len(s) \in Nat
<1>1. <<>> \in Seq(Objects) /\ Len(<<>>) = 0 /\ DOMAIN <<>> = {}
  OBVIOUS
<1>2. Range(<<>>) = {} /\ IsInjective(<<>>)
  BY <1>1 DEF Range, IsInjective
<1>3. ASSUME NEW o \in Objects PROVE Range(<<o>>) = {o} /\ IsInjective(<<o>>) /\ Len(<<o>>) = 1
  <2>1. DOMAIN <<o>> = {1} /\ <<o>>[1] = o /\ Len(<<o>>) = 1
    OBVIOUS
  <2> QED
    BY <2>1 DEF Range, IsInjective
<1>4. ASSUME NEW s \in Seq(Objects) PROVE Range(s) \subseteq Objects /\ (Range(s) = {} <=> s = <<>>) /\ Len(s) \in Nat
  <2>1. DOMAIN s = 1 .. Len(s) /\ Len(s) \in Nat /\ \A k \in 1 .. Len(s) : s[k] \in Objects
    OBVIOUS
  <2>2. s # <<>> => 1 \in DOMAIN s
    BY EmptySeq
  <2> QED
    BY <1>2, <2>1, <2>2 DEF Range
<1> QED
  BY <1>1, <1>2, <1>3, <1>4

-----------------------------------------------------------------------------
(* The caches whose contents count.                                        *)

\* The caches a thread has, but those in the hands of Recycle.
KeptBy(t) == {allocCache[t], freeCache[t], Popped(t)} \ {NULL}
Stacks == Free \cup Pending \cup Pushed
Elsewhere(t) == Stacks \cup UNION {KeptBy(u) : u \in Threads \ {t}}

\* What is stored is kept by the thread or elsewhere, and not both.
LEMMA StoredParts ==
    ASSUME NEW t \in Threads, Types, CacheInv
    PROVE  /\ Stored = KeptBy(t) \cup Elsewhere(t) /\ Mine(t) \cap Elsewhere(t) = {}
           /\ KeptBy(t) \subseteq Mine(t) /\ Entries(t) \cap Stored \subseteq {NULL}
           /\ Stored \subseteq Caches /\ Fresh \cap Stored = {}
<1>1. \A u \in Threads : KeptBy(u) \subseteq Mine(u)
  BY DEF KeptBy, Mine
<1>2. Stored = KeptBy(t) \cup Elsewhere(t)
  BY DEF Stored, KeptBy, Elsewhere, Stacks
<1>3. Mine(t) \cap Elsewhere(t) = {}
  BY <1>1 DEF Elsewhere, Stacks, CacheInv, Exclusive
<1>4. Entries(t) \cap KeptBy(t) = {}
  BY DEF KeptBy, CacheInv, Exclusive, OneEach
<1>5. Entries(t) \cap Elsewhere(t) \subseteq {NULL}
  BY <1>3 DEF Mine
<1>6. Stored \subseteq Caches /\ Fresh \cap Stored = {}
  BY <1>1, ReferencedCaches, FreshNowhere DEF Stored, KeptBy
<1> QED
  BY <1>1, <1>2, <1>3, <1>4, <1>5, <1>6

\* What other threads keep does not change with a step.
LEMMA ElsewhereSteps ==
    ASSUME NEW t \in Threads, Types, Step(t)
    PROVE  /\ Stacks' = Stacks => Elsewhere(t)' = Elsewhere(t)
           /\ Stored = KeptBy(t) \cup Elsewhere(t) /\ Stored' = KeptBy(t)' \cup Elsewhere(t)'
           /\ \E K : Elsewhere(t) = Stacks \cup K /\ Elsewhere(t)' = Stacks' \cup K
<1>1. \A u \in Threads \ {t} : KeptBy(u)' = KeptBy(u)
  BY OthersSame DEF Same, KeptBy, Popped
<1>2. Stored = KeptBy(t) \cup Elsewhere(t)
  BY DEF Stored, KeptBy, Elsewhere, Stacks
<1>3. Stored' = KeptBy(t)' \cup Elsewhere(t)'
  BY DEF Stored, KeptBy, Elsewhere, Stacks
<1>4. /\ Elsewhere(t) = Stacks \cup UNION {KeptBy(u) : u \in Threads \ {t}}
      /\ Elsewhere(t)' = Stacks' \cup UNION {KeptBy(u) : u \in Threads \ {t}}
  BY <1>1 DEF Elsewhere
<1> QED
  BY <1>2, <1>3, <1>4

\* The steps that change what is stored, and the contents.
LEMMA StoredSame ==
    ASSUME NEW t \in Threads, Types, Types', Control, Versions, CacheInv, Step(t),
           ~ (Repair(t) \/ GiveCas(t) \/ PFree(t) \/ PushCas(t) \/ HeadCas(t))
    PROVE  Stored' = Stored
<1> USE DEF caches
<1>0. Apart(t)
  BY DEF CacheInv, Exclusive, OneEach
<1>1. CASE PopCas(t)
  <2>1. /\ allocCache' = allocCache /\ freeCache' = freeCache /\ pc[t] = "popCas"
    BY <1>1 DEF PopCas
  <2>2. CASE Quiet /\ pc'[t] = "pop"
    <3>1. KeptBy(t)' = KeptBy(t)
      BY <2>1, <2>2 DEF KeptBy, Popped
    <3> QED
      BY <2>2, <3>1, ElsewhereSteps DEF Quiet, Stacks
  <2>3. CASE /\ reg[t].head \in Pending /\ Pending' = Pending \ {reg[t].head} /\ Free' = Free /\ Pushed' = Pushed
             /\ pc'[t] = "repair" /\ reg'[t] = reg[t]
    <3>1. reg[t].head \in Caches /\ reg[t].head # NULL /\ reg[t].head \in Stacks
      BY <2>3, ReferencedCaches, ConstantTypes DEF Stacks
    <3>2. KeptBy(t)' = KeptBy(t) \cup {reg[t].head}
      BY <2>1, <2>3, <3>1 DEF KeptBy, Popped
    <3>3. Stacks' = Stacks \ {reg[t].head}
      BY <2>3 DEF Stacks, CacheInv, Exclusive
    <3> HIDE DEF KeptBy, Stacks
    <3> QED
      BY <3>1, <3>2, <3>3, ElsewhereSteps
  <2> QED
    BY <1>1, <2>2, <2>3, PopStacks
<1>2. CASE ~ PopCas(t)
  <2>1. pc[t] # "repair"
    BY CollectPlaces, MutatorPlaces DEF Step
  <2>2. pc'[t] # "repair"
    BY <1>2, CollectPlaces, MutatorPlaces DEF Step
  <2>3. allocCache'[t] = allocCache[t] /\ freeCache'[t] = freeCache[t]
    BY <1>0, <1>2, PlainSteps DEF Plain
  <2>4. KeptBy(t)' = KeptBy(t)
    BY <2>1, <2>2, <2>3 DEF KeptBy, Popped
  <2>5. Stacks' = Stacks
    <3>1. CASE Freeze(t) \/ Move(t) \/ Unfreeze(t)
      BY <3>1, MoveStacks DEF Stacks
    <3>2. CASE ~ (Freeze(t) \/ Move(t) \/ Unfreeze(t))
      BY <1>2, <3>2, TopsSame, QuietStacks DEF Quiet, Stacks
    <3> QED
      BY <3>1, <3>2
  <2> QED
    BY <2>4, <2>5, ElsewhereSteps
<1> QED
  BY <1>1, <1>2

\* The contents of what is stored stay, but for these steps.
LEMMA ContentsSame ==
    ASSUME NEW t \in Threads, Types, Types', Control, Versions, CacheInv, Step(t),
           ~ (PFree(t) \/ PushCas(t) \/ UnlinkCache(t) \/ WalkToInsert(t) \/ Finish(t))
    PROVE  /\ ~ EndScan(t) => ptrs' = ptrs
           /\ \A c \in Stored : ptrs'[c] = ptrs[c]
<1>1. CASE EndScan(t)
  <2>1. pc[t] \in ScanPC /\ ptrs' = [ptrs EXCEPT ![Top(t).entry] = Top(t).kept]
    BY <1>1 DEF EndScan, ScanPC
  <2>2. calls[t] # <<>> /\ Top(t).entry \in Caches
    BY <2>1, OwnCachesMine DEF Control, Scanning
  <2>3. Top(t).entry \in Entries(t)
    BY <2>2, TopFrame DEF Entries
  <2>4. Top(t).entry \notin Stored
    BY <2>2, <2>3, StoredParts, ConstantTypes
  <2> QED
    BY <1>1, <2>1, <2>4, StoredParts DEF Types
<1>2. CASE ~ EndScan(t)
  <2> USE DEF caches
  <2>1. Freeze(t) \/ LoadHead(t) \/ Move(t) \/ Unfreeze(t) \/ Look(t) \/ Stamp(t) \/ Save(t) \/ Pop(t) \/ Follow(t)
        => ptrs' = ptrs
    BY DEF Freeze, LoadHead, Move, Unfreeze, Look, Stamp, Save, Pop, Follow
  <2>2. PopCas(t) \/ Repair(t) \/ Scan(t) \/ GiveCas(t) \/ PushLink(t) \/ PopHead(t) \/ HeadCas(t) \/ Clear(t) \/ Search(t)
        => ptrs' = ptrs
    BY DEF PopCas, Repair, Scan, GiveCas, PushLink, PopHead, HeadCas, Clear, Search, vars
  <2>3. WalkToUnlink(t) \/ Publish(t) \/ Fence(t) \/ Restart(t) \/ Cas(t) => ptrs' = ptrs
    BY DEF WalkToUnlink, Publish, Fence, Restart, Cas
  <2> QED
    BY <1>2, <2>1, <2>2, <2>3 DEF Step
<1> QED
  BY <1>1, <1>2

\* The popped cache is not stored any more: Recycle has what is in it.
LEMMA RepairStored ==
    ASSUME NEW t \in Threads, Types, Types', Control, Versions, CacheInv, Step(t), Repair(t)
    PROVE  reg[t].head \in Stored /\ Stored' = Stored \ {reg[t].head} /\ ptrs' = ptrs
<1> DEFINE e == reg[t].head
<1>0. /\ pc[t] = "repair" /\ pc'[t] = "scan" /\ allocCache' = allocCache /\ freeCache' = freeCache /\ ptrs' = ptrs
  BY CollectPlaces DEF Repair
<1>1. Popped(t) = e /\ Popped(t)' = NULL /\ e \in Caches /\ e # NULL
  BY <1>0, ConstantTypes DEF Popped, Control, RegistersOf
<1>2. e \notin {allocCache[t], freeCache[t]}
  BY <1>1 DEF CacheInv, Exclusive, OneEach
<1> HIDE DEF e
<1>3. KeptBy(t)' = KeptBy(t) \ {e} /\ e \in KeptBy(t)
  BY <1>0, <1>1, <1>2 DEF KeptBy
<1>4. e \notin Elsewhere(t) /\ Stored = KeptBy(t) \cup Elsewhere(t)
  BY <1>3, StoredParts
<1>5. Stacks' = Stacks
  BY TopsSame, QuietStacks DEF Quiet, Stacks, Repair, shared
<1> QED
  BY <1>0, <1>3, <1>4, <1>5, ElsewhereSteps DEF e

\* A processed cache is stored when it is given away.
LEMMA GiveStored ==
    ASSUME NEW t \in Threads, Types, Types', Control, Versions, CacheInv, Step(t), GiveCas(t)
    PROVE  /\ ptrs' = ptrs
           /\ \/ Stored' = Stored /\ UNCHANGED calls
              \/ /\ Stored' = Stored \cup {Top(t).entry} /\ Top(t).entry \notin Stored /\ Top(t).entry \in Caches
                 /\ SetTop(t, NewCall) /\ pc'[t] = "pop" /\ calls[t] # <<>>
<1>0. /\ Apart(t) /\ ptrs' = ptrs /\ pc[t] = "giveCas" /\ pc'[t] # "repair"
  BY CollectPlaces DEF CacheInv, Exclusive, OneEach, GiveCas, caches
<1>1. Plain(t)
  BY <1>0, PlainSteps DEF GiveCas, PopCas, Repair, PFree, PushCas, HeadCas
<1>2. KeptBy(t)' = KeptBy(t)
  BY <1>0, <1>1 DEF KeptBy, Plain, Popped
<1>3. CASE Free' = Free /\ UNCHANGED calls
  <2>1. Stacks' = Stacks
    BY <1>3, GiveStacks DEF Stacks
  <2> QED
    BY <1>0, <1>2, <1>3, <2>1, ElsewhereSteps
<1>4. CASE Free' = Free \cup {Top(t).entry} /\ SetTop(t, NewCall) /\ pc'[t] = "pop"
  <2>1. Stacks' = Stacks \cup {Top(t).entry}
    BY <1>4, GiveStacks DEF Stacks
  <2>2. Top(t).entry \in Entries(t) /\ Top(t).entry \in Caches /\ Top(t).entry # NULL /\ calls[t] # <<>>
    BY GiveStacks, TopFrame, ConstantTypes DEF Entries
  <2>3. Top(t).entry \notin Stored
    BY <2>2, StoredParts
  <2> QED
    BY <1>0, <1>2, <1>4, <2>1, <2>2, <2>3, ElsewhereSteps
<1> QED
  BY <1>3, <1>4, GiveStacks

\* pfree puts the object into a stored cache, or into a new one.
LEMMA FreeStored ==
    ASSUME NEW t \in Threads, Types, Types', Control, Versions, CacheInv, Step(t), PFree(t)
    PROVE  \/ Stored' = Stored /\ ptrs' = ptrs /\ UNCHANGED <<own, op, calls>>
           \/ /\ Stored' = Stored /\ FreeReturns(t) /\ freeCache[t] \in Stored
              /\ ptrs' = [ptrs EXCEPT ![freeCache[t]] = Append(@, Argument(t))]
              /\ Len(ptrs[freeCache[t]]) < PerCache
           \/ \E c \in Fresh : Stored' = Stored \cup {c} /\ ptrs' = [ptrs EXCEPT ![c] = <<Argument(t)>>] /\ FreeReturns(t)
<1>0. /\ pc[t] \in FreePC \cup {"retire"} /\ allocCache' = allocCache /\ pc'[t] # "repair" /\ pc[t] # "repair"
  BY MutatorPlaces DEF PFree, FreePC
<1>1. Stacks' = Stacks
  BY TopsSame, QuietStacks DEF Quiet, Stacks, PFree, shared
<1>2. UNCHANGED freeCache => Stored' = Stored
  <2>1. UNCHANGED freeCache => KeptBy(t)' = KeptBy(t)
    BY <1>0 DEF KeptBy, Popped
  <2> QED
    BY <1>1, <2>1, ElsewhereSteps
<1>3. CASE freeCache[t] = NULL /\ NewFreeCache(t) /\ FreeReturns(t)
  <2>1. PICK c \in Fresh : /\ freeCache'[t] = c /\ ptrs' = [ptrs EXCEPT ![c] = <<Argument(t)>>]
    BY <1>0, <1>3, FreshMine
  <2>2. c # NULL
    BY FreshNowhere, ConstantTypes
  <2>3. KeptBy(t)' = KeptBy(t) \cup {c}
    BY <1>0, <1>3, <2>1, <2>2 DEF KeptBy, Popped
  <2>4. Stored' = Stored \cup {c}
    BY <1>1, <2>3, ElsewhereSteps
  <2> QED
    BY <1>3, <2>1, <2>4
<1>4. CASE /\ freeCache[t] # NULL /\ UNCHANGED freeCache /\ FreeReturns(t) /\ Len(ptrs[freeCache[t]]) < PerCache
           /\ ptrs' = [ptrs EXCEPT ![freeCache[t]] = Append(@, Argument(t))]
  <2>1. freeCache[t] \in Stored
    BY <1>4, StoredParts DEF KeptBy
  <2> QED
    BY <1>2, <1>4, <2>1
<1>5. CASE UNCHANGED <<freeCache, ptrs, calls, own, op>>
  BY <1>2, <1>5
<1> QED
  BY <1>3, <1>4, <1>5 DEF PFree

\* The push of a cache, with a new one for the object.
LEMMA PushStored ==
    ASSUME NEW t \in Threads, Types, Types', Control, Versions, CacheInv, Step(t), PushCas(t)
    PROVE  \/ Stored' = Stored /\ ptrs' = ptrs /\ UNCHANGED <<own, op, calls>>
           \/ \E c \in Fresh : Stored' = Stored \cup {c} /\ ptrs' = [ptrs EXCEPT ![c] = <<Argument(t)>>] /\ FreeReturns(t)
<1>0. /\ pc[t] \in FreePC \cup {"retire"} /\ allocCache' = allocCache /\ pc'[t] # "repair" /\ pc[t] # "repair"
  BY MutatorPlaces DEF PushCas, FreePC
<1>1. CASE reclaim # reg[t]
  <2>1. UNCHANGED <<freeCache, ptrs, calls, own, op, reclaim, toProcess, head>>
    BY <1>1 DEF PushCas
  <2>2. KeptBy(t)' = KeptBy(t)
    BY <1>0, <2>1 DEF KeptBy, Popped
  <2>3. Stacks' = Stacks
    BY <2>1, QuietStacks DEF Quiet, Stacks
  <2> QED
    BY <2>1, <2>2, <2>3, ElsewhereSteps
<1>2. CASE reclaim = reg[t]
  <2>1. NewFreeCache(t) /\ FreeReturns(t)
    BY <1>2 DEF PushCas
  <2>2. PICK c \in Fresh : freeCache'[t] = c /\ ptrs' = [ptrs EXCEPT ![c] = <<Argument(t)>>]
    BY <1>0, <2>1, FreshMine
  <2>3. freeCache[t] \in Caches /\ c # NULL /\ freeCache[t] # NULL /\ c # freeCache[t]
    <3>1. freeCache[t] \in Caches
      BY DEF PushCas, Control, RegistersOf
    <3>2. c \notin Mine(t) /\ c \in Caches
      BY FreshNowhere
    <3> QED
      BY <3>1, <3>2, ConstantTypes DEF Mine
  <2>4. Stacks' = Stacks \cup {freeCache[t]}
    <3>1. \/ Pushed' = Pushed /\ UNCHANGED freeCache
          \/ Pushed' = Pushed \cup {freeCache[t]}
      BY PushStacks
    <3>2. freeCache' # freeCache
      BY <2>2, <2>3
    <3> QED
      BY <3>1, <3>2, PushStacks DEF Stacks
  <2>5. KeptBy(t)' \cup {freeCache[t]} = KeptBy(t) \cup {c} \cup {freeCache[t]} /\ freeCache[t] \in KeptBy(t)
    BY <1>0, <2>2, <2>3 DEF KeptBy, Popped
  <2>6. Stored' = Stored \cup {c}
    BY <2>4, <2>5, ElsewhereSteps
  <2> QED
    BY <2>1, <2>2, <2>6
<1> QED
  BY <1>1, <1>2

\* palloc takes a cache of the stack, which is stored as before; its old one is empty.
LEMMA TakeStored ==
    ASSUME NEW t \in Threads, Types, Types', Control, Versions, CacheInv, Step(t), HeadCas(t)
    PROVE  /\ ptrs' = ptrs
           /\ \/ Stored' = Stored
              \/ Stored' = Stored \ {allocCache[t]} /\ (allocCache[t] = NULL \/ ptrs[allocCache[t]] = <<>>)
<1>0. /\ pc[t] = "headCas" /\ pc'[t] # "repair" /\ pc[t] # "repair" /\ freeCache' = freeCache /\ ptrs' = ptrs
  BY MutatorPlaces DEF HeadCas
<1>1. CASE Free' = Free /\ UNCHANGED allocCache
  <2>1. KeptBy(t)' = KeptBy(t)
    BY <1>0, <1>1 DEF KeptBy, Popped
  <2>2. Stacks' = Stacks
    BY <1>1, TakeStacks DEF Stacks
  <2> QED
    BY <1>0, <2>1, <2>2, ElsewhereSteps
<1>2. CASE head \in Free /\ Free' = Free \ {head} /\ allocCache' = [allocCache EXCEPT ![t] = head] /\ head \in Caches
  <2>1. allocCache'[t] = head /\ head # NULL /\ head \in Stacks /\ head \notin KeptBy(t)
    <3>1. head \notin Mine(t)
      BY <1>2 DEF CacheInv, Exclusive
    <3> QED
      BY <1>2, <3>1, ConstantTypes DEF Types, Stacks, Mine, KeptBy
  <2>2. Stacks' = Stacks \ {head}
    BY <1>2, TakeStacks DEF Stacks, CacheInv, Exclusive
  <2>3. allocCache[t] = NULL \/ ptrs[allocCache[t]] = <<>>
    <3>1. op[t] = "insert"
      BY <1>0 DEF Control, OperationOf, PallocPC
    <3> QED
      BY <1>0, <3>1 DEF Control, OperationOf
  <2>4. KeptBy(t)' = (KeptBy(t) \ {allocCache[t]}) \cup {head}
    <3>1. allocCache[t] # NULL => allocCache[t] # freeCache[t]
      BY DEF CacheInv, Exclusive, OneEach
    <3> QED
      BY <1>0, <2>1, <3>1 DEF KeptBy, Popped
  <2>5. allocCache[t] \notin Elsewhere(t) /\ allocCache[t] # head
    <3>1. allocCache[t] # NULL => allocCache[t] \in Mine(t)
      BY DEF Mine
    <3>2. NULL \notin Stored
      BY StoredParts, ConstantTypes
    <3>3. allocCache[t] \notin Elsewhere(t)
      BY <3>1, <3>2, StoredParts
    <3>4. Mine(t) \cap Free = {}
      BY DEF CacheInv, Exclusive
    <3> QED
      BY <1>2, <2>1, <3>1, <3>3, <3>4
  <2>6. PICK K : Elsewhere(t) = Stacks \cup K /\ Elsewhere(t)' = Stacks' \cup K
    BY ElsewhereSteps
  <2>7. Stored' = Stored \ {allocCache[t]}
    BY <2>1, <2>2, <2>4, <2>5, <2>6, ElsewhereSteps
  <2> QED
    BY <1>0, <2>3, <2>7
<1> QED
  BY <1>1, <1>2, TakeStacks

-----------------------------------------------------------------------------
(* Where the objects are.                                                  *)

\* What is at the places.
LEMMA HomeContents ==
    /\ Content(InList) = linked /\ Content(Dropped) = forgotten
    /\ \A u \in Threads : Content(OwnOf(u)) = {own[u]} \ {NoObject}
    /\ \A u \in Threads, k \in Nat : Content(CallOf(u, k)) = Held(u, k)
    /\ \A c \in Caches : Content(CacheOf(c)) = Shelf(c)
  BY DEF Content, InList, Dropped, OwnOf, CallOf, CacheOf

\* What is at the places after a step.
LEMMA HomeContentsThen ==
    /\ Content(InList)' = linked' /\ Content(Dropped)' = forgotten'
    /\ \A u \in Threads : Content(OwnOf(u))' = {own'[u]} \ {NoObject}
    /\ \A u \in Threads, k \in Nat : Content(CallOf(u, k))' = Held(u, k)'
    /\ \A c \in Caches : Content(CacheOf(c))' = Shelf(c)'
  BY DEF Content, InList, Dropped, OwnOf, CallOf, CacheOf

\* The places are different.
LEMMA HomesApart ==
    /\ InList \in Homes /\ Dropped \in Homes /\ InList # Dropped
    /\ \A u \in Threads : OwnOf(u) \in Homes /\ OwnOf(u) \notin {InList, Dropped}
    /\ \A u \in Threads, k \in Nat : CallOf(u, k) \in Homes /\ CallOf(u, k) \notin {InList, Dropped}
    /\ \A c \in Caches : CacheOf(c) \in Homes /\ CacheOf(c) \notin {InList, Dropped}
    /\ \A u, v \in Threads : OwnOf(u) = OwnOf(v) => u = v
    /\ \A u, v \in Threads, k, j \in Nat : CallOf(u, k) = CallOf(v, j) => u = v /\ k = j
    /\ \A c, d \in Caches : CacheOf(c) = CacheOf(d) => c = d
    /\ \A u, v \in Threads, k \in Nat, c \in Caches :
        OwnOf(u) # CallOf(v, k) /\ OwnOf(u) # CacheOf(c) /\ CallOf(v, k) # CacheOf(c)
  BY DEF Homes, InList, Dropped, OwnOf, CallOf, CacheOf

\* The places are these.
LEMMA HomeKinds ==
    ASSUME NEW h \in Homes
    PROVE  \/ h = InList \/ h = Dropped \/ \E u \in Threads : h = OwnOf(u)
           \/ \E u \in Threads, k \in Nat : h = CallOf(u, k)
           \/ \E c \in Caches : h = CacheOf(c)
  BY DEF Homes

\* The objects of M go from the place a to the place b.
Moved(M, a, b) ==
    /\ a \in Homes /\ b \in Homes /\ a # b /\ M \subseteq Content(a)
    /\ Content(a)' = Content(a) \ M /\ Content(b)' = Content(b) \cup M
    /\ \A h \in Homes \ {a, b} : Content(h)' = Content(h)

\* A move, from what changes.
LEMMA MovedParts ==
    ASSUME NEW M, NEW a \in Homes, NEW b \in Homes, a # b, M \subseteq Content(a),
           Content(a)' = Content(a) \ M, Content(b)' = Content(b) \cup M,
           InList \notin {a, b} => linked' = linked, Dropped \notin {a, b} => forgotten' = forgotten,
           \A u \in Threads : OwnOf(u) \notin {a, b} => own'[u] = own[u],
           \A u \in Threads, k \in Nat : CallOf(u, k) \notin {a, b} => Held(u, k)' = Held(u, k),
           \A c \in Caches : CacheOf(c) \notin {a, b} => Shelf(c)' = Shelf(c)
    PROVE  Moved(M, a, b)
<1>1. ASSUME NEW h \in Homes \ {a, b} PROVE Content(h)' = Content(h)
  <2>1. CASE h = InList \/ h = Dropped
    BY <1>1, <2>1, HomeContents, HomeContentsThen
  <2>2. CASE \E u \in Threads : h = OwnOf(u)
    <3>1. PICK u \in Threads : h = OwnOf(u)
      BY <2>2
    <3>2. own'[u] = own[u]
      BY <1>1, <3>1
    <3>3. Content(OwnOf(u)) = {own[u]} \ {NoObject} /\ Content(OwnOf(u))' = {own'[u]} \ {NoObject}
      BY HomeContents, HomeContentsThen
    <3> QED
      BY <3>1, <3>2, <3>3
  <2>3. CASE \E u \in Threads, k \in Nat : h = CallOf(u, k)
    <3>1. PICK u \in Threads, k \in Nat : h = CallOf(u, k)
      BY <2>3
    <3>2. Held(u, k)' = Held(u, k)
      BY <1>1, <3>1
    <3>3. Content(CallOf(u, k)) = Held(u, k) /\ Content(CallOf(u, k))' = Held(u, k)'
      BY HomeContents, HomeContentsThen
    <3> QED
      BY <3>1, <3>2, <3>3
  <2>4. CASE \E c \in Caches : h = CacheOf(c)
    <3>1. PICK c \in Caches : h = CacheOf(c)
      BY <2>4
    <3>2. Shelf(c)' = Shelf(c)
      BY <1>1, <3>1
    <3>3. Content(CacheOf(c)) = Shelf(c) /\ Content(CacheOf(c))' = Shelf(c)'
      BY HomeContents, HomeContentsThen
    <3> QED
      BY <3>1, <3>2, <3>3
  <2> QED
    BY <1>1, <2>1, <2>2, <2>3, <2>4, HomeKinds
<1> QED
  BY <1>1 DEF Moved

\* What moves has one place again.
LEMMA MovedHome ==
    ASSUME OneHome, NEW M, NEW a, NEW b, Moved(M, a, b)
    PROVE  OneHome'
<1> SUFFICES ASSUME NEW o \in Objects
             PROVE  /\ \E h \in Homes : o \in Content(h)'
                    /\ \A h, j \in Homes : o \in Content(h)' /\ o \in Content(j)' => h = j
  BY DEF OneHome, Homes, InList, Dropped, OwnOf, CallOf, CacheOf
<1>1. PICK h \in Homes : o \in Content(h) /\ \A j \in Homes : o \in Content(j) => j = h
  BY DEF OneHome
<1>2. CASE o \in M
  BY <1>1, <1>2 DEF Moved
<1>3. CASE o \notin M
  BY <1>1, <1>3 DEF Moved
<1> QED
  BY <1>2, <1>3

\* Nothing moves.
Unmoved == \A h \in Homes : Content(h)' = Content(h)

\* Nothing moves when nothing changes.
LEMMA UnmovedParts ==
    ASSUME linked' = linked, forgotten' = forgotten, \A u \in Threads : own'[u] = own[u],
           \A u \in Threads, k \in Nat : Held(u, k)' = Held(u, k),
           \A c \in Caches : Shelf(c)' = Shelf(c)
    PROVE  Unmoved
  BY HomeKinds, HomeContents, HomeContentsThen DEF Unmoved

\* Everything stays where it is.
LEMMA UnmovedHome ==
    ASSUME OneHome, Unmoved
    PROVE  OneHome'
<1>1. Homes' = Homes
  BY DEF Homes, InList, Dropped, OwnOf, CallOf, CacheOf
<1> QED
  BY <1>1 DEF OneHome, Unmoved

\* What the calls of Recycle hold when the topmost one is replaced.
LEMMA HeldTop ==
    ASSUME NEW t \in Threads, Types, calls[t] # <<>>, NEW f \in Frames, SetTop(t, f), NEW n, n = Len(calls[t])
    PROVE  /\ n \in Nat /\ Held(t, n) = InCall(Top(t)) /\ Held(t, n)' = InCall(f)
           /\ \A u \in Threads, k \in Nat : u # t \/ k # n => Held(u, k)' = Held(u, k)
<1>1. /\ \A u \in Threads : u # t => calls'[u] = calls[u]
      /\ DOMAIN calls'[t] = DOMAIN calls[t] /\ n \in DOMAIN calls[t] /\ n \in Nat
      /\ calls'[t][n] = f /\ Top(t) = calls[t][n]
      /\ \A k \in DOMAIN calls[t] : k # n => calls'[t][k] = calls[t][k]
  BY TopSet
<1>2. Held(t, n) = InCall(Top(t))
  BY <1>1 DEF Held
<1>3. Held(t, n)' = InCall(f)
  BY <1>1 DEF Held, InCall
<1>4. \A k \in Nat : k # n => Held(t, k)' = Held(t, k)
  BY <1>1 DEF Held, InCall
<1>5. \A u \in Threads, k \in Nat : u # t => Held(u, k)' = Held(u, k)
  BY <1>1 DEF Held, InCall
<1> QED
  BY <1>1, <1>2, <1>3, <1>4, <1>5

\* A call that begins or ends holds nothing.
LEMMA HeldNothing ==
    ASSUME NEW t \in Threads, Types,
           \/ UNCHANGED calls
           \/ Trigger(t)
           \/ Return(t) /\ calls[t] # <<>> /\ Top(t) = NewCall
    PROVE  \A u \in Threads, k \in Nat : Held(u, k)' = Held(u, k)
<1>0. InCall(NewCall) = {}
  BY ShortSequences DEF InCall, NewCall
<1>1. CASE UNCHANGED calls
  BY <1>1 DEF Held
<1>2. CASE Trigger(t)
  <2> DEFINE n == Len(calls[t])
  <2>1. /\ \A u \in Threads : u # t => calls'[u] = calls[u]
        /\ DOMAIN calls'[t] = 1 .. n + 1 /\ DOMAIN calls[t] = 1 .. n /\ n \in Nat
        /\ calls'[t][n + 1] = NewCall
        /\ \A k \in 1 .. n : calls'[t][k] = calls[t][k]
    BY <1>2, CallBegun
  <2>2. \A k \in Nat : (k \in 1 .. n + 1 <=> k \in 1 .. n \/ k = n + 1) /\ ~ (n + 1 \in 1 .. n)
    BY <2>1
  <2> HIDE DEF n
  <2>3. \A k \in Nat : Held(t, k)' = Held(t, k)
    BY <1>0, <2>1, <2>2 DEF Held, InCall
  <2> QED
    BY <2>1, <2>3 DEF Held
<1>3. CASE Return(t) /\ calls[t] # <<>> /\ Top(t) = NewCall
  <2> DEFINE n == Len(calls[t])
  <2>1. /\ \A u \in Threads : u # t => calls'[u] = calls[u]
        /\ DOMAIN calls'[t] = 1 .. n - 1 /\ DOMAIN calls[t] = 1 .. n /\ n \in Nat \ {0}
        /\ calls[t][n] = NewCall
        /\ \A k \in 1 .. n - 1 : calls'[t][k] = calls[t][k]
    BY <1>3, CallReturned, TopFrame
  <2>2. \A k \in Nat : (k \in 1 .. n <=> k \in 1 .. n - 1 \/ k = n) /\ ~ (n \in 1 .. n - 1)
    BY <2>1
  <2> HIDE DEF n
  <2>3. \A k \in Nat : Held(t, k)' = Held(t, k)
    BY <1>0, <2>1, <2>2 DEF Held, InCall
  <2> QED
    BY <2>1, <2>3 DEF Held
<1> QED
  BY <1>1, <1>2, <1>3

\* Which steps change the list, what is forgotten, and what operations have.
LEMMA HoldingsSame ==
    ASSUME NEW t \in Threads, Step(t),
           ~ (PFree(t) \/ PushCas(t) \/ UnlinkCache(t) \/ WalkToInsert(t) \/ Restart(t) \/ Cas(t) \/ Finish(t))
    PROVE  UNCHANGED <<linked, forgotten, own>>
<1> USE DEF operation
<1>1. Freeze(t) \/ LoadHead(t) \/ Move(t) \/ Unfreeze(t) \/ Look(t) \/ Stamp(t) \/ Save(t) \/ Pop(t) \/ Follow(t)
      => UNCHANGED <<linked, forgotten, own>>
  BY DEF Freeze, LoadHead, Move, Unfreeze, Look, Stamp, Save, Pop, Follow
<1>2. PopCas(t) \/ Repair(t) \/ Scan(t) \/ EndScan(t) \/ GiveCas(t) \/ PushLink(t) \/ PopHead(t) \/ HeadCas(t)
      => UNCHANGED <<linked, forgotten, own>>
  BY DEF PopCas, Repair, Scan, EndScan, GiveCas, PushLink, PopHead, HeadCas
<1>3. Clear(t) \/ Search(t) \/ WalkToUnlink(t) \/ Publish(t) \/ Fence(t) => UNCHANGED <<linked, forgotten, own>>
  BY DEF Clear, Search, vars, WalkToUnlink, Publish, Fence
<1> QED
  BY <1>1, <1>2, <1>3 DEF Step

\* Which steps change the calls of Recycle.
LEMMA CallsSame ==
    ASSUME NEW t \in Threads, Step(t),
           ~ (Pop(t) \/ Repair(t) \/ Scan(t) \/ EndScan(t) \/ GiveCas(t) \/ PFree(t) \/ PushCas(t)
              \/ PushLink(t) \/ PopHead(t))
    PROVE  UNCHANGED calls
<1>1. Freeze(t) \/ LoadHead(t) \/ Move(t) \/ Unfreeze(t) \/ Look(t) \/ Stamp(t) \/ Save(t) \/ Follow(t) \/ PopCas(t)
      => UNCHANGED calls
  BY DEF Freeze, LoadHead, Move, Unfreeze, Look, Stamp, Save, Follow, PopCas
<1>2. HeadCas(t) \/ UnlinkCache(t) \/ Clear(t) \/ Search(t) \/ WalkToUnlink(t) \/ WalkToInsert(t) => UNCHANGED calls
  BY DEF HeadCas, UnlinkCache, Clear, Search, vars, WalkToUnlink, WalkToInsert
<1>3. Publish(t) \/ Fence(t) \/ Restart(t) \/ Cas(t) \/ Finish(t) => UNCHANGED calls
  BY DEF Publish, Fence, Restart, Cas, Finish
<1> QED
  BY <1>1, <1>2, <1>3 DEF Step

\* A call takes what is in the popped cache.
LEMMA RepairTop ==
    ASSUME NEW t \in Threads, Types, Control, Repair(t)
    PROVE  /\ calls[t] # <<>> /\ Top(t) = NewCall /\ reg[t].head \in Caches
           /\ \E f \in Frames : /\ SetTop(t, f) /\ f.entry = reg[t].head /\ f.rest = ptrs[reg[t].head]
                                /\ f.kept = <<>> /\ f.obj = NoObject
<1> DEFINE e == reg[t].head
           f == [NewCall EXCEPT !.entry = e, !.rest = ptrs[e]]
<1>0. pc[t] = "repair"
  BY DEF Repair
<1>1. e \in Caches /\ calls[t] # <<>>
  BY <1>0 DEF Control, RegistersOf, CallsOf, ListPC, PallocPC, FreePC
<1>2. Top(t) = NewCall
  BY <1>0, <1>1, TopFrame DEF Control, CallsOf, FreePC, ScanPC
<1>3. f \in Frames /\ f.entry = e /\ f.rest = ptrs[e] /\ f.kept = <<>> /\ f.obj = NoObject
  <2>1. ptrs[e] \in Seq(Objects) /\ e \in Pointers
    BY <1>1, ConstantTypes DEF Types
  <2> QED
    BY <2>1, ConstantTypes DEF Frames, NewCall, ObjectOrNone
<1>4. SetTop(t, f)
  BY DEF Repair
<1> HIDE DEF f, e
<1>5. f \in Frames /\ SetTop(t, f) /\ f.entry = e /\ f.rest = ptrs[e] /\ f.kept = <<>> /\ f.obj = NoObject
  BY <1>3, <1>4
<1> QED
  BY <1>1, <1>2, <1>5 DEF e

\* The next object of a call is kept, or is given to pfree because it is under a hazard pointer.
LEMMA ScanTop ==
    ASSUME NEW t \in Threads, Types, Control, Scan(t)
    PROVE  /\ calls[t] # <<>> /\ Top(t) \in Frames /\ Scanning(Top(t)) /\ Top(t).rest # <<>>
           /\ \E f \in Frames :
                /\ SetTop(t, f) /\ f.entry = Top(t).entry /\ f.rest = Tail(Top(t).rest)
                /\ \/ /\ Head(Top(t).rest) \in hps[t] /\ pc'[t] = "pfree"
                      /\ f.kept = Top(t).kept /\ f.obj = Head(Top(t).rest)
                   \/ /\ Head(Top(t).rest) \notin hps[t] /\ pc'[t] = "scan"
                      /\ f.kept = Append(Top(t).kept, Head(Top(t).rest)) /\ f.obj = NoObject
<1> DEFINE o == Head(Top(t).rest)
           f == [Top(t) EXCEPT !.rest = Tail(@)]
<1>0. pc[t] = "scan" /\ Top(t).rest # <<>>
  BY DEF Scan
<1>1. calls[t] # <<>> /\ Scanning(Top(t))
  BY <1>0, OwnCachesMine DEF Control, ScanPC
<1>2. Top(t) \in Frames
  BY <1>1, TopFrame
<1>3. o \in Objects /\ Tail(Top(t).rest) \in Seq(Objects)
  BY <1>0, <1>2, FirstTaken DEF Frames
<1>4. /\ f \in Frames /\ f.kept \in Seq(Objects) /\ f.entry = Top(t).entry /\ f.obj = NoObject
      /\ f.rest = Tail(Top(t).rest) /\ f.kept = Top(t).kept
  BY <1>1, <1>2, <1>3 DEF Frames, Scanning
<1>5. Append(f.kept, o) \in Seq(Objects) /\ o \in ObjectOrNone
  BY <1>3, <1>4, AppendProperties DEF ObjectOrNone
<1>6. \/ o \in hps[t] /\ SetTop(t, [f EXCEPT !.obj = o]) /\ pc'[t] = "pfree"
      \/ o \notin hps[t] /\ SetTop(t, [f EXCEPT !.kept = Append(@, o)]) /\ pc'[t] = "scan"
  BY <1>0 DEF Scan, Goto, Types
<1> HIDE DEF f, o
<1>7. CASE o \in hps[t] /\ SetTop(t, [f EXCEPT !.obj = o]) /\ pc'[t] = "pfree"
  <2> DEFINE g == [f EXCEPT !.obj = o]
  <2>1. g \in Frames /\ g.entry = f.entry /\ g.rest = f.rest /\ g.kept = f.kept /\ g.obj = o /\ SetTop(t, g)
    BY <1>4, <1>5, <1>7 DEF Frames
  <2> HIDE DEF g
  <2> QED
    BY <1>0, <1>1, <1>2, <1>4, <1>7, <2>1 DEF o
<1>8. CASE o \notin hps[t] /\ SetTop(t, [f EXCEPT !.kept = Append(@, o)]) /\ pc'[t] = "scan"
  <2> DEFINE g == [f EXCEPT !.kept = Append(@, o)]
  <2>1. /\ g \in Frames /\ g.entry = f.entry /\ g.rest = f.rest /\ g.kept = Append(f.kept, o) /\ g.obj = NoObject
        /\ SetTop(t, g)
    BY <1>4, <1>5, <1>8 DEF Frames
  <2> HIDE DEF g
  <2> QED
    BY <1>0, <1>1, <1>2, <1>4, <1>8, <2>1 DEF o
<1> QED
  BY <1>6, <1>7, <1>8

\* The end of a call's loop: an empty cache is dropped, the other one holds what was kept.
LEMMA EndTop ==
    ASSUME NEW t \in Threads, Types, Control, EndScan(t)
    PROVE  /\ calls[t] # <<>> /\ Top(t) \in Frames /\ Scanning(Top(t)) /\ Top(t).rest = <<>>
           /\ ptrs' = [ptrs EXCEPT ![Top(t).entry] = Top(t).kept]
           /\ \/ Top(t).kept = <<>> /\ SetTop(t, NewCall)
              \/ UNCHANGED calls
<1>0. pc[t] = "scan" /\ Top(t).rest = <<>>
  BY DEF EndScan
<1>1. calls[t] # <<>> /\ Scanning(Top(t))
  BY <1>0, OwnCachesMine DEF Control, ScanPC
<1>2. Top(t) \in Frames
  BY <1>1, TopFrame
<1> QED
  BY <1>0, <1>1, <1>2 DEF EndScan

\* What is in the hands of a call.
LEMMA InCallParts ==
    /\ InCall(NewCall) = {}
    /\ \A f \in Frames : InCall(f) \subseteq Objects
    /\ \A f \in Frames : f.rest = <<>> /\ f.obj = NoObject => InCall(f) = Range(f.kept)
    /\ \A f \in Frames : f.kept = <<>> /\ f.obj = NoObject => InCall(f) = Range(f.rest)
<1>1. InCall(NewCall) = {}
  BY ShortSequences DEF InCall, NewCall
<1>2. ASSUME NEW f \in Frames PROVE f.rest \in Seq(Objects) /\ f.kept \in Seq(Objects) /\ f.obj \in ObjectOrNone
  BY DEF Frames
<1>3. \A f \in Frames : InCall(f) \subseteq Objects
  BY <1>2, ShortSequences DEF InCall, ObjectOrNone
<1>4. \A f \in Frames : f.rest = <<>> /\ f.obj = NoObject => InCall(f) = Range(f.kept)
  BY ShortSequences DEF InCall
<1>5. \A f \in Frames : f.kept = <<>> /\ f.obj = NoObject => InCall(f) = Range(f.rest)
  BY ShortSequences DEF InCall
<1> QED
  BY <1>1, <1>3, <1>4, <1>5

\* The object that Recycle looks at stays with the call.
LEMMA ScanHeld ==
    ASSUME NEW t \in Threads, Types, Control, Scan(t)
    PROVE  \A u \in Threads, k \in Nat : Held(u, k)' = Held(u, k)
<1>1. PICK f \in Frames :
        /\ SetTop(t, f) /\ f.rest = Tail(Top(t).rest)
        /\ \/ f.kept = Top(t).kept /\ f.obj = Head(Top(t).rest)
           \/ f.kept = Append(Top(t).kept, Head(Top(t).rest)) /\ f.obj = NoObject
  BY ScanTop
<1>2. calls[t] # <<>> /\ Top(t) \in Frames /\ Scanning(Top(t)) /\ Top(t).rest # <<>>
  BY ScanTop
<1>3. /\ Top(t).rest \in Seq(Objects) /\ Top(t).kept \in Seq(Objects) /\ Top(t).obj = NoObject
      /\ Head(Top(t).rest) \in Objects /\ Range(Top(t).rest) = Range(Tail(Top(t).rest)) \cup {Head(Top(t).rest)}
  <2>1. Top(t).rest \in Seq(Objects) /\ Top(t).kept \in Seq(Objects) /\ Top(t).obj = NoObject
    BY <1>2 DEF Frames, Scanning
  <2> QED
    BY <1>2, <2>1, FirstTaken
<1>4. Range(Append(Top(t).kept, Head(Top(t).rest))) = Range(Top(t).kept) \cup {Head(Top(t).rest)}
  BY <1>3, Appended
<1>5. InCall(f) = InCall(Top(t))
  <2>1. NoObject \notin Objects
    BY ConstantTypes
  <2> QED
    BY <1>1, <1>3, <1>4, <2>1 DEF InCall
<1>6. PICK n : n = Len(calls[t])
  OBVIOUS
<1>7. /\ Held(t, n)' = Held(t, n)
      /\ \A u \in Threads, k \in Nat : u # t \/ k # n => Held(u, k)' = Held(u, k)
  BY <1>1, <1>2, <1>5, <1>6, HeldTop
<1> QED
  BY <1>7

\* A dropped cache held nothing.
LEMMA EndHeld ==
    ASSUME NEW t \in Threads, Types, Control, EndScan(t)
    PROVE  \A u \in Threads, k \in Nat : Held(u, k)' = Held(u, k)
<1>1. CASE UNCHANGED calls
  BY <1>1, HeldNothing
<1>2. CASE Top(t).kept = <<>> /\ SetTop(t, NewCall)
  <2>1. calls[t] # <<>> /\ Top(t) \in Frames /\ Scanning(Top(t)) /\ Top(t).rest = <<>>
    BY EndTop
  <2>2. InCall(Top(t)) = {}
    BY <1>2, <2>1, InCallParts, ShortSequences DEF Scanning
  <2>a. PICK f \in Frames : InCall(f) = {} /\ SetTop(t, f)
    BY <1>2, InCallParts, ConstantTypes
  <2>b. InCall(f) = InCall(Top(t))
    BY <2>2, <2>a
  <2>3. PICK n : n = Len(calls[t])
    OBVIOUS
  <2>4. /\ Held(t, n)' = Held(t, n)
        /\ \A u \in Threads, k \in Nat : u # t \/ k # n => Held(u, k)' = Held(u, k)
    BY <2>1, <2>a, <2>b, <2>3, HeldTop
  <2> QED
    BY <2>4
<1> QED
  BY <1>1, <1>2, EndTop

\* The steps that move no object.
LEMMA StepsUnmoved ==
    ASSUME NEW t \in Threads, Types, Types', Control, Versions, CacheInv, Step(t),
           ~ (Repair(t) \/ GiveCas(t) \/ PFree(t) \/ PushCas(t) \/ UnlinkCache(t) \/ WalkToInsert(t)
              \/ Restart(t) \/ Cas(t) \/ Finish(t))
    PROVE  Unmoved
<1>1. UNCHANGED <<linked, forgotten, own>>
  BY HoldingsSame
<1>2. \A c \in Caches : Shelf(c)' = Shelf(c)
  <2>1. CASE HeadCas(t)
    <3>1. \A c \in Caches : c \in Stored' <=> c \in Stored /\ (Stored' = Stored \/ c # allocCache[t])
      BY <2>1, TakeStored
    <3>2. ptrs' = ptrs /\ (Stored' # Stored /\ allocCache[t] # NULL => Range(ptrs[allocCache[t]]) = {})
      BY <2>1, TakeStored, ShortSequences
    <3>3. NULL \notin Caches
      BY ConstantTypes
    <3> QED
      BY <3>1, <3>2, <3>3 DEF Shelf
  <2>2. CASE ~ HeadCas(t)
    BY <2>2, StoredSame, ContentsSame DEF Shelf
  <2> QED
    BY <2>1, <2>2
<1>3. \A u \in Threads, k \in Nat : Held(u, k)' = Held(u, k)
  <2>1. CASE Pop(t)
    <3>1. UNCHANGED calls \/ Return(t)
      BY <2>1 DEF Pop
    <3>2. pc[t] = "pop"
      BY <2>1 DEF Pop
    <3>3. calls[t] # <<>>
      BY <3>2 DEF Control, CallsOf, ListPC, PallocPC, FreePC
    <3>4. Top(t) = NewCall
      BY <3>2, <3>3, TopFrame DEF Control, CallsOf, FreePC, ScanPC
    <3> QED
      BY <3>1, <3>3, <3>4, HeldNothing
  <2>2. CASE PushLink(t) \/ PopHead(t)
    <3>1. UNCHANGED calls \/ Trigger(t)
      BY <2>2 DEF PushLink, PopHead
    <3> QED
      BY <3>1, HeldNothing
  <2>3. CASE ~ (Pop(t) \/ PushLink(t) \/ PopHead(t) \/ Scan(t) \/ EndScan(t))
    BY <2>3, CallsSame, HeldNothing
  <2> QED
    BY <2>1, <2>2, <2>3, ScanHeld, EndHeld
<1> QED
  BY <1>1, <1>2, <1>3, UnmovedParts

\* The objects of a popped cache come into the hands of a call.
LEMMA RepairMoves ==
    ASSUME NEW t \in Threads, Types, Types', Control, Versions, CacheInv, Step(t), Repair(t)
    PROVE  \E M, a, b : Moved(M, a, b)
<1>1. PICK e \in Caches : e = reg[t].head
  BY RepairTop
<1>2. PICK n : n = Len(calls[t])
  OBVIOUS
<1>3. PICK f \in Frames : SetTop(t, f) /\ f.rest = ptrs[e] /\ f.kept = <<>> /\ f.obj = NoObject
  BY <1>1, RepairTop
<1>4. calls[t] # <<>> /\ Top(t) = NewCall
  BY RepairTop
<1>5. /\ n \in Nat /\ Held(t, n) = InCall(NewCall) /\ Held(t, n)' = InCall(f)
      /\ \A u \in Threads, k \in Nat : u # t \/ k # n => Held(u, k)' = Held(u, k)
  BY <1>2, <1>3, <1>4, HeldTop
<1>6. InCall(NewCall) = {} /\ InCall(f) = Range(ptrs[e])
  BY <1>3, InCallParts
<1>7. e \in Stored /\ Stored' = Stored \ {e} /\ ptrs' = ptrs
  BY <1>1, RepairStored
<1>8. Shelf(e) = Range(ptrs[e]) /\ Shelf(e)' = {} /\ \A c \in Caches : c # e => Shelf(c)' = Shelf(c)
  BY <1>7 DEF Shelf
<1>9. UNCHANGED <<linked, forgotten, own>>
  BY DEF Repair, operation
<1>10. PICK M : M = Range(ptrs[e])
  OBVIOUS
<1>11. /\ Content(CacheOf(e)) = M /\ Content(CacheOf(e))' = {}
       /\ Content(CallOf(t, n)) = {} /\ Content(CallOf(t, n))' = M
  BY <1>5, <1>6, <1>8, <1>10, HomeContents, HomeContentsThen
<1>12. /\ CacheOf(e) \in Homes /\ CallOf(t, n) \in Homes /\ CacheOf(e) # CallOf(t, n)
       /\ \A c \in Caches : CacheOf(c) \notin {CacheOf(e), CallOf(t, n)} => c # e
       /\ \A u \in Threads, k \in Nat : CallOf(u, k) \notin {CacheOf(e), CallOf(t, n)} => u # t \/ k # n
  BY <1>5, HomesApart
<1>13. Moved(M, CacheOf(e), CallOf(t, n))
  BY <1>5, <1>8, <1>9, <1>11, <1>12, MovedParts
<1> QED
  BY <1>13

\* The objects that a call has kept are in the cache again.
LEMMA GiveMoves ==
    ASSUME NEW t \in Threads, Types, Types', Control, Versions, CacheInv, Step(t), GiveCas(t)
    PROVE  Unmoved \/ \E M, a, b : Moved(M, a, b)
<1>9. UNCHANGED <<linked, forgotten, own>>
  BY DEF GiveCas, operation
<1>a. CASE Stored' = Stored /\ UNCHANGED calls
  <2>1. \A c \in Caches : Shelf(c)' = Shelf(c)
    BY <1>a, GiveStored DEF Shelf
  <2>2. \A u \in Threads, k \in Nat : Held(u, k)' = Held(u, k)
    BY <1>a, HeldNothing
  <2> QED
    BY <1>9, <2>1, <2>2, UnmovedParts
<1>b. CASE /\ Stored' = Stored \cup {Top(t).entry} /\ Top(t).entry \notin Stored /\ Top(t).entry \in Caches
           /\ SetTop(t, NewCall) /\ calls[t] # <<>>
  <2>1. PICK e \in Caches : e = Top(t).entry
    BY <1>b
  <2>2. PICK n : n = Len(calls[t])
    OBVIOUS
  <2>3. PICK f \in Frames : SetTop(t, f) /\ InCall(f) = {}
    BY <1>b, InCallParts, ConstantTypes
  <2>4. PICK M : M = InCall(Top(t))
    OBVIOUS
  <2>5. /\ n \in Nat /\ Held(t, n) = M /\ Held(t, n)' = {}
        /\ \A u \in Threads, k \in Nat : u # t \/ k # n => Held(u, k)' = Held(u, k)
    BY <1>b, <2>2, <2>3, <2>4, HeldTop
  <2>6. M = Range(ptrs[e])
    <3>1. pc[t] = "giveCas"
      BY DEF GiveCas
    <3>2. Scanning(Top(t)) /\ Top(t) \in Frames /\ Top(t).rest = <<>> /\ ptrs[e] = Top(t).kept
      BY <1>b, <2>1, <3>1, OwnCachesMine, TopFrame DEF Control, CallsOf, ScanPC
    <3> QED
      BY <2>4, <3>2, InCallParts DEF Scanning
  <2>8. Shelf(e) = {} /\ Shelf(e)' = M /\ \A c \in Caches : c # e => Shelf(c)' = Shelf(c)
    BY <1>b, <2>1, <2>6, GiveStored DEF Shelf
  <2>11. /\ Content(CacheOf(e)) = {} /\ Content(CacheOf(e))' = M
         /\ Content(CallOf(t, n)) = M /\ Content(CallOf(t, n))' = {}
    BY <2>5, <2>8, HomeContents, HomeContentsThen
  <2>12. /\ CacheOf(e) \in Homes /\ CallOf(t, n) \in Homes /\ CacheOf(e) # CallOf(t, n)
         /\ \A c \in Caches : CacheOf(c) \notin {CacheOf(e), CallOf(t, n)} => c # e
         /\ \A u \in Threads, k \in Nat : CallOf(u, k) \notin {CacheOf(e), CallOf(t, n)} => u # t \/ k # n
    BY <2>5, HomesApart
  <2>13. Moved(M, CallOf(t, n), CacheOf(e))
    BY <1>9, <2>5, <2>8, <2>11, <2>12, MovedParts
  <2> QED
    BY <2>13
<1> QED
  BY <1>a, <1>b, GiveStored

\* pfree puts the object of the operation, or of a call, into a cache.
LEMMA FreedMoves ==
    ASSUME NEW t \in Threads, Types, Types', Control, NoneTwice, pc[t] \in FreePC \cup {"retire"}, FreeReturns(t),
           UNCHANGED <<linked, forgotten>>, NEW c \in Caches, Shelf(c)' = Shelf(c) \cup {Argument(t)},
           \A d \in Caches : d # c => Shelf(d)' = Shelf(d)
    PROVE  \E M, a, b : Moved(M, a, b)
<1>1. PICK o : o = Argument(t)
  OBVIOUS
<1>2. o \in Objects /\ o # NoObject
  BY <1>1, ArgumentObject, ConstantTypes
<1>3. Content(CacheOf(c))' = Content(CacheOf(c)) \cup {o}
  BY <1>1, HomeContents, HomeContentsThen
<1>4. CASE calls[t] = <<>>
  <2>1. UNCHANGED calls /\ own[t] = o /\ own' = [own EXCEPT ![t] = NoObject]
    BY <1>1, <1>4, FreeReturned DEF Argument
  <2>2. own'[t] = NoObject /\ \A u \in Threads : u # t => own'[u] = own[u]
    BY <2>1 DEF Types
  <2>3. \A u \in Threads, k \in Nat : Held(u, k)' = Held(u, k)
    BY <2>1, HeldNothing
  <2>4. Content(OwnOf(t)) = {o} /\ Content(OwnOf(t))' = {}
    BY <1>2, <2>1, <2>2, HomeContents, HomeContentsThen
  <2>5. /\ CacheOf(c) \in Homes /\ OwnOf(t) \in Homes /\ CacheOf(c) # OwnOf(t)
        /\ \A d \in Caches : CacheOf(d) \notin {OwnOf(t), CacheOf(c)} => d # c
        /\ \A u \in Threads : OwnOf(u) \notin {OwnOf(t), CacheOf(c)} => u # t
    BY HomesApart
  <2>6. Moved({o}, OwnOf(t), CacheOf(c))
    BY <1>3, <2>2, <2>3, <2>4, <2>5, MovedParts
  <2> QED
    BY <2>6
<1>5. CASE calls[t] # <<>>
  <2>0. pc[t] \in FreePC
    BY <1>5 DEF Control, CallsOf, ListPC
  <2>1. PICK f \in Frames : f = [Top(t) EXCEPT !.obj = NoObject] /\ SetTop(t, f)
    BY <1>5, FreeReturned
  <2>2. UNCHANGED own
    BY <1>5, FreeReturned
  <2>3. PICK n : n = Len(calls[t])
    OBVIOUS
  <2>4. /\ n \in Nat /\ Held(t, n) = InCall(Top(t)) /\ Held(t, n)' = InCall(f)
        /\ \A u \in Threads, k \in Nat : u # t \/ k # n => Held(u, k)' = Held(u, k)
    BY <1>5, <2>1, <2>3, HeldTop
  <2>5. Top(t) \in Frames /\ Top(t).obj = o /\ o \notin Range(Top(t).rest) \cup Range(Top(t).kept)
    BY <1>1, <1>5, TopFrame DEF Argument, NoneTwice, Distinct
  <2>6. f.rest = Top(t).rest /\ f.kept = Top(t).kept /\ f.obj = NoObject
    BY <2>1, <2>5 DEF Frames
  <2>7. PICK A, B : A = InCall(Top(t)) /\ B = InCall(f)
    OBVIOUS
  <2>8. B = A \ {o} /\ o \in A
    BY <1>2, <2>5, <2>6, <2>7 DEF InCall
  <2>9. Content(CallOf(t, n)) = A /\ Content(CallOf(t, n))' = A \ {o}
    BY <2>4, <2>7, <2>8, HomeContents, HomeContentsThen
  <2>10. /\ CacheOf(c) \in Homes /\ CallOf(t, n) \in Homes /\ CacheOf(c) # CallOf(t, n)
         /\ \A d \in Caches : CacheOf(d) \notin {CallOf(t, n), CacheOf(c)} => d # c
         /\ \A u \in Threads, k \in Nat : CallOf(u, k) \notin {CallOf(t, n), CacheOf(c)} => u # t \/ k # n
    BY <2>4, HomesApart
  <2>11. Moved({o}, CallOf(t, n), CacheOf(c))
    BY <1>3, <2>2, <2>4, <2>8, <2>9, <2>10, MovedParts
  <2> QED
    BY <2>11
<1> QED
  BY <1>4, <1>5

\* The steps of pfree.
LEMMA FreeMoves ==
    ASSUME NEW t \in Threads, Types, Types', Control, Versions, CacheInv, NoneTwice, Step(t), PFree(t) \/ PushCas(t)
    PROVE  Unmoved \/ \E M, a, b : Moved(M, a, b)
<1>0. pc[t] \in FreePC \cup {"retire"}
  BY MutatorPlaces DEF FreePC
<1>1. UNCHANGED <<linked, forgotten>>
  BY DEF PFree, PushCas
<1>2. CASE Stored' = Stored /\ ptrs' = ptrs /\ UNCHANGED <<own, op, calls>>
  <2>1. \A c \in Caches : Shelf(c)' = Shelf(c)
    BY <1>2 DEF Shelf
  <2>2. \A u \in Threads, k \in Nat : Held(u, k)' = Held(u, k)
    BY <1>2, HeldNothing
  <2> QED
    BY <1>1, <1>2, <2>1, <2>2, UnmovedParts
<1>3. CASE /\ Stored' = Stored /\ FreeReturns(t) /\ freeCache[t] \in Stored
           /\ ptrs' = [ptrs EXCEPT ![freeCache[t]] = Append(@, Argument(t))]
  <2>1. PICK c \in Caches : c = freeCache[t] /\ c \in Stored
    BY <1>3, StoredParts
  <2>2. ptrs[c] \in Seq(Objects) /\ Argument(t) \in Objects /\ ptrs'[c] = Append(ptrs[c], Argument(t))
    BY <1>0, <1>3, <2>1, ArgumentObject DEF Types
  <2>3. Shelf(c)' = Shelf(c) \cup {Argument(t)}
    BY <1>3, <2>1, <2>2, Appended DEF Shelf
  <2>4. \A d \in Caches : d # c => Shelf(d)' = Shelf(d)
    BY <1>3, <2>1 DEF Shelf, Types
  <2> QED
    BY <1>0, <1>1, <1>3, <2>3, <2>4, FreedMoves
<1>4. ASSUME NEW c \in Fresh, Stored' = Stored \cup {c}, ptrs' = [ptrs EXCEPT ![c] = <<Argument(t)>>], FreeReturns(t)
      PROVE  \E M, a, b : Moved(M, a, b)
  <2>1. c \in Caches /\ c \notin Stored
    BY StoredParts, FreshCache
  <2>2. Argument(t) \in Objects /\ ptrs'[c] = <<Argument(t)>>
    BY <1>0, <1>4, <2>1, ArgumentObject DEF Types
  <2>3. Shelf(c)' = Shelf(c) \cup {Argument(t)}
    BY <1>4, <2>1, <2>2, ShortSequences DEF Shelf
  <2>4. \A d \in Caches : d # c => Shelf(d)' = Shelf(d)
    BY <1>4 DEF Shelf, Types
  <2> QED
    BY <1>0, <1>1, <1>4, <2>1, <2>3, <2>4, FreedMoves
<1>5. CASE PFree(t)
  BY <1>2, <1>3, <1>4, <1>5, FreeStored
<1>6. CASE PushCas(t)
  BY <1>2, <1>4, <1>6, PushStored
<1> QED
  BY <1>5, <1>6

\* palloc takes an object out of a cache.
LEMMA AllocMoves ==
    ASSUME NEW t \in Threads, Types, Types', Control, Versions, CacheInv, NoneTwice, Step(t),
           UnlinkCache(t) \/ WalkToInsert(t)
    PROVE  Unmoved \/ \E M, a, b : Moved(M, a, b)
<1>0. /\ UNCHANGED <<linked, forgotten, calls>> /\ TakeOrPop(t) /\ Stored' = Stored
  <2>1. Stored' = Stored
    BY StoredSame, MutatorPlaces, CollectPlaces
  <2> QED
    BY <2>1 DEF UnlinkCache, WalkToInsert
<1>1. \A u \in Threads, k \in Nat : Held(u, k)' = Held(u, k)
  BY <1>0, HeldNothing
<1>2. own[t] = NoObject
  BY DEF UnlinkCache, WalkToInsert, Control, OperationOf, PallocPC
<1>3. CASE UNCHANGED <<own, ptrs>>
  BY <1>0, <1>1, <1>3, UnmovedParts DEF Shelf
<1>4. CASE /\ allocCache[t] \in Caches /\ ptrs[allocCache[t]] \in Seq(Objects) /\ ptrs[allocCache[t]] # <<>>
           /\ own' = [own EXCEPT ![t] = ptrs[allocCache[t]][Len(ptrs[allocCache[t]])]]
           /\ ptrs' = [ptrs EXCEPT ![allocCache[t]] = SubSeq(@, 1, Len(@) - 1)]
  <2>1. PICK c \in Caches : c = allocCache[t]
    BY <1>4
  <2>2. PICK o : o = ptrs[c][Len(ptrs[c])]
    OBVIOUS
  <2>3. c \in Stored
    BY <2>1, StoredParts, ConstantTypes DEF KeptBy
  <2>4. o \in Range(ptrs[c]) /\ o \in Objects
    BY <1>4, <2>1, <2>2, LastTaken
  <2>5. Range(SubSeq(ptrs[c], 1, Len(ptrs[c]) - 1)) = Range(ptrs[c]) \ {o}
    BY <1>4, <2>1, <2>2, <2>3, LastTaken DEF NoneTwice
  <2>6. ptrs'[c] = SubSeq(ptrs[c], 1, Len(ptrs[c]) - 1) /\ \A d \in Caches : d # c => ptrs'[d] = ptrs[d]
    BY <1>4, <2>1 DEF Types
  <2>7. o \in Shelf(c) /\ Shelf(c)' = Shelf(c) \ {o} /\ \A d \in Caches : d # c => Shelf(d)' = Shelf(d)
    BY <1>0, <2>3, <2>4, <2>5, <2>6 DEF Shelf
  <2>8. own'[t] = o /\ \A u \in Threads : u # t => own'[u] = own[u]
    BY <1>4, <2>1, <2>2 DEF Types
  <2>9. /\ Content(CacheOf(c)) = Shelf(c) /\ Content(CacheOf(c))' = Content(CacheOf(c)) \ {o}
        /\ Content(OwnOf(t)) = {} /\ Content(OwnOf(t))' = {o}
    BY <1>2, <2>4, <2>7, <2>8, HomeContents, HomeContentsThen, ConstantTypes
  <2>10. /\ CacheOf(c) \in Homes /\ OwnOf(t) \in Homes /\ CacheOf(c) # OwnOf(t)
         /\ \A d \in Caches : CacheOf(d) \notin {CacheOf(c), OwnOf(t)} => d # c
         /\ \A u \in Threads : OwnOf(u) \notin {CacheOf(c), OwnOf(t)} => u # t
    BY HomesApart
  <2>11. Moved({o}, CacheOf(c), OwnOf(t))
    BY <1>0, <1>1, <2>7, <2>8, <2>9, <2>10, MovedParts
  <2> QED
    BY <2>11
<1> QED
  BY <1>0, <1>3, <1>4, Taken

\* An operation gives its object to the list, to a cache, or forgets it; or takes one out of the list.
LEMMA ListMoves ==
    ASSUME NEW t \in Threads, Types, Types', Control, Versions, CacheInv, Step(t),
           Restart(t) \/ Cas(t) \/ Finish(t)
    PROVE  Unmoved \/ \E M, a, b : Moved(M, a, b)
<1>0. Stored' = Stored /\ UNCHANGED calls
  <2>1. Stored' = Stored
    BY StoredSame, MutatorPlaces, CollectPlaces
  <2> QED
    BY <2>1 DEF Restart, Cas, Finish
<1>1. \A u \in Threads, k \in Nat : Held(u, k)' = Held(u, k)
  BY <1>0, HeldNothing
<1>a. OperationOf(t) /\ op[t] \in {"none", "insert", "unlink"} /\ NoObject \notin Objects
  BY ConstantTypes DEF Control, Types
<1>b. /\ OwnOf(t) \in Homes /\ InList \in Homes /\ Dropped \in Homes
      /\ OwnOf(t) # InList /\ OwnOf(t) # Dropped /\ InList # Dropped
      /\ \A u \in Threads : OwnOf(u) \notin {OwnOf(t)} => u # t
  BY HomesApart
<1>2. CASE Restart(t)
  <2>1. PICK M : M = {own[t]} \ {NoObject}
    OBVIOUS
  <2>2. linked' = linked /\ forgotten' = forgotten \cup M /\ own' = [own EXCEPT ![t] = NoObject]
    BY <1>2, <2>1 DEF Restart
  <2>3. own'[t] = NoObject /\ \A u \in Threads : u # t => own'[u] = own[u]
    BY <2>2 DEF Types
  <2>4. \A c \in Caches : Shelf(c)' = Shelf(c)
    BY <1>0, <1>2 DEF Restart, caches, Shelf
  <2>5. /\ Content(OwnOf(t)) = M /\ Content(OwnOf(t))' = {}
        /\ Content(Dropped)' = Content(Dropped) \cup M
    BY <2>1, <2>2, <2>3, HomeContents, HomeContentsThen
  <2>6. Moved(M, OwnOf(t), Dropped)
    BY <1>1, <1>b, <2>2, <2>3, <2>4, <2>5, MovedParts
  <2> QED
    BY <2>6
<1>3. CASE Cas(t)
  <2>0. pc[t] = "cas" /\ forgotten' = forgotten
    BY <1>3 DEF Cas
  <2>4. \A c \in Caches : Shelf(c)' = Shelf(c)
    BY <1>0, <1>3 DEF Cas, caches, Shelf
  <2>5. CASE UNCHANGED <<linked, own>>
    BY <1>1, <2>0, <2>4, <2>5, UnmovedParts
  <2>6. CASE op[t] = "unlink" /\ ref[t] \in linked /\ linked' = linked \ {ref[t]} /\ own' = [own EXCEPT ![t] = ref[t]]
    <3>1. PICK o : o = ref[t]
      OBVIOUS
    <3>2. own[t] = NoObject /\ o \in Objects
      BY <1>a, <2>0, <2>6, <3>1 DEF OperationOf
    <3>3. own'[t] = o /\ \A u \in Threads : u # t => own'[u] = own[u]
      BY <2>6, <3>1 DEF Types
    <3>4. /\ Content(InList) = linked /\ Content(InList)' = linked \ {o}
          /\ Content(OwnOf(t)) = {} /\ Content(OwnOf(t))' = {o}
      BY <1>a, <2>6, <3>1, <3>2, <3>3, HomeContents, HomeContentsThen
    <3>5. Moved({o}, InList, OwnOf(t))
      BY <1>1, <1>b, <2>0, <2>4, <2>6, <3>1, <3>3, <3>4, MovedParts
    <3> QED
      BY <3>5
  <2>7. CASE op[t] = "insert" /\ linked' = linked \cup {own[t]} /\ own' = [own EXCEPT ![t] = NoObject]
    <3>1. PICK o : o = own[t]
      OBVIOUS
    <3>2. o \in Objects
      BY <1>a, <2>0, <2>7, <3>1 DEF OperationOf
    <3>3. own'[t] = NoObject /\ \A u \in Threads : u # t => own'[u] = own[u]
      BY <2>7 DEF Types
    <3>4. /\ Content(InList) = linked /\ Content(InList)' = linked \cup {o}
          /\ Content(OwnOf(t)) = {o} /\ Content(OwnOf(t))' = {}
      BY <1>a, <2>7, <3>1, <3>2, <3>3, HomeContents, HomeContentsThen
    <3>5. Moved({o}, OwnOf(t), InList)
      BY <1>1, <1>b, <2>0, <2>4, <3>3, <3>4, MovedParts
    <3> QED
      BY <3>5
  <2> QED
    BY <1>3, <2>5, <2>6, <2>7 DEF Cas
<1>4. CASE Finish(t)
  <2>0. /\ pc[t] = "finish" /\ UNCHANGED <<linked, forgotten>> /\ own' = [own EXCEPT ![t] = NoObject]
        /\ ptrs' = IF own[t] = NoObject THEN ptrs ELSE [ptrs EXCEPT ![allocCache[t]] = Append(@, own[t])]
    BY <1>4 DEF Finish
  <2>1. own'[t] = NoObject /\ \A u \in Threads : u # t => own'[u] = own[u]
    BY <2>0 DEF Types
  <2>2. CASE own[t] = NoObject
    <3>1. \A u \in Threads : own'[u] = own[u]
      BY <2>1, <2>2
    <3>2. \A c \in Caches : Shelf(c)' = Shelf(c)
      BY <1>0, <2>0, <2>2 DEF Shelf
    <3> QED
      BY <1>1, <2>0, <3>1, <3>2, UnmovedParts
  <2>3. CASE own[t] # NoObject
    <3>1. PICK o : o = own[t]
      OBVIOUS
    <3>2. o \in Objects /\ op[t] = "insert"
      BY <1>a, <2>0, <2>3, <3>1 DEF Types, ObjectOrNone, OperationOf
    <3>3. PICK c \in Caches : c = allocCache[t]
      BY <1>a, <3>1, <3>2 DEF OperationOf
    <3>4. c \in Stored
      BY <3>3, StoredParts, ConstantTypes DEF KeptBy
    <3>5. ptrs'[c] = Append(ptrs[c], o) /\ \A d \in Caches : d # c => ptrs'[d] = ptrs[d]
      BY <2>0, <2>3, <3>1, <3>3 DEF Types
    <3>6. Range(Append(ptrs[c], o)) = Range(ptrs[c]) \cup {o}
      BY <3>2, Appended DEF Types
    <3>7. Shelf(c)' = Shelf(c) \cup {o} /\ \A d \in Caches : d # c => Shelf(d)' = Shelf(d)
      BY <1>0, <3>4, <3>5, <3>6 DEF Shelf
    <3>8. /\ Content(CacheOf(c))' = Content(CacheOf(c)) \cup {o}
          /\ Content(OwnOf(t)) = {o} /\ Content(OwnOf(t))' = {}
      BY <1>a, <2>1, <3>1, <3>2, <3>7, HomeContents, HomeContentsThen
    <3>9. /\ CacheOf(c) \in Homes /\ CacheOf(c) # OwnOf(t)
          /\ \A d \in Caches : CacheOf(d) \notin {OwnOf(t), CacheOf(c)} => d # c
      BY HomesApart
    <3>10. Moved({o}, OwnOf(t), CacheOf(c))
      BY <1>1, <1>b, <2>0, <2>1, <3>7, <3>8, <3>9, MovedParts
    <3> QED
      BY <3>10
  <2> QED
    BY <2>2, <2>3
<1> QED
  BY <1>2, <1>3, <1>4

\* A step keeps every object in one place.
LEMMA StepHome ==
    ASSUME NEW t \in Threads, Types, Types', Control, Versions, CacheInv, OneHome, NoneTwice, Step(t)
    PROVE  OneHome'
<1>1. Unmoved \/ \E M, a, b : Moved(M, a, b)
  BY StepsUnmoved, RepairMoves, GiveMoves, FreeMoves, AllocMoves, ListMoves
<1> QED
  BY <1>1, UnmovedHome, MovedHome

-----------------------------------------------------------------------------
(* Lengths, and nothing twice.                                             *)

\* The calls after a step: as before, without a cache, or one of these three.
LEMMA NewFrames ==
    ASSUME NEW t \in Threads, Types, Types', Control, Step(t), NEW u \in Threads, NEW k \in DOMAIN calls'[u]
    PROVE  \/ \E j \in DOMAIN calls[u] : calls'[u][k] = calls[u][j]
           \/ calls'[u][k] = NewCall
           \/ \E f \in Frames :
               /\ calls'[u][k] = f /\ u = t
               /\ \/ /\ Repair(t) /\ reg[t].head \in Caches
                     /\ f.rest = ptrs[reg[t].head] /\ f.kept = <<>> /\ f.obj = NoObject
                  \/ /\ Scan(t) /\ calls[t] # <<>> /\ Top(t) \in Frames /\ Top(t).obj = NoObject /\ Top(t).rest # <<>>
                     /\ f.rest = Tail(Top(t).rest)
                     /\ \/ f.kept = Top(t).kept /\ f.obj = Head(Top(t).rest)
                        \/ f.kept = Append(Top(t).kept, Head(Top(t).rest)) /\ f.obj = NoObject
                  \/ /\ calls[t] # <<>> /\ Top(t) \in Frames
                     /\ f.rest = Top(t).rest /\ f.kept = Top(t).kept /\ f.obj = NoObject
<1>1. CASE u # t
  BY <1>1, OthersSame DEF Same
<1>2. CASE u = t
  <2>1. CASE UNCHANGED calls
    BY <1>2, <2>1
  <2>2. ASSUME NEW f \in Frames, SetTop(t, f), calls[t] # <<>>
        PROVE  calls'[t][k] = f \/ \E j \in DOMAIN calls[t] : calls'[t][k] = calls[t][j]
    BY <1>2, <2>2, TopSet
  <2>3. CASE Trigger(t)
    <3>1. DOMAIN calls'[t] = 1 .. Len(calls[t]) + 1 /\ Len(calls[t]) \in Nat /\ calls'[t][Len(calls[t]) + 1] = NewCall
      BY <2>3, CallBegun
    <3>2. k = Len(calls[t]) + 1 \/ k \in 1 .. Len(calls[t])
      BY <1>2, <3>1
    <3> QED
      BY <1>2, <2>3, <3>1, <3>2, CallBegun
  <2>4. CASE Return(t) /\ calls[t] # <<>>
    <3>1. DOMAIN calls'[t] \subseteq DOMAIN calls[t] /\ \A m \in DOMAIN calls'[t] : calls'[t][m] = calls[t][m]
      BY <2>4, CallReturned
    <3> QED
      BY <1>2, <3>1
  <2>5. CASE Repair(t)
    <3>1. calls[t] # <<>> /\ reg[t].head \in Caches
      BY <2>5, RepairTop
    <3>2. PICK f \in Frames : SetTop(t, f) /\ f.rest = ptrs[reg[t].head] /\ f.kept = <<>> /\ f.obj = NoObject
      BY <2>5, RepairTop
    <3> QED
      BY <1>2, <2>2, <2>5, <3>1, <3>2
  <2>6. CASE Scan(t)
    <3>1. calls[t] # <<>> /\ Top(t) \in Frames /\ Top(t).obj = NoObject /\ Top(t).rest # <<>>
      BY <2>6, ScanTop DEF Scanning
    <3>2. PICK f \in Frames :
            /\ SetTop(t, f) /\ f.rest = Tail(Top(t).rest)
            /\ \/ f.kept = Top(t).kept /\ f.obj = Head(Top(t).rest)
               \/ f.kept = Append(Top(t).kept, Head(Top(t).rest)) /\ f.obj = NoObject
      BY <2>6, ScanTop
    <3> QED
      BY <1>2, <2>2, <2>6, <3>1, <3>2
  <2>7. CASE SetTop(t, NewCall) /\ calls[t] # <<>>
    BY <1>2, <2>2, <2>7, ConstantTypes
  <2>8. CASE FreeReturns(t) /\ calls[t] # <<>> /\ pc[t] \in FreePC \cup {"retire"}
    <3>1. Top(t) \in Frames
      BY <2>8, TopFrame
    <3>2. PICK f \in Frames : f = [Top(t) EXCEPT !.obj = NoObject] /\ SetTop(t, f)
      BY <2>8, FreeReturned
    <3>3. f.rest = Top(t).rest /\ f.kept = Top(t).kept /\ f.obj = NoObject
      BY <3>1, <3>2 DEF Frames
    <3> QED
      BY <1>2, <2>2, <2>8, <3>1, <3>2, <3>3
  <2>9. CASE FreeReturns(t) /\ calls[t] = <<>>
    <3>1. UNCHANGED calls
      BY <2>9 DEF FreeReturns
    <3> QED
      BY <2>1, <3>1
  <2>10. CASE Pop(t)
    <3>1. UNCHANGED calls \/ Return(t)
      BY <2>10 DEF Pop
    <3>2. calls[t] # <<>>
      BY <2>10 DEF Pop, Control, CallsOf, ListPC, PallocPC, FreePC
    <3> QED
      BY <2>1, <2>4, <3>1, <3>2
  <2>11. CASE EndScan(t)
    BY <2>1, <2>7, <2>11, EndTop
  <2>12. CASE GiveCas(t)
    <3>1. calls[t] # <<>>
      BY <2>12 DEF GiveCas, Control, CallsOf, ListPC, PallocPC, FreePC
    <3>2. UNCHANGED calls \/ SetTop(t, NewCall)
      BY <2>12 DEF GiveCas
    <3> QED
      BY <2>1, <2>7, <3>1, <3>2
  <2>13. CASE PFree(t) \/ PushCas(t)
    <3>1. pc[t] \in FreePC \cup {"retire"}
      BY <2>13, MutatorPlaces DEF FreePC
    <3>2. UNCHANGED calls \/ FreeReturns(t)
      BY <2>13 DEF PFree, PushCas
    <3> QED
      BY <2>1, <2>8, <2>9, <3>1, <3>2
  <2>14. CASE PushLink(t) \/ PopHead(t)
    <3>1. UNCHANGED calls \/ Trigger(t)
      BY <2>14 DEF PushLink, PopHead
    <3> QED
      BY <2>1, <2>3, <3>1
  <2> QED
    BY <2>1, <2>5, <2>6, <2>10, <2>11, <2>12, <2>13, <2>14, CallsSame
<1> QED
  BY <1>1, <1>2

\* The objects a call has, in number.
LEMMA FilledParts ==
    ASSUME NEW f \in Frames
    PROVE  /\ f.rest \in Seq(Objects) /\ f.kept \in Seq(Objects) /\ f.obj \in ObjectOrNone
           /\ Len(f.rest) \in Nat /\ Len(f.kept) \in Nat
           /\ f.obj = NoObject => Filled(f) = Len(f.rest) + Len(f.kept)
           /\ f.obj # NoObject => Filled(f) = Len(f.rest) + Len(f.kept) + 1
<1>1. f.rest \in Seq(Objects) /\ f.kept \in Seq(Objects) /\ f.obj \in ObjectOrNone
  BY DEF Frames
<1>2. Len(f.rest) \in Nat /\ Len(f.kept) \in Nat
  BY <1>1, ShortSequences
<1> QED
  BY <1>1, <1>2 DEF Filled

\* Sums below a bound.
LEMMA Sums ==
    ASSUME NEW p \in Nat, NEW a \in Nat, NEW b \in Nat, NEW m, m = a + b \/ m = a + b + 1, m <= p
    PROVE  a <= p /\ b <= p /\ a + b <= p /\ \A c \in Nat : c + 1 = a => c + b + 1 <= p
OBVIOUS

\* A call has no more than a cache can hold.
LEMMA StepFilled ==
    ASSUME NEW t \in Threads, Types, Types', Control, Lengths, Step(t), NEW u \in Threads, NEW k \in DOMAIN calls'[u]
    PROVE  Filled(calls'[u][k]) <= PerCache
<1>0. PerCache \in Nat
  BY ConstantTypes
<1>1. Filled(NewCall) <= PerCache
  BY <1>0, ShortSequences DEF Filled, NewCall
<1>2. ASSUME NEW f \in Frames, Repair(t), reg[t].head \in Caches,
             f.rest = ptrs[reg[t].head], f.kept = <<>>, f.obj = NoObject
      PROVE  Filled(f) <= PerCache
  <2>1. Len(f.rest) <= PerCache /\ Len(f.rest) \in Nat
    BY <1>2, ShortSequences DEF Lengths, Types
  <2> QED
    BY <1>2, <2>1, ShortSequences DEF Filled
<1>3. calls[t] # <<>> => Filled(Top(t)) <= PerCache
  BY TopFrame DEF Lengths
<1>4. ASSUME NEW f \in Frames, Top(t) \in Frames, calls[t] # <<>>,
             f.rest = Top(t).rest, f.kept = Top(t).kept, f.obj = NoObject
      PROVE  Filled(f) <= PerCache
  <2> DEFINE g == Top(t)
  <2>1. /\ Len(g.rest) \in Nat /\ Len(g.kept) \in Nat /\ Filled(f) = Len(g.rest) + Len(g.kept)
        /\ Filled(g) = Len(g.rest) + Len(g.kept) \/ Filled(g) = Len(g.rest) + Len(g.kept) + 1
    BY <1>4, FilledParts
  <2>2. Filled(g) <= PerCache
    BY <1>3, <1>4
  <2>3. Len(g.rest) + Len(g.kept) <= PerCache
    BY <1>0, <2>1, <2>2, Sums
  <2> QED
    BY <2>1, <2>3
<1>5. ASSUME NEW f \in Frames, Top(t) \in Frames, calls[t] # <<>>, Top(t).obj = NoObject, Top(t).rest # <<>>,
             f.rest = Tail(Top(t).rest),
             \/ f.kept = Top(t).kept /\ f.obj = Head(Top(t).rest)
             \/ f.kept = Append(Top(t).kept, Head(Top(t).rest)) /\ f.obj = NoObject
      PROVE  Filled(f) <= PerCache
  <2> DEFINE g == Top(t)
  <2>1. /\ g.rest \in Seq(Objects) /\ g.kept \in Seq(Objects) /\ Len(g.kept) \in Nat /\ Len(f.rest) \in Nat
        /\ Filled(g) = Len(g.rest) + Len(g.kept)
    BY <1>5, FilledParts
  <2>2. Len(g.rest) = Len(f.rest) + 1 /\ Head(g.rest) \in Objects /\ Head(g.rest) # NoObject
    BY <1>5, <2>1, FirstTaken, ConstantTypes
  <2>3. Len(Append(g.kept, Head(g.rest))) = Len(g.kept) + 1
    BY <2>1, <2>2, Appended
  <2>4. Filled(f) = Len(f.rest) + Len(g.kept) + 1
    <3>1. CASE f.kept = g.kept /\ f.obj = Head(g.rest)
      BY <2>2, <3>1, FilledParts
    <3>2. CASE f.kept = Append(g.kept, Head(g.rest)) /\ f.obj = NoObject
      <4>1. Len(f.kept) = Len(g.kept) + 1
        BY <2>3, <3>2
      <4>2. Filled(f) = Len(f.rest) + Len(f.kept)
        BY <3>2, FilledParts
      <4>3. \A a, b \in Nat : a + (b + 1) = a + b + 1
        OBVIOUS
      <4>4. Filled(f) = Len(f.rest) + (Len(g.kept) + 1)
        BY <4>1, <4>2
      <4> QED
        BY <2>1, <4>3, <4>4
    <3> QED
      BY <1>5, <3>1, <3>2
  <2>5. Filled(g) <= PerCache
    BY <1>3, <1>5
  <2>6. Len(f.rest) + Len(g.kept) + 1 <= PerCache
    <3>1. Len(g.rest) \in Nat
      BY <1>5, FilledParts
    <3> QED
      BY <1>0, <2>1, <2>2, <2>5, <3>1, Sums
  <2> QED
    BY <2>4, <2>6
<1>6. \A j \in DOMAIN calls[u] : Filled(calls[u][j]) <= PerCache
  BY DEF Lengths
<1> QED
  BY <1>1, <1>2, <1>4, <1>5, <1>6, NewFrames

\* A cache has no more than it can hold.
LEMMA StepFull ==
    ASSUME NEW t \in Threads, Types, Types', Control, Versions, CacheInv, Lengths, Step(t), NEW c \in Caches
    PROVE  Len(ptrs'[c]) <= PerCache
<1>0. PerCache \in Nat \ {0} /\ Len(ptrs[c]) \in Nat /\ Len(ptrs[c]) <= PerCache /\ ptrs \in [Caches -> Seq(Objects)]
  BY ConstantTypes, ShortSequences DEF Types, Lengths
<1>1. CASE EndScan(t)
  <2>1. calls[t] # <<>> /\ Top(t) \in Frames /\ ptrs' = [ptrs EXCEPT ![Top(t).entry] = Top(t).kept]
    BY <1>1, EndTop
  <2>2. Filled(Top(t)) <= PerCache
    BY <2>1, TopFrame DEF Lengths
  <2> DEFINE g == Top(t)
  <2>3. /\ Len(g.rest) \in Nat /\ Len(g.kept) \in Nat
        /\ Filled(g) = Len(g.rest) + Len(g.kept) \/ Filled(g) = Len(g.rest) + Len(g.kept) + 1
    BY <2>1, FilledParts
  <2>5. Filled(g) <= PerCache
    BY <2>2
  <2>4. Len(g.kept) <= PerCache
    BY <1>0, <2>3, <2>5, Sums
  <2> QED
    BY <1>0, <2>1, <2>4
<1>2. CASE PFree(t) \/ PushCas(t)
  <2>1. pc[t] \in FreePC \cup {"retire"}
    BY <1>2, MutatorPlaces DEF FreePC
  <2>2. Argument(t) \in Objects
    BY <2>1, ArgumentObject
  <2>3. \/ ptrs' = ptrs
        \/ ptrs' = [ptrs EXCEPT ![freeCache[t]] = Append(@, Argument(t))] /\ Len(ptrs[freeCache[t]]) < PerCache
        \/ \E d \in Fresh : ptrs' = [ptrs EXCEPT ![d] = <<Argument(t)>>]
    BY <1>2, FreeStored, PushStored
  <2>4. Len(Append(ptrs[c], Argument(t))) = Len(ptrs[c]) + 1 /\ Len(<<Argument(t)>>) = 1
    BY <1>0, <2>2, Appended, ShortSequences
  <2>5. CASE ptrs' = ptrs
    BY <1>0, <2>5
  <2>6. CASE ptrs' = [ptrs EXCEPT ![freeCache[t]] = Append(@, Argument(t))] /\ Len(ptrs[freeCache[t]]) < PerCache
    <3>1. CASE c = freeCache[t]
      <4>1. ptrs'[c] = Append(ptrs[c], Argument(t)) /\ Len(ptrs[c]) < PerCache
        BY <1>0, <2>6, <3>1
      <4> QED
        BY <1>0, <2>4, <4>1
    <3>2. CASE c # freeCache[t]
      BY <1>0, <2>6, <3>2
    <3> QED
      BY <3>1, <3>2
  <2>7. ASSUME NEW d \in Fresh, ptrs' = [ptrs EXCEPT ![d] = <<Argument(t)>>] PROVE Len(ptrs'[c]) <= PerCache
    <3>1. CASE c = d
      <4>1. ptrs'[c] = <<Argument(t)>>
        BY <1>0, <2>7, <3>1
      <4>2. Len(ptrs'[c]) = 1
        BY <2>4, <4>1
      <4> QED
        BY <1>0, <4>2
    <3>2. CASE c # d
      <4>1. ptrs'[c] = ptrs[c]
        BY <1>0, <2>7, <3>2
      <4> QED
        BY <1>0, <4>1
    <3> QED
      BY <3>1, <3>2
  <2> QED
    BY <2>3, <2>5, <2>6, <2>7
<1>3. CASE UnlinkCache(t) \/ WalkToInsert(t)
  <2>1. TakeOrPop(t)
    BY <1>3 DEF UnlinkCache, WalkToInsert
  <2>2. CASE ptrs' = ptrs
    BY <1>0, <2>2
  <2>3. CASE /\ ptrs[allocCache[t]] \in Seq(Objects) /\ ptrs[allocCache[t]] # <<>>
             /\ ptrs' = [ptrs EXCEPT ![allocCache[t]] = SubSeq(@, 1, Len(@) - 1)]
    <3>1. Len(SubSeq(ptrs[allocCache[t]], 1, Len(ptrs[allocCache[t]]) - 1)) = Len(ptrs[allocCache[t]]) - 1
      BY <2>3, LastTaken
    <3> QED
      BY <1>0, <2>3, <3>1
  <2> QED
    BY <2>1, <2>2, <2>3, Taken
<1>4. CASE Finish(t)
  <2>1. CASE own[t] = NoObject
    BY <1>0, <1>4, <2>1 DEF Finish
  <2>2. CASE own[t] # NoObject
    <3>1. ptrs' = [ptrs EXCEPT ![allocCache[t]] = Append(@, own[t])] /\ pc[t] = "finish"
      BY <1>4, <2>2 DEF Finish
    <3>2. own[t] \in Objects /\ op[t] = "insert"
      BY <2>2, <3>1 DEF Types, ObjectOrNone, Control, OperationOf
    <3>3. Len(ptrs[allocCache[t]]) < PerCache /\ Len(Append(ptrs[c], own[t])) = Len(ptrs[c]) + 1
      BY <1>0, <3>2, Appended DEF Lengths
    <3> QED
      BY <1>0, <3>1, <3>3
  <2> QED
    BY <2>1, <2>2
<1>5. CASE ~ (EndScan(t) \/ PFree(t) \/ PushCas(t) \/ UnlinkCache(t) \/ WalkToInsert(t) \/ Finish(t))
  <2>1. ptrs' = ptrs
    BY <1>5, ContentsSame
  <2> QED
    BY <1>0, <2>1
<1> QED
  BY <1>1, <1>2, <1>3, <1>4, <1>5

\* A thread that has a new object has room for it in the cache it came from.
LEMMA StepRoom ==
    ASSUME NEW t \in Threads, Types, Types', Control, Control', Versions, CacheInv, Lengths, Step(t),
           NEW u \in Threads, op'[u] = "insert", own'[u] \in Objects
    PROVE  Len(ptrs'[allocCache'[u]]) < PerCache
<1>0. \A s \in Seq(Objects) : Len(s) \in Nat
  BY ShortSequences
<1>1. CASE u # t
  <2>1. op[u] = "insert" /\ own[u] \in Objects /\ allocCache'[u] = allocCache[u]
    BY <1>1, OthersSame DEF Same
  <2>2. allocCache[u] \in Caches /\ allocCache[u] \in Mine(u)
    BY <2>1, OwnCachesMine DEF Control, OperationOf
  <2>3. ptrs'[allocCache[u]] = ptrs[allocCache[u]]
    BY <1>1, <2>2, StacksUntouched
  <2> QED
    BY <2>1, <2>3 DEF Lengths
<1>2. CASE u = t /\ (UnlinkCache(t) \/ WalkToInsert(t))
  <2>1. TakeOrPop(t) /\ pc[t] \in {"walk", "unlinkCache"} /\ allocCache' = allocCache
    BY <1>2 DEF UnlinkCache, WalkToInsert
  <2>2. own[t] = NoObject
    BY <2>1 DEF Control, OperationOf, PallocPC
  <2>3. /\ allocCache[t] \in Caches /\ ptrs[allocCache[t]] \in Seq(Objects) /\ ptrs[allocCache[t]] # <<>>
        /\ ptrs' = [ptrs EXCEPT ![allocCache[t]] = SubSeq(@, 1, Len(@) - 1)]
    BY <1>2, <2>1, <2>2, ConstantTypes, Taken
  <2>4. ptrs'[allocCache[t]] = SubSeq(ptrs[allocCache[t]], 1, Len(ptrs[allocCache[t]]) - 1)
    BY <2>3 DEF Types
  <2>5. Len(ptrs'[allocCache[t]]) = Len(ptrs[allocCache[t]]) - 1 /\ Len(ptrs[allocCache[t]]) \in Nat
    BY <1>0, <2>3, <2>4, LastTaken
  <2>6. Len(ptrs[allocCache[t]]) <= PerCache
    BY <2>3 DEF Lengths
  <2>7. \A n, m \in Nat : n <= m => n - 1 < m
    OBVIOUS
  <2>8. Len(ptrs[allocCache[t]]) - 1 < PerCache
    BY <2>5, <2>6, <2>7, ConstantTypes
  <2> QED
    BY <1>2, <2>1, <2>5, <2>8
<1>3. CASE u = t /\ HeadCas(t)
  <2>1. pc[t] = "headCas" /\ own' = own /\ op' = op
    BY <1>3 DEF HeadCas, operation
  <2>2. own[t] = NoObject
    BY <1>3, <2>1 DEF Control, OperationOf, PallocPC
  <2> QED
    BY <1>3, <2>1, <2>2, ConstantTypes
<1>4. CASE u = t /\ Finish(t)
  BY <1>4, ConstantTypes DEF Finish, Types
<1>5. CASE u = t /\ ~ (HeadCas(t) \/ UnlinkCache(t) \/ WalkToInsert(t) \/ Finish(t))
  <2>1. allocCache' = allocCache
    BY <1>5 DEF Step, Freeze, LoadHead, Move, Unfreeze, Look, Stamp, Save, Pop, Follow, PopCas, Repair, Scan, EndScan,
                GiveCas, PFree, PushLink, PushCas, PopHead, Clear, Search, WalkToUnlink, Publish, Fence, Restart, Cas,
                vars, caches
  <2>2. op[t] = "insert" /\ own[t] \in Objects
    <3>1. CASE UNCHANGED <<own, op>>
      BY <1>5, <3>1
    <3>2. CASE Cas(t)
      BY <1>5, <3>2, ConstantTypes DEF Cas, Types
    <3>3. CASE Restart(t) \/ WalkToUnlink(t)
      BY <1>5, <3>3, ConstantTypes DEF Restart, WalkToUnlink, Types
    <3>4. CASE PFree(t) \/ PushCas(t)
      <4>1. UNCHANGED <<own, op>> \/ FreeReturns(t)
        BY <3>4 DEF PFree, PushCas
      <4>2. FreeReturns(t) => UNCHANGED <<own, op>> \/ own' = [own EXCEPT ![t] = NoObject]
        BY DEF FreeReturns
      <4> QED
        BY <1>5, <4>1, <4>2, <3>1, ConstantTypes DEF Types
    <3>5. CASE ~ (PFree(t) \/ PushCas(t) \/ Restart(t) \/ WalkToUnlink(t) \/ Cas(t))
      <4>1. UNCHANGED <<own, op>>
        BY <1>5, <3>5 DEF Step, Freeze, LoadHead, Move, Unfreeze, Look, Stamp, Save, Pop, Follow, PopCas, Repair, Scan,
                EndScan, GiveCas, PushLink, PopHead, Clear, Search, Publish, Fence, vars, operation
      <4> QED
        BY <3>1, <4>1
    <3> QED
      BY <3>2, <3>3, <3>4, <3>5
  <2>3. allocCache[t] \in Caches
    BY <2>2 DEF Control, OperationOf
  <2>4. ptrs'[allocCache[t]] = ptrs[allocCache[t]]
    BY <1>5, <2>3, OwnAlloc
  <2> QED
    BY <1>5, <2>1, <2>2, <2>4 DEF Lengths
<1> QED
  BY <1>1, <1>2, <1>3, <1>4, <1>5

\* Every step preserves the lengths.
LEMMA StepLengths ==
    ASSUME NEW t \in Threads, Types, Types', Control, Control', Versions, CacheInv, Lengths, Step(t)
    PROVE  Lengths'
BY StepFull, StepFilled, StepRoom DEF Lengths

\* What is in one place is in no other.
LEMMA Somewhere ==
    ASSUME OneHome, Types, NEW c \in Stored
    PROVE  /\ c \in Caches => \A u \in Threads : own[u] \in Objects => own[u] \notin Range(ptrs[c])
           /\ c \in Caches => \A u \in Threads, k \in Nat : Held(u, k) \cap Range(ptrs[c]) \cap Objects = {}
<1>1. ASSUME c \in Caches
      PROVE  CacheOf(c) \in Homes /\ Content(CacheOf(c)) = Range(ptrs[c])
  BY <1>1, HomeContents, HomesApart DEF Shelf
<1>2. ASSUME c \in Caches, NEW u \in Threads, own[u] \in Objects
      PROVE  own[u] \notin Range(ptrs[c])
  <2>1. own[u] \in Content(OwnOf(u)) /\ OwnOf(u) \in Homes /\ OwnOf(u) # CacheOf(c)
    BY <1>2, HomeContents, HomesApart, ConstantTypes
  <2> QED
    BY <1>1, <1>2, <2>1 DEF OneHome
<1>3. ASSUME c \in Caches, NEW u \in Threads, NEW k \in Nat
      PROVE  Held(u, k) \cap Range(ptrs[c]) \cap Objects = {}
  <2>1. Held(u, k) = Content(CallOf(u, k)) /\ CallOf(u, k) \in Homes /\ CallOf(u, k) # CacheOf(c)
    BY <1>3, HomeContents, HomesApart
  <2> QED
    BY <1>1, <1>3, <2>1 DEF OneHome
<1> QED
  BY <1>2, <1>3

\* The argument of pfree is in no cache that counts.
LEMMA ArgumentNew ==
    ASSUME NEW t \in Threads, Types, Control, OneHome, pc[t] \in FreePC \cup {"retire"}, NEW c \in Stored, c \in Caches
    PROVE  Argument(t) \notin Range(ptrs[c])
<1>1. Argument(t) \in Objects
  BY ArgumentObject
<1>2. CASE calls[t] = <<>>
  BY <1>1, <1>2, Somewhere DEF Argument
<1>3. CASE calls[t] # <<>>
  <2>1. PICK n \in Nat : n = Len(calls[t])
    BY <1>3, TopFrame
  <2>2. Argument(t) = Top(t).obj /\ Held(t, n) = InCall(Top(t))
    BY <1>3, <2>1, TopFrame DEF Argument, Held
  <2>3. Argument(t) \in Held(t, n)
    BY <1>1, <2>2, ConstantTypes DEF InCall
  <2> QED
    BY <1>1, <2>1, <2>3, Somewhere
<1> QED
  BY <1>2, <1>3

\* Nothing comes to be twice in a cache that counts.
LEMMA StepInjective ==
    ASSUME NEW t \in Threads, Types, Types', Control, Versions, CacheInv, OneHome, NoneTwice, Step(t), NEW c \in Stored'
    PROVE  IsInjective(ptrs'[c])
<1>0. \A d \in Stored : IsInjective(ptrs[d]) /\ d \in Caches /\ ptrs[d] \in Seq(Objects)
  BY StoredParts DEF NoneTwice, Types
<1>00. ptrs \in [Caches -> Seq(Objects)]
  BY DEF Types
<1>1. CASE Repair(t) \/ HeadCas(t)
  <2>1. Stored' \subseteq Stored /\ ptrs' = ptrs
    BY <1>1, RepairStored, TakeStored
  <2> QED
    BY <1>0, <2>1
<1>2. CASE GiveCas(t)
  <2>1. ptrs' = ptrs
    BY <1>2, GiveStored
  <2>2. CASE c \in Stored
    BY <1>0, <2>1, <2>2
  <2>3. CASE c \notin Stored
    <3>1. c = Top(t).entry /\ pc[t] = "giveCas" /\ calls[t] # <<>>
      BY <1>2, <2>3, GiveStored DEF GiveCas
    <3>2. ptrs[c] = Top(t).kept
      BY <3>1 DEF Control, CallsOf
    <3>3. IsInjective(Top(t).kept)
      BY <3>1, TopFrame DEF NoneTwice, Distinct
    <3> QED
      BY <2>1, <3>2, <3>3
  <2> QED
    BY <2>2, <2>3
<1>3. CASE PFree(t) \/ PushCas(t)
  <2>1. pc[t] \in FreePC \cup {"retire"}
    BY <1>3, MutatorPlaces DEF FreePC
  <2>2. Argument(t) \in Objects
    BY <2>1, ArgumentObject
  <2>3. \/ Stored' = Stored /\ ptrs' = ptrs
        \/ /\ Stored' = Stored /\ freeCache[t] \in Stored
           /\ ptrs' = [ptrs EXCEPT ![freeCache[t]] = Append(@, Argument(t))]
        \/ \E d \in Fresh : Stored' = Stored \cup {d} /\ ptrs' = [ptrs EXCEPT ![d] = <<Argument(t)>>]
    BY <1>3, FreeStored, PushStored
  <2>4. CASE Stored' = Stored /\ ptrs' = ptrs
    BY <1>0, <2>4
  <2>5. CASE /\ Stored' = Stored /\ freeCache[t] \in Stored
             /\ ptrs' = [ptrs EXCEPT ![freeCache[t]] = Append(@, Argument(t))]
    <3>1. CASE c = freeCache[t]
      <4>1. ptrs'[c] = Append(ptrs[c], Argument(t))
        BY <1>0, <1>00, <2>5, <3>1
      <4>2. Argument(t) \notin Range(ptrs[c])
        BY <1>0, <2>1, <2>5, <3>1, ArgumentNew
      <4> QED
        BY <1>0, <2>2, <2>5, <3>1, <4>1, <4>2, Appended
    <3>2. CASE c # freeCache[t]
      BY <1>0, <1>00, <2>5, <3>2
    <3> QED
      BY <3>1, <3>2
  <2>6. ASSUME NEW d \in Fresh, Stored' = Stored \cup {d}, ptrs' = [ptrs EXCEPT ![d] = <<Argument(t)>>]
        PROVE  IsInjective(ptrs'[c])
    <3>1. d \in Caches
      BY <2>6, FreshCache
    <3>2. CASE c = d
      <4>1. ptrs'[c] = <<Argument(t)>>
        BY <1>00, <2>6, <3>1, <3>2
      <4> QED
        BY <2>2, <4>1, ShortSequences
    <3>3. CASE c # d
      BY <1>0, <1>00, <2>6, <3>3
    <3> QED
      BY <3>2, <3>3
  <2> QED
    BY <2>3, <2>4, <2>5, <2>6
<1>4. CASE UnlinkCache(t) \/ WalkToInsert(t)
  <2>1. Stored' = Stored /\ TakeOrPop(t)
    BY <1>4, StoredSame DEF UnlinkCache, WalkToInsert, Repair, GiveCas, PFree, PushCas, HeadCas
  <2>2. CASE ptrs' = ptrs
    BY <1>0, <2>1, <2>2
  <2>3. CASE /\ allocCache[t] \in Caches /\ ptrs[allocCache[t]] # <<>>
             /\ ptrs' = [ptrs EXCEPT ![allocCache[t]] = SubSeq(@, 1, Len(@) - 1)]
    <3>1. CASE c = allocCache[t]
      <4>1. ptrs'[c] = SubSeq(ptrs[c], 1, Len(ptrs[c]) - 1)
        BY <1>00, <2>3, <3>1
      <4> QED
        BY <1>0, <2>1, <2>3, <3>1, <4>1, LastTaken
    <3>2. CASE c # allocCache[t]
      BY <1>0, <1>00, <2>1, <2>3, <3>2
    <3> QED
      BY <3>1, <3>2
  <2> QED
    BY <2>1, <2>2, <2>3, Taken
<1>5. CASE Finish(t)
  <2>1. Stored' = Stored
    BY <1>5, StoredSame DEF Finish, Repair, GiveCas, PFree, PushCas, HeadCas
  <2>2. CASE own[t] = NoObject
    BY <1>0, <1>5, <2>1, <2>2 DEF Finish
  <2>3. CASE own[t] # NoObject
    <3>1. ptrs' = [ptrs EXCEPT ![allocCache[t]] = Append(@, own[t])] /\ pc[t] = "finish"
      BY <1>5, <2>3 DEF Finish
    <3>2. own[t] \in Objects
      BY <2>3 DEF Types, ObjectOrNone
    <3>3. allocCache[t] \in Caches
      BY <3>1, <3>2, <2>3 DEF Types, Control, OperationOf
    <3>4. CASE c = allocCache[t]
      <4>1. ptrs'[c] = Append(ptrs[c], own[t])
        BY <1>00, <3>1, <3>3, <3>4
      <4>2. own[t] \notin Range(ptrs[c])
        BY <1>0, <2>1, <3>2, <3>3, <3>4, Somewhere
      <4> QED
        BY <1>0, <2>1, <3>2, <3>4, <4>1, <4>2, Appended
    <3>5. CASE c # allocCache[t]
      BY <1>0, <1>00, <2>1, <3>1, <3>5
    <3> QED
      BY <3>4, <3>5
  <2> QED
    BY <2>2, <2>3
<1>6. CASE ~ (Repair(t) \/ GiveCas(t) \/ PFree(t) \/ PushCas(t) \/ HeadCas(t)
              \/ UnlinkCache(t) \/ WalkToInsert(t) \/ Finish(t))
  <2>1. Stored' = Stored
    BY <1>6, StoredSame
  <2>2. \A d \in Stored : ptrs'[d] = ptrs[d]
    BY <1>6, ContentsSame
  <2> QED
    BY <1>0, <2>1, <2>2
<1> QED
  BY <1>1, <1>2, <1>3, <1>4, <1>5, <1>6

\* Nothing comes to be twice in a call.
LEMMA StepDistinct ==
    ASSUME NEW t \in Threads, Types, Types', Control, Versions, CacheInv, NoneTwice, Step(t),
           NEW u \in Threads, NEW k \in DOMAIN calls'[u]
    PROVE  Distinct(calls'[u][k])
<1>1. Distinct(NewCall)
  BY ShortSequences DEF Distinct, NewCall
<1>2. ASSUME NEW f \in Frames, Repair(t), f.rest = ptrs[reg[t].head], f.kept = <<>>, f.obj = NoObject
      PROVE  Distinct(f)
  <2>1. reg[t].head \in Stored /\ reg[t].head \in Caches
    BY <1>2, RepairStored, StoredParts
  <2>2. IsInjective(f.rest) /\ f.rest \in Seq(Objects)
    BY <1>2, <2>1 DEF NoneTwice, Types
  <2>3. NoObject \notin Range(f.rest)
    BY <2>2, ShortSequences, ConstantTypes
  <2> QED
    BY <1>2, <2>2, <2>3, ShortSequences DEF Distinct
<1>3. calls[t] # <<>> => Distinct(Top(t))
  BY TopFrame DEF NoneTwice
<1>4. ASSUME NEW f \in Frames, Top(t) \in Frames, calls[t] # <<>>,
             f.rest = Top(t).rest, f.kept = Top(t).kept, f.obj = NoObject
      PROVE  Distinct(f)
  <2>1. NoObject \notin Range(f.rest) \cup Range(f.kept)
    BY FilledParts, ShortSequences, ConstantTypes
  <2> QED
    BY <1>3, <1>4, <2>1 DEF Distinct
<1>5. ASSUME NEW f \in Frames, Top(t) \in Frames, calls[t] # <<>>, Top(t).obj = NoObject, Top(t).rest # <<>>,
             f.rest = Tail(Top(t).rest),
             \/ f.kept = Top(t).kept /\ f.obj = Head(Top(t).rest)
             \/ f.kept = Append(Top(t).kept, Head(Top(t).rest)) /\ f.obj = NoObject
      PROVE  Distinct(f)
  <2>1. PICK g \in Frames : g = Top(t)
    BY <1>5
  <2>2. g.rest \in Seq(Objects) /\ g.kept \in Seq(Objects) /\ Distinct(g)
    BY <1>3, <1>5, <2>1, FilledParts
  <2>3. PICK o \in Objects : o = Head(g.rest)
    BY <1>5, <2>1, <2>2, FirstTaken
  <2>4. /\ IsInjective(f.rest) /\ o \notin Range(f.rest) /\ Range(g.rest) = Range(f.rest) \cup {o}
    BY <1>5, <2>1, <2>2, <2>3, FirstTaken DEF Distinct
  <2>5. IsInjective(g.kept) /\ Range(g.rest) \cap Range(g.kept) = {}
    BY <2>2 DEF Distinct
  <2>6. CASE f.kept = g.kept /\ f.obj = o
    BY <2>4, <2>5, <2>6 DEF Distinct
  <2>7. CASE f.kept = Append(g.kept, o) /\ f.obj = NoObject
    <3>1. IsInjective(f.kept) /\ Range(f.kept) = Range(g.kept) \cup {o}
      BY <2>2, <2>4, <2>5, <2>7, Appended
    <3>2. NoObject \notin Range(f.rest) \cup Range(f.kept)
      BY FilledParts, ShortSequences, ConstantTypes
    <3> QED
      BY <2>4, <2>5, <2>7, <3>1, <3>2 DEF Distinct
  <2> QED
    BY <1>5, <2>1, <2>3, <2>6, <2>7
<1>6. \A j \in DOMAIN calls[u] : Distinct(calls[u][j])
  BY DEF NoneTwice
<1> QED
  BY <1>1, <1>2, <1>4, <1>5, <1>6, NewFrames

\* Every step preserves the absence of copies.
LEMMA StepTwice ==
    ASSUME NEW t \in Threads, Types, Types', Control, Versions, CacheInv, OneHome, NoneTwice, Step(t)
    PROVE  NoneTwice'
<1>1. \A c \in Stored' : IsInjective(ptrs'[c])
  BY StepInjective
<1>2. \A u \in Threads : \A k \in DOMAIN calls'[u] : Distinct(calls'[u][k])
  BY StepDistinct
<1> QED
  BY <1>1, <1>2 DEF NoneTwice, Distinct

-----------------------------------------------------------------------------
(* The initial states.                                                     *)

\* The types at the start.
LEMMA InitTypes == Init => Types
<1> SUFFICES ASSUME Init PROVE Types
  OBVIOUS
<1>1. reclaim \in Versioned /\ toProcess \in Versioned
  BY ConstantTypes DEF Init, Versioned
<1>2. head \in Pointers
  BY RetireAssumption DEF Init, Pointers, NULL
<1>3. next \in [Caches -> Pointers]
  <2>1. \A c \in Caches : (IF c < Len(Stock) THEN c + 1 ELSE NULL) \in Pointers
    BY RetireAssumption DEF Caches, Pointers, NULL
  <2> QED
    BY <2>1 DEF Init
<1>4. ptrs \in [Caches -> Seq(Objects)]
  <2>1. \A c \in Caches : (IF c <= Len(Stock) THEN Stock[c] ELSE <<>>) \in Seq(Objects)
    BY RetireAssumption, ShortSequences DEF Caches
  <2> QED
    BY <2>1 DEF Init
<1>5. /\ dirties \in [Threads -> Words] /\ HPs \in [Threads -> SUBSET Objects]
      /\ linked \in SUBSET Objects /\ forgotten \in SUBSET Objects
      /\ localVer \in [Threads -> Nat]
      /\ allocCache \in [Threads -> Pointers] /\ freeCache \in [Threads -> Pointers]
      /\ hps \in [Threads -> SUBSET Objects]
  BY ConstantTypes DEF Init, Pointers, NULL
<1>6. /\ op \in [Threads -> {"none", "insert", "unlink"}]
      /\ ref \in [Threads -> ObjectOrNone] /\ own \in [Threads -> ObjectOrNone]
      /\ calls \in [Threads -> Seq(Frames)]
  BY DEF Init, ObjectOrNone
<1>7. /\ reg \in [Threads -> Versioned] /\ nxt \in [Threads -> Pointers]
      /\ seen \in [Threads -> Words] /\ i \in [Threads -> Threads]
      /\ pc \in [Threads -> RetirePC]
  BY ConstantTypes DEF Init, Pointers, NULL, RetirePC, ListPC
<1>8. left \in [Threads -> Nat] /\ lastVer \in Nat
  BY RetireAssumption DEF Init
<1> QED
  BY <1>1, <1>2, <1>3, <1>4, <1>5, <1>6, <1>7, <1>8 DEF Types

\* Nobody has a cache at the start, and no stack but palloc's has one.
LEMMA InitStacks ==
    ASSUME Init
    PROVE  /\ Pending = {} /\ Pushed = {} /\ Stored = Free
           /\ \A t \in Threads : Mine(t) = {} /\ Entries(t) = {} /\ DOMAIN calls[t] = {} /\ Popped(t) = NULL
           /\ \A c \in Caches : c \notin Chain(next[c])
           /\ Free = 1 .. Len(Stock)
<1>1. Types
  BY InitTypes
<1>2. Pending = {} /\ Pushed = {}
  BY <1>1, EmptyStack DEF Init, Pending, Pushed
<1>3. \A t \in Threads : Mine(t) = {} /\ Entries(t) = {} /\ DOMAIN calls[t] = {} /\ Popped(t) = NULL
  BY DEF Init, Mine, Entries, Popped
<1>4. Stored = Free
  BY <1>2, <1>3 DEF Init, Stored
<1>5. next \in [Caches -> Pointers] /\ \A c \in Caches : next[c] = IF c < Len(Stock) THEN c + 1 ELSE NULL
  BY <1>1 DEF Init, Types
<1>6. Len(Stock) \in Nat /\ Len(Stock) <= NumCaches /\ NumCaches \in Nat /\ (Stock = <<>> <=> Len(Stock) = 0)
  BY RetireAssumption
<1>7. ASSUME NEW c \in Caches PROVE c \notin Chain(next[c])
  <2> DEFINE C == {x \in Caches : x > c}
  <2>1. {next[c]} \cap DOMAIN next \subseteq C
    BY <1>5, <1>6 DEF Caches, NULL
  <2>2. \A x \in C \cap DOMAIN next : next[x] \in DOMAIN next => next[x] \in C
    BY <1>5, <1>6 DEF Caches, NULL
  <2>3. Chain(next[c]) \subseteq C
    <3> HIDE DEF C
    <3> QED
      BY <2>1, <2>2, ReachLeast DEF Chain
  <2> QED
    BY <2>3 DEF Caches
<1>8. Free \subseteq 1 .. Len(Stock)
  <2>1. {head} \cap DOMAIN next \subseteq 1 .. Len(Stock)
    BY <1>5, <1>6 DEF Init, Caches, NULL
  <2>2. \A x \in (1 .. Len(Stock)) \cap DOMAIN next : next[x] \in DOMAIN next => next[x] \in 1 .. Len(Stock)
    BY <1>5, <1>6 DEF Caches, NULL
  <2> QED
    BY <2>1, <2>2, ReachLeast DEF Free, Chain
<1>9. 1 .. Len(Stock) \subseteq Free
  <2> DEFINE B == {x \in Nat : x \in 1 .. Len(Stock) /\ x \notin Free}
  <2>1. SUFFICES ASSUME B # {} PROVE FALSE
    OBVIOUS
  <2>2. PICK x \in B : \A y \in B : x <= y
    BY <2>1, LeastExists
  <2>3. x # 1
    <3>1. ASSUME x = 1 PROVE FALSE
      <4>1. head = 1 /\ 1 \in Caches
        BY <1>6, <2>2, <3>1 DEF Init, Caches
      <4> QED
        BY <1>5, <2>2, <3>1, <4>1, ReachClosed DEF Free, Chain
    <3> QED
      BY <3>1
  <2>4. x - 1 \in 1 .. Len(Stock) /\ x - 1 \in Nat /\ x \in 1 .. Len(Stock) /\ x - 1 < x
    BY <1>6, <2>2, <2>3
  <2>5. x - 1 \in Free
    BY <2>2, <2>4
  <2>6. x - 1 \in Caches /\ x \in Caches /\ next[x - 1] = x
    BY <1>5, <1>6, <2>4 DEF Caches
  <2>7. x \in Free
    BY <1>5, <2>5, <2>6, ReachClosed DEF Free, Chain
  <2> QED
    BY <2>2, <2>7
<1> QED
  BY <1>2, <1>3, <1>4, <1>7, <1>8, <1>9

\* Control, versions and stamps at the start.
LEMMA InitControl == Init => Control /\ Versions /\ Stamps
<1> SUFFICES ASSUME Init PROVE Control /\ Versions /\ Stamps
  OBVIOUS
<1>1. Types
  BY InitTypes
<1>2. Control
  BY ConstantTypes DEF Init, Control, CallsOf, OperationOf, RegistersOf, ListPC, PallocPC, FreePC, ScanPC, ObjectOrNone
<1>3. Versions
  <2>1. lastVer \in Nat /\ lastVer >= 2 /\ Even(lastVer)
    BY RetireAssumption DEF Init, Even
  <2>2. Even(2) /\ Even(0)
    BY DEF Even
  <2>3. VersionOrder
    BY <2>1, <2>2 DEF Init, VersionOrder
  <2>4. \A t \in Threads : Changing(t)
    BY <2>1, <2>2 DEF Init, Changing, ChangePC
  <2>5. Emptied
    BY DEF Init, Emptied
  <2> QED
    BY <2>3, <2>4, <2>5 DEF Versions
<1>4. Stamps
  <2>1. Even(0)
    BY DEF Even
  <2> QED
    BY <2>1 DEF Init, Stamps, StampPC, NoWord
<1> QED
  BY <1>2, <1>3, <1>4

\* The caches at the start, and their lengths.
LEMMA InitCaches == Init => CacheInv /\ Lengths
<1> SUFFICES ASSUME Init PROVE CacheInv /\ Lengths
  OBVIOUS
<1>1. Exclusive
  BY InitStacks DEF Exclusive, OneEach, Apart, Init
<1>2. Free \cup Pending \cup Pushed \subseteq Caches
  BY InitTypes, ReferencedCaches
<1>3. Ends
  BY <1>2, InitStacks DEF Ends
<1>4. \A t \in Threads : Remembered(t)
  BY DEF Init, Remembered
<1>5. Lengths
  <2>1. \A c \in Caches : Len(ptrs[c]) <= PerCache
    BY RetireAssumption, ShortSequences DEF Init, Caches
  <2>2. \A t \in Threads : op[t] # "insert"
    BY DEF Init
  <2> QED
    BY <2>1, <2>2, InitStacks DEF Lengths
<1> QED
  BY <1>1, <1>3, <1>4, <1>5 DEF CacheInv

\* The objects at the start.
LEMMA InitObjects == Init => OneHome /\ NoneTwice
<1> SUFFICES ASSUME Init PROVE OneHome /\ NoneTwice
  OBVIOUS
<1>1. /\ linked = {} /\ forgotten = {} /\ \A t \in Threads : own[t] = NoObject
      /\ \A t \in Threads, k \in Nat : Held(t, k) = {}
  BY InitStacks DEF Init, Held
<1>2. Len(Stock) \in Nat /\ DOMAIN Stock = 1 .. Len(Stock) /\ 1 .. Len(Stock) \subseteq Caches
  BY RetireAssumption DEF Caches
<1>3. \A c \in 1 .. Len(Stock) : ptrs[c] = Stock[c] /\ c \in Stored
  BY <1>2, InitStacks DEF Init, Caches
<1>4. Stored = 1 .. Len(Stock)
  BY InitStacks
<1>5. NoneTwice
  BY <1>2, <1>3, <1>4, InitStacks, RetireAssumption DEF NoneTwice
<1>6. ASSUME NEW o \in Objects PROVE \E h \in Homes : o \in Content(h)
  <2>1. PICK c \in DOMAIN Stock : o \in Range(Stock[c])
    BY <1>6, RetireAssumption
  <2>2. c \in Caches /\ o \in Shelf(c)
    BY <1>2, <1>3, <2>1 DEF Shelf
  <2>3. CacheOf(c) \in Homes /\ Content(CacheOf(c)) = Shelf(c)
    BY <2>2, HomesApart, HomeContents
  <2> QED
    BY <2>2, <2>3
<1>7. ASSUME NEW o \in Objects, NEW h \in Homes, o \in Content(h)
      PROVE  \E c \in DOMAIN Stock : h = CacheOf(c) /\ o \in Range(Stock[c])
  <2>1. PICK c \in Caches : h = CacheOf(c)
    BY <1>1, <1>7, HomeKinds, HomeContents
  <2>2. o \in Shelf(c)
    BY <1>7, <2>1, HomeContents
  <2>3. c \in Stored /\ o \in Range(ptrs[c])
    BY <2>2 DEF Shelf
  <2> QED
    BY <1>2, <1>3, <1>4, <2>1, <2>3
<1>8. ASSUME NEW o \in Objects, NEW h \in Homes, NEW j \in Homes, o \in Content(h), o \in Content(j)
      PROVE  h = j
  <2>1. PICK c \in DOMAIN Stock : h = CacheOf(c) /\ o \in Range(Stock[c])
    BY <1>7, <1>8
  <2>2. PICK d \in DOMAIN Stock : j = CacheOf(d) /\ o \in Range(Stock[d])
    BY <1>7, <1>8
  <2>3. c = d
    BY <2>1, <2>2, RetireAssumption
  <2> QED
    BY <2>1, <2>2, <2>3
<1> QED
  BY <1>5, <1>6, <1>8 DEF OneHome

-----------------------------------------------------------------------------
(* The invariant without the hazard pointers.                              *)

\* A step of a thread preserves the structure.
LEMMA StepStructure ==
    ASSUME NEW t \in Threads, Structure, Step(t), UNCHANGED lastVer
    PROVE  Structure'
<1>1. Types /\ Control /\ Versions /\ Stamps /\ CacheInv /\ Lengths /\ OneHome /\ NoneTwice
  BY DEF Structure
<1>2. Types'
  BY <1>1, StepTypes
<1>3. Control'
  BY <1>1, <1>2, StepControl
<1>4. Versions' /\ Stamps' /\ CacheInv'
  BY <1>1, <1>2, StepVersions, StepStamps, StepCaches
<1>5. Lengths' /\ OneHome' /\ NoneTwice'
  BY <1>1, <1>2, <1>3, StepLengths, StepHome, StepTwice
<1> QED
  BY <1>2, <1>3, <1>4, <1>5 DEF Structure

\* When nothing changes the structure does not.
LEMMA StutterStructure ==
    ASSUME Structure, UNCHANGED vars
    PROVE  Structure'
<1>0. /\ UNCHANGED <<reclaim, toProcess, head, next, ptrs, allocCache, freeCache, dirties, HPs>>
      /\ UNCHANGED <<op, ref, own, linked, left, forgotten, localVer, hps, calls>>
      /\ UNCHANGED <<reg, nxt, seen, i, pc, lastVer>>
  BY DEF vars, shared, caches, records, operation, regs
<1>1. Types' /\ Control'
  <2>1. Types'
    BY <1>0 DEF Structure, Types
  <2>2. \A t \in Threads : CallsOf(t)' /\ OperationOf(t)' /\ RegistersOf(t)'
    BY <1>0 DEF Structure, Control, CallsOf, OperationOf, RegistersOf, Top, Waiting, Scanning
  <2> QED
    BY <2>1, <2>2 DEF Control
<1>2. Versions' /\ Stamps'
  <2>1. VersionOrder' /\ Emptied'
    BY <1>0 DEF Structure, Versions, VersionOrder, Emptied
  <2>2. \A t \in Threads : Changing(t)'
    BY <1>0 DEF Structure, Versions, Changing
  <2>3. \A u \in Threads : RecordOf(u) /\ StamperOf(u)
    BY StampsParts DEF Structure
  <2>4. \A u \in Threads : RecordOf(u)' /\ StamperOf(u)'
    BY <1>0, <2>3 DEF RecordOf, StamperOf, Attempt
  <2>5. Stamps'
    BY <2>4 DEF Stamps, RecordOf, StamperOf
  <2> QED
    BY <2>1, <2>2, <2>5 DEF Versions
<1>3. Free' = Free /\ Pending' = Pending /\ Pushed' = Pushed
  BY <1>0 DEF Free, Pending, Pushed, Chain
<1>4. \A t \in Threads : Mine(t)' = Mine(t) /\ Popped(t)' = Popped(t) /\ Entries(t)' = Entries(t)
  BY <1>0 DEF Mine, Popped, Entries
<1>5. CacheInv'
  <2>1. Exclusive'
    BY <1>0, <1>3, <1>4 DEF Structure, CacheInv, Exclusive, OneEach, Apart
  <2>2. Ends'
    BY <1>0, <1>3 DEF Structure, CacheInv, Ends, Chain
  <2>3. Coming' = Coming
    BY <1>0, <1>3, <1>4 DEF Coming, Bringing
  <2>4. \A t \in Threads : Remembered(t)'
    BY <1>0, <1>3, <2>3 DEF Structure, CacheInv, Remembered
  <2> QED
    BY <2>1, <2>2, <2>4 DEF CacheInv
<1>6. Stored' = Stored
  BY <1>0, <1>3, <1>4 DEF Stored
<1>7. Unmoved
  <2>1. \A c \in Caches : Shelf(c)' = Shelf(c)
    BY <1>0, <1>6 DEF Shelf
  <2>2. \A u \in Threads, k \in Nat : Held(u, k)' = Held(u, k)
    BY <1>0 DEF Held
  <2> QED
    BY <1>0, <2>1, <2>2, UnmovedParts
<1>8. OneHome' /\ Lengths' /\ NoneTwice'
  BY <1>0, <1>6, <1>7, UnmovedHome DEF Structure, Lengths, NoneTwice
<1> QED
  BY <1>1, <1>2, <1>5, <1>8 DEF Structure

\* The structure is an invariant: control, versions, stamps, stacks, and where the objects are.
THEOREM StructureInvariant == Spec => []Structure
<1>1. Init => Structure
  BY InitTypes, InitControl, InitCaches, InitObjects DEF Structure
<1>2. Structure /\ [Next]_vars => Structure'
  <2> SUFFICES ASSUME Structure, [Next]_vars PROVE Structure'
    OBVIOUS
  <2>1. CASE UNCHANGED vars
    BY <2>1, StutterStructure
  <2>2. CASE Next
    BY <2>1, <2>2, StepStructure DEF Next, AtBound
  <2> QED
    BY <2>1, <2>2
<1> QED
  BY <1>1, <1>2, PTL DEF Spec

\* The variables have their types, and no thread or record is ahead of toProcess, which is at most one
\* version from reclaim.
THEOREM TypeCorrect == Spec => []TypeOK
<1>1. Structure => TypeOK
  <2> SUFFICES ASSUME Structure PROVE TypeOK
    OBVIOUS
  <2>1. Types /\ Versions /\ Stamps /\ Lengths
    BY DEF Structure
  <2>2. VersionOrder /\ lastVer \in Nat /\ reclaim.ver \in Nat /\ toProcess.ver \in Nat
    BY <2>1, VersionNumbers DEF Versions
  <2>3. reclaim \in [head : 0 .. NumCaches, ver : 2 .. lastVer]
    <3>1. reclaim.ver \in 2 .. lastVer
      BY <2>2 DEF VersionOrder
    <3> QED
      BY <2>1, <3>1 DEF Types, Versioned, Pointers
  <2>4. toProcess \in [head : 0 .. NumCaches, ver : {v \in 2 .. lastVer : v % 2 = 0}]
    <3>1. toProcess.ver \in {v \in 2 .. lastVer : v % 2 = 0}
      BY <2>2 DEF VersionOrder, Even
    <3> QED
      BY <2>1, <3>1 DEF Types, Versioned, Pointers
  <2>5. toProcess.ver \in {reclaim.ver - 1, reclaim.ver, reclaim.ver + 1}
    BY <2>2 DEF VersionOrder
  <2>6. head \in 0 .. NumCaches /\ next \in [Caches -> 0 .. NumCaches] /\ linked \subseteq Objects
    BY <2>1 DEF Types, Pointers
  <2>7. \A c \in Caches : Len(ptrs[c]) <= PerCache
    BY <2>1 DEF Lengths
  <2>8. dirties \in [Threads -> [ver : 0 .. toProcess.ver, dirty : BOOLEAN]]
    <3>1. ASSUME NEW u \in Threads PROVE dirties[u] \in [ver : 0 .. toProcess.ver, dirty : BOOLEAN]
      <4>1. dirties[u] \in Words /\ dirties[u].ver <= toProcess.ver
        BY <2>1 DEF Types, Stamps
      <4>2. dirties[u].ver \in 0 .. toProcess.ver
        BY <2>2, <4>1 DEF Words
      <4> QED
        BY <4>1, <4>2 DEF Words
    <3> QED
      BY <2>1, <3>1 DEF Types
  <2>9. localVer \in [Threads -> 0 .. toProcess.ver]
    BY <2>1, <2>2 DEF Types, Versions, Changing
  <2> QED
    BY <2>3, <2>4, <2>5, <2>6, <2>7, <2>8, <2>9 DEF TypeOK
<1> QED
  BY <1>1, StructureInvariant, PTL

\* pop's assertion: the successor that a thread has read is still there after its CAS.
THEOREM EntryUntouched == Spec => []Untouched
<1>1. Structure => Untouched
  BY DEF Structure, CacheInv, Remembered, Untouched
<1> QED
  BY <1>1, StructureInvariant, PTL

\* A phase change moves to toProcess only when everything there was taken.
THEOREM ProcessedBeforeMove == Spec => MovedWhenEmpty
<1>1. Structure /\ [Next]_vars => [toProcess'.ver # toProcess.ver => toProcess.head = NULL]_vars
  <2> SUFFICES ASSUME Structure, Next, toProcess'.ver # toProcess.ver PROVE toProcess.head = NULL
    OBVIOUS
  <2>1. Types /\ Control /\ Versions
    BY DEF Structure
  <2>2. PICK t \in Threads : Step(t) /\ UNCHANGED lastVer
    BY DEF Next, AtBound, vars, shared
  <2>3. Move(t) /\ localVer[t] = toProcess.ver
    BY <2>1, <2>2, VersionSteps
  <2> QED
    BY <2>1, <2>2, <2>3, MoveVersions
<1> QED
  BY <1>1, StructureInvariant, PTL DEF Spec, MovedWhenEmpty

\* palloc's CAS takes the cache at the head and installs its successor.
THEOREM HeadTakesSuccessor == Spec => TakesSuccessor
<1>1. Structure /\ Structure' /\ [Next]_vars
        => [\A t \in Threads : head' # head /\ HeadCas(t) => head' = next[head]]_vars
  <2> SUFFICES ASSUME Structure, Structure', Next, NEW t \in Threads, head' # head, HeadCas(t)
               PROVE  head' = next[head]
    OBVIOUS
  <2>1. Step(t)
    BY DEF Step
  <2> QED
    BY <2>1, TakeStacks DEF Structure
<1> QED
  BY <1>1, StructureInvariant, PTL DEF Spec, TakesSuccessor

-----------------------------------------------------------------------------
(* Every object is in one place.                                           *)

\* Where a cache that counts is.
Kept(c, place, n) ==
    \/ place = "free" /\ n = c /\ c \in Free
    \/ place = "retired" /\ n = c /\ c \in Pending \cup Pushed
    \/ place = "allocCache" /\ n \in Threads /\ c = allocCache[n] /\ c # NULL
    \/ place = "freeCache" /\ n \in Threads /\ c = freeCache[n] /\ c # NULL
    \/ place = "popped" /\ n \in Threads /\ c = Popped(n) /\ c # NULL

\* The object o is at home in h when it is in the place p.
AtHome(p, h, o) ==
    /\ h \in Homes /\ o \in Content(h) /\ o \in Objects
    /\ \/ h = InList /\ p = <<"linked", 0, o>>
       \/ h = Dropped /\ p = <<"forgotten", 0, o>>
       \/ \E t \in Threads : h = OwnOf(t) /\ p = <<"own", t, o>>
       \/ \E t \in Threads, k \in Nat : h = CallOf(t, k) /\ p = <<"call", <<t, k>>, o>>
       \/ \E c \in Caches : \E place, n : h = CacheOf(c) /\ Kept(c, place, n) /\ p = <<place, n, o>>

\* A cache that counts is somewhere, and only there.
LEMMA KeptOnce ==
    ASSUME Types, CacheInv, NEW c \in Caches
    PROVE  /\ c \in Stored <=> \E place, n : Kept(c, place, n)
           /\ \A place, n, other, m : Kept(c, place, n) /\ Kept(c, other, m) => place = other /\ n = m
<1>0. c # NULL
  BY ConstantTypes
<1>1. ASSUME NEW place, NEW n, Kept(c, place, n) PROVE c \in Stored
  BY <1>0, <1>1 DEF Kept, Stored
<1>2. ASSUME c \in Stored PROVE \E place, n : Kept(c, place, n)
  <2>1. CASE c \in Free
    <3>1. Kept(c, "free", c)
      BY <2>1 DEF Kept
    <3> QED
      BY <3>1
  <2>2. CASE c \in Pending \cup Pushed
    <3>1. Kept(c, "retired", c)
      BY <2>2 DEF Kept
    <3> QED
      BY <3>1
  <2>3. ASSUME NEW t \in Threads, c \in {allocCache[t], freeCache[t], Popped(t)} PROVE \E place, n : Kept(c, place, n)
    <3>1. Kept(c, "allocCache", t) \/ Kept(c, "freeCache", t) \/ Kept(c, "popped", t)
      BY <1>0, <2>3 DEF Kept
    <3> QED
      BY <3>1
  <2> QED
    BY <1>2, <2>1, <2>2, <2>3 DEF Stored
<1>3. ASSUME NEW place, NEW n, NEW other, NEW m, Kept(c, place, n), Kept(c, other, m)
      PROVE  place = other /\ n = m
  <2>1. Exclusive
    BY DEF CacheInv
  <2>2. \A u \in Threads : c \in {allocCache[u], freeCache[u], Popped(u)} =>
            c \in Mine(u) /\ c \notin Free \cup Pending \cup Pushed
    BY <1>0, <2>1 DEF Mine, Exclusive
  <2>3. \A u, v \in Threads : c \in Mine(u) /\ c \in Mine(v) => u = v
    BY <2>1 DEF Exclusive
  <2>4. Free \cap (Pending \cup Pushed) = {}
    BY <2>1 DEF Exclusive
  <2>5. CASE c \in Free \cup Pending \cup Pushed
    BY <1>3, <2>2, <2>4, <2>5 DEF Kept
  <2>6. CASE c \notin Free \cup Pending \cup Pushed
    <3>1. n \in Threads /\ m \in Threads /\ c \in Mine(n) /\ c \in Mine(m)
      BY <1>0, <1>3, <2>2, <2>6 DEF Kept
    <3>2. n = m /\ OneEach(n)
      BY <2>1, <2>3, <3>1 DEF Exclusive
    <3> QED
      BY <1>0, <1>3, <2>6, <3>1, <3>2 DEF Kept, OneEach
  <2> QED
    BY <2>5, <2>6
<1> QED
  BY <1>1, <1>2, <1>3

\* The places, kind by kind.
LEMMA PlaceKinds ==
    ASSUME Types, NEW p
    PROVE  p \in Places <=>
           \E o :
              \/ o \in linked /\ p = <<"linked", 0, o>>
              \/ o \in forgotten /\ p = <<"forgotten", 0, o>>
              \/ \E t \in Threads : o \in {own[t]} \ {NoObject} /\ p = <<"own", t, o>>
              \/ \E t \in Threads, k \in Nat : o \in Held(t, k) /\ p = <<"call", <<t, k>>, o>>
              \/ \E c \in Caches : \E place, n : Kept(c, place, n) /\ o \in Range(ptrs[c]) /\ p = <<place, n, o>>
<1> DEFINE CallPlaces(t) == UNION {In("call", <<t, k>>, InCall(calls[t][k])) : k \in DOMAIN calls[t]}
           OwnPlaces(t) == In("own", t, {own[t]} \ {NoObject})
           A(t) == InCache("allocCache", t, allocCache[t])
           F(t) == InCache("freeCache", t, freeCache[t])
           P(t) == InCache("popped", t, IF pc[t] = "repair" THEN reg[t].head ELSE NULL)
           L == In("linked", 0, linked)
           D == In("forgotten", 0, forgotten)
           Fr == UNION {InCache("free", c, c) : c \in Chain(head)}
           Re == UNION {InCache("retired", c, c) : c \in Retired}
<1>1. p \in Places <=>
        \/ p \in L \/ p \in D \/ p \in Fr \/ p \in Re
        \/ \E t \in Threads : p \in OwnPlaces(t) \/ p \in A(t) \/ p \in F(t) \/ p \in P(t) \/ p \in CallPlaces(t)
  <2>1. p \in Places <=> p \in L \/ p \in D \/ p \in Fr \/ p \in Re \/ \E t \in Threads : p \in PlacesOf(t)
    <3>1. Places = L \cup D \cup Fr \cup Re \cup UNION {PlacesOf(t) : t \in Threads}
      BY DEF Places
    <3> HIDE DEF L, D, Fr, Re
    <3> QED
      BY <3>1
  <2>2. \A t \in Threads : PlacesOf(t) = OwnPlaces(t) \cup A(t) \cup F(t) \cup P(t) \cup CallPlaces(t)
    BY DEF PlacesOf
  <2> HIDE DEF CallPlaces, OwnPlaces, A, F, P, L, D, Fr, Re
  <2> QED
    BY <2>1, <2>2
<1>2. (p \in L <=> \E o : o \in linked /\ p = <<"linked", 0, o>>)
      /\ (p \in D <=> \E o : o \in forgotten /\ p = <<"forgotten", 0, o>>)
  BY DEF In
<1>3. ASSUME NEW t \in Threads PROVE p \in OwnPlaces(t) <=> \E o : o \in {own[t]} \ {NoObject} /\ p = <<"own", t, o>>
  BY DEF In
<1>4. ASSUME NEW t \in Threads
      PROVE  p \in CallPlaces(t) <=> \E o : \E k \in Nat : o \in Held(t, k) /\ p = <<"call", <<t, k>>, o>>
  <2>1. DOMAIN calls[t] \subseteq Nat
    <3>1. calls[t] \in Seq(Frames)
      BY DEF Types
    <3> QED
      BY <3>1
  <2>2. p \in CallPlaces(t) <=> \E k \in DOMAIN calls[t] : p \in In("call", <<t, k>>, InCall(calls[t][k]))
    OBVIOUS
  <2>3. \A k \in DOMAIN calls[t] : Held(t, k) = InCall(calls[t][k])
    BY DEF Held
  <2>4. \A k : k \notin DOMAIN calls[t] => Held(t, k) = {}
    BY DEF Held
  <2>5. \A k \in DOMAIN calls[t] :
          p \in In("call", <<t, k>>, InCall(calls[t][k])) <=> \E o \in Held(t, k) : p = <<"call", <<t, k>>, o>>
    BY <2>3 DEF In
  <2> HIDE DEF CallPlaces
  <2> QED
    BY <2>1, <2>2, <2>4, <2>5
<1>5. ASSUME NEW place, NEW n, NEW c
      PROVE  p \in InCache(place, n, c) <=> c # NULL /\ \E o : o \in Range(ptrs[c]) /\ p = <<place, n, o>>
  BY DEF InCache, In
<1>6. Chain(head) = Free /\ Retired = Pending \cup Pushed
  BY DEF Free, Retired, Pending, Pushed
<1>7. Free \cup Pending \cup Pushed \subseteq Caches /\ NULL \notin Caches
  BY ReferencedCaches, ConstantTypes
<1>8. (p \in Fr <=> \E c \in Free : p \in InCache("free", c, c))
      /\ (p \in Re <=> \E c \in Pending \cup Pushed : p \in InCache("retired", c, c))
  BY <1>6
<1>9. (p \in Fr <=> \E c \in Free : \E o : o \in Range(ptrs[c]) /\ p = <<"free", c, o>>)
      /\ (p \in Re <=> \E c \in Pending \cup Pushed : \E o : o \in Range(ptrs[c]) /\ p = <<"retired", c, o>>)
  BY <1>5, <1>7, <1>8
<1>10. ASSUME NEW t \in Threads
       PROVE  /\ p \in A(t) <=> \E o : allocCache[t] # NULL /\ o \in Range(ptrs[allocCache[t]]) /\ p = <<"allocCache", t, o>>
              /\ p \in F(t) <=> \E o : freeCache[t] # NULL /\ o \in Range(ptrs[freeCache[t]]) /\ p = <<"freeCache", t, o>>
              /\ p \in P(t) <=> \E o : Popped(t) # NULL /\ o \in Range(ptrs[Popped(t)]) /\ p = <<"popped", t, o>>
  BY <1>5 DEF Popped
<1>11. \A t \in Threads :
         /\ allocCache[t] # NULL => allocCache[t] \in Caches
         /\ freeCache[t] # NULL => freeCache[t] \in Caches
         /\ Popped(t) # NULL => Popped(t) \in Caches
  BY ConstantTypes DEF Types, Popped, Versioned
<1> DEFINE InKept(o) == \E c \in Caches : \E place, n : Kept(c, place, n) /\ o \in Range(ptrs[c]) /\ p = <<place, n, o>>
<1>12. (p \in Fr \/ p \in Re \/ \E t \in Threads : p \in A(t) \/ p \in F(t) \/ p \in P(t)) <=> \E o : InKept(o)
  <2>1. ASSUME NEW o, InKept(o) PROVE p \in Fr \/ p \in Re \/ \E t \in Threads : p \in A(t) \/ p \in F(t) \/ p \in P(t)
    <3> HIDE DEF Fr, Re, A, F, P
    <3> QED
      BY <1>9, <1>10, <2>1 DEF Kept
  <2>2. ASSUME p \in Fr \/ p \in Re PROVE \E o : InKept(o)
    <3> HIDE DEF Fr, Re
    <3> QED
      BY <1>7, <1>9, <2>2 DEF Kept
  <2>3. ASSUME NEW t \in Threads, p \in A(t) \/ p \in F(t) \/ p \in P(t) PROVE \E o : InKept(o)
    <3> HIDE DEF A, F, P
    <3> QED
      BY <1>10, <1>11, <2>3 DEF Kept
  <2> HIDE DEF Fr, Re, A, F, P, InKept
  <2> QED
    BY <2>1, <2>2, <2>3
<1> HIDE DEF CallPlaces, OwnPlaces, L, D, Fr, Re, A, F, P, InKept
<1>13. p \in Places <=>
         \E o : \/ o \in linked /\ p = <<"linked", 0, o>>
                \/ o \in forgotten /\ p = <<"forgotten", 0, o>>
                \/ \E t \in Threads : o \in {own[t]} \ {NoObject} /\ p = <<"own", t, o>>
                \/ \E t \in Threads, k \in Nat : o \in Held(t, k) /\ p = <<"call", <<t, k>>, o>>
                \/ InKept(o)
  BY <1>1, <1>2, <1>3, <1>4, <1>12
<1> QED
  BY <1>13 DEF InKept

\* A place is a home with an object in it.
LEMMA PlacesHomes ==
    ASSUME Structure
    PROVE  /\ \A p \in Places : \E h, o : AtHome(p, h, o) /\ p[3] = o
           /\ \A h \in Homes : \A o \in Objects : o \in Content(h) => \E p \in Places : AtHome(p, h, o) /\ p[3] = o
<1>1. Types /\ CacheInv
  BY DEF Structure
<1>2. /\ \A t \in Threads, k \in Nat : Held(t, k) \subseteq Objects
      /\ \A c \in Caches : Range(ptrs[c]) \subseteq Objects
      /\ linked \subseteq Objects /\ forgotten \subseteq Objects
      /\ \A t \in Threads : {own[t]} \ {NoObject} \subseteq Objects
  <2>1. ASSUME NEW t \in Threads, NEW k \in Nat PROVE Held(t, k) \subseteq Objects
    <3>1. calls[t] \in Seq(Frames)
      BY <1>1 DEF Types
    <3>2. k \in DOMAIN calls[t] => calls[t][k] \in Frames
      BY <3>1
    <3> QED
      BY <3>2, InCallParts DEF Held
  <2> QED
    BY <1>1, <2>1, ShortSequences DEF Types, ObjectOrNone
<1>3. \A c \in Caches : c \in Stored => Content(CacheOf(c)) = Range(ptrs[c])
  BY HomeContents DEF Shelf
<1>4. ASSUME NEW p \in Places PROVE \E h, o : AtHome(p, h, o) /\ p[3] = o
  <2>1. PICK o :
              \/ o \in linked /\ p = <<"linked", 0, o>>
              \/ o \in forgotten /\ p = <<"forgotten", 0, o>>
              \/ \E t \in Threads : o \in {own[t]} \ {NoObject} /\ p = <<"own", t, o>>
              \/ \E t \in Threads, k \in Nat : o \in Held(t, k) /\ p = <<"call", <<t, k>>, o>>
              \/ \E c \in Caches : \E place, n : Kept(c, place, n) /\ o \in Range(ptrs[c]) /\ p = <<place, n, o>>
    BY <1>1, <1>4, PlaceKinds
  <2>2. p[3] = o
    BY <2>1
  <2>3. CASE o \in linked /\ p = <<"linked", 0, o>>
    <3>1. AtHome(p, InList, o)
      BY <1>2, <2>3, HomeContents, HomesApart DEF AtHome
    <3> QED
      BY <2>2, <3>1
  <2>4. CASE o \in forgotten /\ p = <<"forgotten", 0, o>>
    <3>1. AtHome(p, Dropped, o)
      BY <1>2, <2>4, HomeContents, HomesApart DEF AtHome
    <3> QED
      BY <2>2, <3>1
  <2>5. ASSUME NEW t \in Threads, o \in {own[t]} \ {NoObject}, p = <<"own", t, o>> PROVE \E h : AtHome(p, h, o)
    <3>1. AtHome(p, OwnOf(t), o)
      BY <1>2, <2>5, HomeContents, HomesApart DEF AtHome
    <3> QED
      BY <3>1
  <2>6. ASSUME NEW t \in Threads, NEW k \in Nat, o \in Held(t, k), p = <<"call", <<t, k>>, o>> PROVE \E h : AtHome(p, h, o)
    <3>1. AtHome(p, CallOf(t, k), o)
      BY <1>2, <2>6, HomeContents, HomesApart DEF AtHome
    <3> QED
      BY <3>1
  <2>7. ASSUME NEW c \in Caches, NEW place, NEW n, Kept(c, place, n), o \in Range(ptrs[c]), p = <<place, n, o>>
        PROVE  \E h : AtHome(p, h, o)
    <3>1. CacheOf(c) \in Homes /\ o \in Content(CacheOf(c)) /\ o \in Objects
      BY <1>1, <1>2, <1>3, <2>7, KeptOnce, HomesApart
    <3>2. AtHome(p, CacheOf(c), o)
      BY <2>7, <3>1 DEF AtHome
    <3> QED
      BY <3>2
  <2> QED
    BY <2>1, <2>2, <2>3, <2>4, <2>5, <2>6, <2>7
<1>5. ASSUME NEW h \in Homes, NEW o \in Objects, o \in Content(h)
      PROVE  \E p \in Places : AtHome(p, h, o) /\ p[3] = o
  <2>1. CASE h = InList
    <3>1. <<"linked", 0, o>> \in Places
      BY <1>1, <1>5, <2>1, PlaceKinds, HomeContents
    <3>2. AtHome(<<"linked", 0, o>>, h, o) /\ <<"linked", 0, o>>[3] = o
      BY <1>5, <2>1 DEF AtHome
    <3> QED
      BY <3>1, <3>2
  <2>2. CASE h = Dropped
    <3>1. <<"forgotten", 0, o>> \in Places
      BY <1>1, <1>5, <2>2, PlaceKinds, HomeContents
    <3>2. AtHome(<<"forgotten", 0, o>>, h, o) /\ <<"forgotten", 0, o>>[3] = o
      BY <1>5, <2>2 DEF AtHome
    <3> QED
      BY <3>1, <3>2
  <2>3. ASSUME NEW t \in Threads, h = OwnOf(t) PROVE \E p \in Places : AtHome(p, h, o) /\ p[3] = o
    <3>1. <<"own", t, o>> \in Places
      BY <1>1, <1>5, <2>3, PlaceKinds, HomeContents
    <3>2. AtHome(<<"own", t, o>>, h, o) /\ <<"own", t, o>>[3] = o
      BY <1>5, <2>3 DEF AtHome
    <3> QED
      BY <3>1, <3>2
  <2>4. ASSUME NEW t \in Threads, NEW k \in Nat, h = CallOf(t, k) PROVE \E p \in Places : AtHome(p, h, o) /\ p[3] = o
    <3>1. <<"call", <<t, k>>, o>> \in Places
      BY <1>1, <1>5, <2>4, PlaceKinds, HomeContents
    <3>2. AtHome(<<"call", <<t, k>>, o>>, h, o) /\ <<"call", <<t, k>>, o>>[3] = o
      BY <1>5, <2>4 DEF AtHome
    <3> QED
      BY <3>1, <3>2
  <2>5. ASSUME NEW c \in Caches, h = CacheOf(c) PROVE \E p \in Places : AtHome(p, h, o) /\ p[3] = o
    <3>1. c \in Stored /\ o \in Range(ptrs[c])
      BY <1>5, <2>5, HomeContents DEF Shelf
    <3>2. PICK place, n : Kept(c, place, n)
      BY <1>1, <3>1, KeptOnce
    <3>3. <<place, n, o>> \in Places
      BY <1>1, <3>1, <3>2, PlaceKinds
    <3>4. AtHome(<<place, n, o>>, h, o) /\ <<place, n, o>>[3] = o
      BY <1>5, <2>5, <3>2 DEF AtHome
    <3> QED
      BY <3>3, <3>4
  <2> QED
    BY <1>5, <2>1, <2>2, <2>3, <2>4, <2>5, HomeKinds
<1> QED
  BY <1>4, <1>5

\* What is an operation's own, or in the hands of Recycle, is in that place.
LEMMA HandPlaces ==
    ASSUME NEW p, NEW o, NEW t \in Threads
    PROVE  /\ AtHome(p, OwnOf(t), o) => p = <<"own", t, o>>
           /\ \A k \in Nat : AtHome(p, CallOf(t, k), o) => p = <<"call", <<t, k>>, o>>
<1>1. ASSUME AtHome(p, OwnOf(t), o) PROVE p = <<"own", t, o>>
  <2>1. OwnOf(t) \notin {InList, Dropped}
        /\ \A u \in Threads, k \in Nat : OwnOf(t) # CallOf(u, k)
        /\ \A c \in Caches : OwnOf(t) # CacheOf(c)
    BY HomesApart DEF OwnOf, InList, Dropped, CallOf, CacheOf
  <2>2. PICK u \in Threads : OwnOf(t) = OwnOf(u) /\ p = <<"own", u, o>>
    BY <1>1, <2>1 DEF AtHome
  <2>3. t = u
    BY <2>2, HomesApart
  <2> QED
    BY <2>2, <2>3
<1>2. ASSUME NEW k \in Nat, AtHome(p, CallOf(t, k), o) PROVE p = <<"call", <<t, k>>, o>>
  <2>1. CallOf(t, k) \notin {InList, Dropped}
        /\ \A u \in Threads : CallOf(t, k) # OwnOf(u)
        /\ \A c \in Caches : CallOf(t, k) # CacheOf(c)
    BY HomesApart DEF OwnOf, InList, Dropped, CallOf, CacheOf
  <2>2. PICK u \in Threads, j \in Nat : CallOf(t, k) = CallOf(u, j) /\ p = <<"call", <<u, j>>, o>>
    BY <1>2, <2>1 DEF AtHome
  <2>3. t = u /\ k = j
    BY <2>2, HomesApart
  <2> QED
    BY <2>2, <2>3
<1> QED
  BY <1>1, <1>2

\* Every object is in exactly one place, through the phase changes too, when
\* Freeze loads the version before the head.
THEOREM ObjectsOnce == Spec => []EachOnce
<1>1. Structure => EachOnce
  <2> SUFFICES ASSUME Structure PROVE EachOnce
    OBVIOUS
  <2>0. Types /\ CacheInv /\ OneHome
    BY DEF Structure
  <2>1. Objects = {p[3] : p \in Places}
    <3>1. ASSUME NEW o \in Objects PROVE \E p \in Places : p[3] = o
      BY <2>0, PlacesHomes DEF OneHome
    <3>2. ASSUME NEW p \in Places PROVE p[3] \in Objects
      BY PlacesHomes DEF AtHome
    <3> QED
      BY <3>1, <3>2
  <2>2. ASSUME NEW p \in Places, NEW q \in Places, p[3] = q[3] PROVE p = q
    <3>1. PICK o, h : AtHome(p, h, o) /\ p[3] = o
      BY PlacesHomes
    <3>2. PICK j : AtHome(q, j, o)
      BY <2>2, <3>1, PlacesHomes
    <3>3. h = j /\ h \in Homes
      BY <2>0, <3>1, <3>2 DEF AtHome, OneHome
    <3>4. CASE h = InList
      BY <3>1, <3>2, <3>3, <3>4, HomesApart DEF AtHome
    <3>5. CASE h = Dropped
      BY <3>1, <3>2, <3>3, <3>5, HomesApart DEF AtHome
    <3>6. ASSUME NEW t \in Threads, h = OwnOf(t) PROVE p = q
      <4>1. p = <<"own", t, o>>
        BY <3>1, <3>6, HandPlaces
      <4>2. q = <<"own", t, o>>
        BY <3>2, <3>3, <3>6, HandPlaces
      <4> QED
        BY <4>1, <4>2
    <3>7. ASSUME NEW t \in Threads, NEW k \in Nat, h = CallOf(t, k) PROVE p = q
      <4>1. p = <<"call", <<t, k>>, o>>
        BY <3>1, <3>7, HandPlaces
      <4>2. q = <<"call", <<t, k>>, o>>
        <5>1. AtHome(q, CallOf(t, k), o)
          BY <3>2, <3>3, <3>7
        <5> QED
          BY <5>1, HandPlaces
      <4> QED
        BY <4>1, <4>2
    <3>8. ASSUME NEW c \in Caches, h = CacheOf(c) PROVE p = q
      <4>1. PICK place, n : Kept(c, place, n) /\ p = <<place, n, o>>
        BY <3>1, <3>8, HomesApart DEF AtHome
      <4>2. PICK other, m : Kept(c, other, m) /\ q = <<other, m, o>>
        BY <3>2, <3>3, <3>8, HomesApart DEF AtHome
      <4>3. place = other /\ n = m
        BY <2>0, <4>1, <4>2, KeptOnce
      <4> QED
        BY <4>1, <4>2, <4>3
    <3> QED
      BY <3>3, <3>4, <3>5, <3>6, <3>7, <3>8, HomeKinds
  <2> QED
    BY <2>1, <2>2 DEF EachOnce
<1> QED
  BY <1>1, StructureInvariant, PTL

-----------------------------------------------------------------------------
(* The objects that are free, and those that are live.                     *)

\* The caches whose objects are free, the free objects in the hands of a call, and the object of an insert.
FreeCaches == Free \cup ({allocCache[u] : u \in Threads} \ {NULL})
KeptOf(u, k) == IF k \in DOMAIN calls[u] THEN Range(calls[u][k].kept) ELSE {}
LiveOwn(u) == IF op[u] = "insert" THEN {own[u]} \ {NoObject} ELSE {}

\* FreeObjects and LiveObjects by their parts.
LEMMA FreeParts ==
    ASSUME Types
    PROVE  /\ \A o : o \in FreeObjects <=>
                \/ \E c \in FreeCaches : o \in Range(ptrs[c])
                \/ \E u \in Threads, k \in Nat : o \in KeptOf(u, k)
           /\ \A o : o \in LiveObjects <=> o \in linked \/ \E u \in Threads : o \in LiveOwn(u)
<1>1. \A u \in Threads : DOMAIN calls[u] \subseteq Nat
  <2>1. \A u \in Threads : calls[u] \in Seq(Frames)
    BY DEF Types
  <2> QED
    BY <2>1
<1> DEFINE A == UNION {Range(ptrs[c]) : c \in Chain(head)}
           B == UNION {Range(ptrs[allocCache[t]]) : t \in {u \in Threads : allocCache[u] # NULL}}
           C == UNION {UNION {Range(calls[t][k].kept) : k \in DOMAIN calls[t]} : t \in Threads}
<1>2. FreeObjects = A \cup B \cup C
  BY DEF FreeObjects
<1>3. ASSUME NEW o PROVE o \in A \/ o \in B <=> \E c \in FreeCaches : o \in Range(ptrs[c])
  BY DEF FreeCaches, Free
<1>4. ASSUME NEW o PROVE o \in C <=> \E u \in Threads, k \in Nat : o \in KeptOf(u, k)
  <2>1. o \in C <=> \E u \in Threads : \E k \in DOMAIN calls[u] : o \in Range(calls[u][k].kept)
    OBVIOUS
  <2> HIDE DEF C
  <2> QED
    BY <1>1, <2>1 DEF KeptOf
<1>5. ASSUME NEW o PROVE o \in LiveObjects <=> o \in linked \/ \E u \in Threads : o \in LiveOwn(u)
  BY DEF LiveObjects, LiveOwn
<1> HIDE DEF A, B, C
<1> QED
  BY <1>2, <1>3, <1>4, <1>5

\* The same in the next state.
LEMMA FreePartsThen ==
    ASSUME Types'
    PROVE  /\ \A o : o \in FreeObjects' <=>
                \/ \E c \in FreeCaches' : o \in Range(ptrs'[c])
                \/ \E u \in Threads, k \in Nat : o \in KeptOf(u, k)'
           /\ \A o : o \in LiveObjects' <=> o \in linked' \/ \E u \in Threads : o \in LiveOwn(u)'
<1>1. \A u \in Threads : DOMAIN calls'[u] \subseteq Nat
  <2>1. \A u \in Threads : calls'[u] \in Seq(Frames)
    BY DEF Types
  <2> QED
    BY <2>1
<1> DEFINE A == UNION {Range(ptrs'[c]) : c \in Reach(next', {head'})}
           B == UNION {Range(ptrs'[allocCache'[t]]) : t \in {u \in Threads : allocCache'[u] # NULL}}
           C == UNION {UNION {Range(calls'[t][k].kept) : k \in DOMAIN calls'[t]} : t \in Threads}
<1>2. FreeObjects' = A \cup B \cup C
  BY DEF FreeObjects, Chain
<1>3. ASSUME NEW o PROVE o \in A \/ o \in B <=> \E c \in FreeCaches' : o \in Range(ptrs'[c])
  BY DEF FreeCaches, Free, Chain
<1>4. ASSUME NEW o PROVE o \in C <=> \E u \in Threads, k \in Nat : o \in KeptOf(u, k)'
  <2>1. o \in C <=> \E u \in Threads : \E k \in DOMAIN calls'[u] : o \in Range(calls'[u][k].kept)
    OBVIOUS
  <2> HIDE DEF C
  <2> QED
    BY <1>1, <2>1 DEF KeptOf
<1>5. ASSUME NEW o PROVE o \in LiveObjects' <=> o \in linked' \/ \E u \in Threads : o \in LiveOwn(u)'
  BY DEF LiveObjects, LiveOwn
<1> HIDE DEF A, B, C
<1> QED
  BY <1>2, <1>3, <1>4, <1>5

\* The homes of what is free and of what is live.
LEMMA FreeHomes ==
    ASSUME Structure
    PROVE  /\ FreeCaches \subseteq Stored \cap Caches
           /\ \A u \in Threads, k \in Nat : KeptOf(u, k) \subseteq Held(u, k) \cap Objects
           /\ FreeObjects \subseteq Objects /\ LiveObjects \subseteq Objects
           /\ \A o \in FreeObjects : \/ \E c \in Caches : o \in Content(CacheOf(c))
                                     \/ \E u \in Threads, k \in Nat : o \in Content(CallOf(u, k))
           /\ \A u \in Threads : LiveOwn(u) \subseteq Content(OwnOf(u))
<1>0. Types /\ CacheInv
  BY DEF Structure
<1>1. FreeCaches \subseteq Stored \cap Caches
  <2>1. FreeCaches \subseteq Stored
    BY DEF FreeCaches, Stored
  <2> QED
    BY <1>0, <2>1, StoredParts, ConstantTypes
<1>2. ASSUME NEW u \in Threads, NEW k \in Nat PROVE KeptOf(u, k) \subseteq Held(u, k) \cap Objects
  <2>1. CASE k \in DOMAIN calls[u]
    <3>1. calls[u] \in Seq(Frames)
      BY <1>0 DEF Types
    <3>2. calls[u][k] \in Frames
      BY <2>1, <3>1
    <3>3. Range(calls[u][k].kept) \subseteq InCall(calls[u][k]) /\ InCall(calls[u][k]) \subseteq Objects
      BY <3>2, InCallParts DEF InCall
    <3> QED
      BY <2>1, <3>3 DEF KeptOf, Held
  <2>2. CASE k \notin DOMAIN calls[u]
    BY <2>2 DEF KeptOf
  <2> QED
    BY <2>1, <2>2
<1>3. \A c \in Caches : Range(ptrs[c]) \subseteq Objects
  BY <1>0, ShortSequences DEF Types
<1>4. FreeObjects \subseteq Objects
  BY <1>0, <1>1, <1>2, <1>3, FreeParts
<1>5. LiveObjects \subseteq Objects
  BY <1>0, FreeParts DEF Types, ObjectOrNone, LiveOwn
<1>6. ASSUME NEW o \in FreeObjects
      PROVE  \/ \E c \in Caches : o \in Content(CacheOf(c))
             \/ \E u \in Threads, k \in Nat : o \in Content(CallOf(u, k))
  <2>1. CASE \E c \in FreeCaches : o \in Range(ptrs[c])
    BY <1>1, <2>1, HomeContents DEF Shelf
  <2>2. CASE \E u \in Threads, k \in Nat : o \in KeptOf(u, k)
    BY <1>2, <2>2, HomeContents
  <2> QED
    BY <1>0, <2>1, <2>2, FreeParts
<1>7. \A u \in Threads : LiveOwn(u) \subseteq Content(OwnOf(u))
  BY HomeContents DEF LiveOwn
<1> QED
  BY <1>1, <1>2, <1>4, <1>5, <1>6, <1>7

\* What is free is not live, not linked, not forgotten and no operation's own.
LEMMA FreeApart ==
    ASSUME Structure, NEW o \in FreeObjects
    PROVE  o \notin LiveObjects /\ o \notin linked /\ o \notin forgotten /\ \A u \in Threads : own[u] # o
<1>0. OneHome /\ Types /\ o \in Objects
  BY FreeHomes DEF Structure
<1>1. PICK h \in Homes : o \in Content(h) /\ h \notin {InList, Dropped} /\ \A u \in Threads : h # OwnOf(u)
  <2>1. CASE \E c \in Caches : o \in Content(CacheOf(c))
    <3>1. PICK c \in Caches : o \in Content(CacheOf(c))
      BY <2>1
    <3>2. CacheOf(c) \in Homes /\ CacheOf(c) \notin {InList, Dropped} /\ \A u \in Threads : CacheOf(c) # OwnOf(u)
      BY <3>1, HomesApart DEF CacheOf, OwnOf
    <3> QED
      BY <3>1, <3>2
  <2>2. CASE \E u \in Threads, k \in Nat : o \in Content(CallOf(u, k))
    <3>1. PICK v \in Threads, k \in Nat : o \in Content(CallOf(v, k))
      BY <2>2
    <3>2. CallOf(v, k) \in Homes /\ CallOf(v, k) \notin {InList, Dropped} /\ \A u \in Threads : CallOf(v, k) # OwnOf(u)
      BY <3>1, HomesApart DEF CallOf, OwnOf
    <3> QED
      BY <3>1, <3>2
  <2> QED
    BY <2>1, <2>2, FreeHomes
<1>2. o \notin linked /\ o \notin forgotten
  BY <1>0, <1>1, HomeContents, HomesApart DEF OneHome
<1>3. \A u \in Threads : own[u] # o
  <2>1. ASSUME NEW u \in Threads, own[u] = o PROVE FALSE
    <3>1. o \in Content(OwnOf(u)) /\ OwnOf(u) \in Homes
      BY <1>0, <2>1, HomeContents, HomesApart, ConstantTypes
    <3> QED
      BY <1>0, <1>1, <3>1 DEF OneHome
  <2> QED
    BY <2>1
<1>4. o \notin LiveObjects
  BY <1>0, <1>2, <1>3, FreeParts DEF LiveOwn
<1> QED
  BY <1>2, <1>3, <1>4

\* An operation's own object is nobody else's, and is neither linked nor forgotten nor in a call.
LEMMA OwnApart ==
    ASSUME Structure, NEW u \in Threads, own[u] \in Objects
    PROVE  /\ own[u] \notin linked /\ own[u] \notin forgotten /\ own[u] \notin FreeObjects
           /\ \A v \in Threads : v # u => own[v] # own[u]
           /\ \A v \in Threads, k \in Nat : own[u] \notin Held(v, k)
<1>0. OneHome /\ own[u] \in Content(OwnOf(u)) /\ OwnOf(u) \in Homes
  BY HomeContents, HomesApart, ConstantTypes DEF Structure
<1>1. own[u] \notin linked /\ own[u] \notin forgotten
  BY <1>0, HomeContents, HomesApart DEF OneHome
<1>2. own[u] \notin FreeObjects
  BY FreeApart
<1>3. ASSUME NEW v \in Threads, v # u, own[v] = own[u] PROVE FALSE
  <2>1. own[u] \in Content(OwnOf(v)) /\ OwnOf(v) \in Homes /\ OwnOf(v) # OwnOf(u)
    BY <1>3, HomeContents, HomesApart, ConstantTypes
  <2> QED
    BY <1>0, <2>1 DEF OneHome
<1>4. ASSUME NEW v \in Threads, NEW k \in Nat, own[u] \in Held(v, k) PROVE FALSE
  <2>1. own[u] \in Content(CallOf(v, k)) /\ CallOf(v, k) \in Homes /\ CallOf(v, k) # OwnOf(u)
    BY <1>4, HomeContents, HomesApart DEF CallOf, OwnOf
  <2> QED
    BY <1>0, <2>1 DEF OneHome
<1> QED
  BY <1>1, <1>2, <1>3, <1>4

\* What is linked is in no call and in no cache that counts.
LEMMA LinkedApart ==
    ASSUME Structure, NEW o \in linked
    PROVE  /\ o \in Objects /\ o \notin FreeObjects /\ o \notin forgotten
           /\ \A v \in Threads, k \in Nat : o \notin Held(v, k)
           /\ \A c \in Stored : o \notin Range(ptrs[c])
<1>0. OneHome /\ Types /\ CacheInv /\ o \in Objects /\ o \in Content(InList) /\ InList \in Homes
  BY HomeContents, HomesApart DEF Structure, Types
<1>1. o \notin FreeObjects /\ o \notin forgotten
  BY <1>0, FreeApart, HomeContents, HomesApart DEF OneHome
<1>2. ASSUME NEW v \in Threads, NEW k \in Nat, o \in Held(v, k) PROVE FALSE
  <2>1. o \in Content(CallOf(v, k)) /\ CallOf(v, k) \in Homes /\ CallOf(v, k) # InList
    BY <1>2, HomeContents, HomesApart
  <2> QED
    BY <1>0, <2>1 DEF OneHome
<1>3. ASSUME NEW c \in Stored, o \in Range(ptrs[c]) PROVE FALSE
  <2>1. c \in Caches
    BY <1>0, StoredParts, ConstantTypes
  <2>2. o \in Content(CacheOf(c)) /\ CacheOf(c) \in Homes /\ CacheOf(c) # InList
    BY <1>3, <2>1, HomeContents, HomesApart DEF Shelf
  <2> QED
    BY <1>0, <2>2 DEF OneHome
<1> QED
  BY <1>0, <1>1, <1>2, <1>3

\* What a call has kept when the topmost one is replaced.
LEMMA KeptTop ==
    ASSUME NEW t \in Threads, Types, calls[t] # <<>>, NEW f \in Frames, SetTop(t, f), NEW n, n = Len(calls[t])
    PROVE  /\ n \in Nat /\ KeptOf(t, n) = Range(Top(t).kept) /\ KeptOf(t, n)' = Range(f.kept)
           /\ \A u \in Threads, k \in Nat : u # t \/ k # n => KeptOf(u, k)' = KeptOf(u, k)
<1>1. /\ \A u \in Threads : u # t => calls'[u] = calls[u]
      /\ DOMAIN calls'[t] = DOMAIN calls[t] /\ n \in DOMAIN calls[t] /\ n \in Nat
      /\ calls'[t][n] = f /\ Top(t) = calls[t][n]
      /\ \A k \in DOMAIN calls[t] : k # n => calls'[t][k] = calls[t][k]
  BY TopSet
<1>2. KeptOf(t, n) = Range(Top(t).kept)
  BY <1>1 DEF KeptOf
<1>3. KeptOf(t, n)' = Range(f.kept)
  BY <1>1 DEF KeptOf
<1>4. \A k \in Nat : k # n => KeptOf(t, k)' = KeptOf(t, k)
  BY <1>1 DEF KeptOf
<1>5. \A u \in Threads, k \in Nat : u # t => KeptOf(u, k)' = KeptOf(u, k)
  BY <1>1 DEF KeptOf
<1> QED
  BY <1>1, <1>2, <1>3, <1>4, <1>5

\* A call that begins or ends has kept nothing.
LEMMA KeptNothing ==
    ASSUME NEW t \in Threads, Types,
           \/ UNCHANGED calls
           \/ Trigger(t)
           \/ Return(t) /\ calls[t] # <<>> /\ Top(t) = NewCall
    PROVE  \A u \in Threads, k \in Nat : KeptOf(u, k)' = KeptOf(u, k)
<1>0. Range(NewCall.kept) = {}
  BY ShortSequences DEF NewCall
<1>1. CASE UNCHANGED calls
  BY <1>1 DEF KeptOf
<1>2. CASE Trigger(t)
  <2> DEFINE n == Len(calls[t])
  <2>1. /\ \A u \in Threads : u # t => calls'[u] = calls[u]
        /\ DOMAIN calls'[t] = 1 .. n + 1 /\ DOMAIN calls[t] = 1 .. n /\ n \in Nat
        /\ calls'[t][n + 1] = NewCall
        /\ \A k \in 1 .. n : calls'[t][k] = calls[t][k]
    BY <1>2, CallBegun
  <2>2. \A k \in Nat : (k \in 1 .. n + 1 <=> k \in 1 .. n \/ k = n + 1) /\ ~ (n + 1 \in 1 .. n)
    BY <2>1
  <2> HIDE DEF n
  <2>3. \A k \in Nat : KeptOf(t, k)' = KeptOf(t, k)
    BY <1>0, <2>1, <2>2 DEF KeptOf
  <2> QED
    BY <2>1, <2>3 DEF KeptOf
<1>3. CASE Return(t) /\ calls[t] # <<>> /\ Top(t) = NewCall
  <2> DEFINE n == Len(calls[t])
  <2>1. /\ \A u \in Threads : u # t => calls'[u] = calls[u]
        /\ DOMAIN calls'[t] = 1 .. n - 1 /\ DOMAIN calls[t] = 1 .. n /\ n \in Nat \ {0}
        /\ calls[t][n] = NewCall
        /\ \A k \in 1 .. n - 1 : calls'[t][k] = calls[t][k]
    BY <1>3, CallReturned, TopFrame
  <2>2. \A k \in Nat : (k \in 1 .. n <=> k \in 1 .. n - 1 \/ k = n) /\ ~ (n \in 1 .. n - 1)
    BY <2>1
  <2> HIDE DEF n
  <2>3. \A k \in Nat : KeptOf(t, k)' = KeptOf(t, k)
    BY <1>0, <2>1, <2>2 DEF KeptOf
  <2> QED
    BY <2>1, <2>3 DEF KeptOf
<1> QED
  BY <1>1, <1>2, <1>3

\* Only the loop over a cache and its end change what a call has kept.
LEMMA KeptSteps ==
    ASSUME NEW t \in Threads, Types, Control, Step(t), ~ (Scan(t) \/ GiveCas(t))
    PROVE  \A u \in Threads, k \in Nat : KeptOf(u, k)' = KeptOf(u, k)
<1>0. ASSUME NEW f \in Frames, calls[t] # <<>>, SetTop(t, f), Range(f.kept) = Range(Top(t).kept)
      PROVE  \A u \in Threads, k \in Nat : KeptOf(u, k)' = KeptOf(u, k)
  <2>1. PICK n : n = Len(calls[t])
    OBVIOUS
  <2>2. /\ KeptOf(t, n)' = KeptOf(t, n)
        /\ \A u \in Threads, k \in Nat : u # t \/ k # n => KeptOf(u, k)' = KeptOf(u, k)
    BY <1>0, <2>1, KeptTop
  <2> QED
    BY <2>2
<1>1. CASE Pop(t)
  <2>1. UNCHANGED calls \/ Return(t)
    BY <1>1 DEF Pop
  <2>2. pc[t] = "pop"
    BY <1>1 DEF Pop
  <2>3. calls[t] # <<>>
    BY <2>2 DEF Control, CallsOf, ListPC, PallocPC, FreePC
  <2>4. Top(t) = NewCall
    BY <2>2, <2>3, TopFrame DEF Control, CallsOf, FreePC, ScanPC
  <2> QED
    BY <2>1, <2>3, <2>4, KeptNothing
<1>2. CASE PushLink(t) \/ PopHead(t)
  <2>1. UNCHANGED calls \/ Trigger(t)
    BY <1>2 DEF PushLink, PopHead
  <2> QED
    BY <2>1, KeptNothing
<1>3. CASE Repair(t)
  <2>1. calls[t] # <<>> /\ Top(t).kept = <<>>
    BY <1>3, RepairTop DEF NewCall
  <2>2. PICK f \in Frames : SetTop(t, f) /\ f.kept = <<>>
    BY <1>3, RepairTop
  <2> QED
    BY <1>0, <2>1, <2>2
<1>4. CASE EndScan(t)
  <2>1. CASE UNCHANGED calls
    BY <2>1, KeptNothing
  <2>2. CASE Top(t).kept = <<>> /\ SetTop(t, NewCall)
    <3>1. calls[t] # <<>> /\ NewCall.kept = <<>>
      BY <1>4, EndTop DEF NewCall
    <3>2. PICK f \in Frames : SetTop(t, f) /\ f.kept = <<>>
      BY <2>2, <3>1, ConstantTypes
    <3> QED
      BY <1>0, <2>2, <3>1, <3>2
  <2> QED
    BY <1>4, <2>1, <2>2, EndTop
<1>5. CASE PFree(t) \/ PushCas(t)
  <2>1. pc[t] \in FreePC \cup {"retire"}
    BY <1>5, MutatorPlaces DEF FreePC
  <2>2. UNCHANGED calls \/ FreeReturns(t)
    BY <1>5 DEF PFree, PushCas
  <2>3. CASE UNCHANGED calls
    BY <2>3, KeptNothing
  <2>4. CASE FreeReturns(t) /\ ~ UNCHANGED calls
    <3>1. calls[t] # <<>>
      BY <2>1, <2>4, FreeReturned
    <3>2. PICK f \in Frames : f = [Top(t) EXCEPT !.obj = NoObject] /\ SetTop(t, f)
      BY <2>1, <2>4, FreeReturned
    <3>3. f.kept = Top(t).kept
      BY <3>1, <3>2, TopFrame DEF Frames
    <3> QED
      BY <1>0, <3>1, <3>2, <3>3
  <2> QED
    BY <2>2, <2>3, <2>4
<1>6. CASE ~ (Pop(t) \/ PushLink(t) \/ PopHead(t) \/ Repair(t) \/ EndScan(t) \/ PFree(t) \/ PushCas(t))
  BY <1>6, CallsSame, KeptNothing
<1> QED
  BY <1>1, <1>2, <1>3, <1>4, <1>5, <1>6

\* The stack of palloc changes when a cache is given or taken.
LEMMA FreeStackSame ==
    ASSUME NEW t \in Threads, Types, Types', Control, Versions, CacheInv, Step(t), ~ (GiveCas(t) \/ HeadCas(t))
    PROVE  Free' = Free
<1>1. CASE PopCas(t) \/ PushCas(t) \/ Freeze(t) \/ Move(t) \/ Unfreeze(t)
  BY <1>1, PopStacks, PushStacks, MoveStacks DEF Quiet
<1>2. CASE ~ (PopCas(t) \/ PushCas(t) \/ Freeze(t) \/ Move(t) \/ Unfreeze(t))
  BY <1>2, TopsSame, QuietStacks DEF Quiet
<1> QED
  BY <1>1, <1>2

\* The same of the caches of threads.
LEMMA FreeCachesSame ==
    ASSUME NEW t \in Threads, Types, Types', Control, Versions, CacheInv, Step(t), ~ (GiveCas(t) \/ HeadCas(t))
    PROVE  FreeCaches' = FreeCaches
<1>1. Free' = Free
  BY FreeStackSame
<1>2. allocCache' = allocCache
  BY DEF Step, Freeze, LoadHead, Move, Unfreeze, Look, Stamp, Save, Pop, Follow, PopCas, Repair, Scan, EndScan,
         PFree, PushLink, PushCas, PopHead, UnlinkCache, Clear, Search, WalkToUnlink, WalkToInsert, Publish, Fence,
         Restart, Cas, Finish, vars, caches
<1> QED
  BY <1>1, <1>2 DEF FreeCaches

\* Only palloc and the end of an insert change the contents of these caches.
LEMMA FreeContents ==
    ASSUME NEW t \in Threads, Types, Types', Control, Versions, CacheInv, Step(t),
           ~ (UnlinkCache(t) \/ WalkToInsert(t) \/ Finish(t)), NEW c \in FreeCaches
    PROVE  ptrs'[c] = ptrs[c]
<1>1. CASE c \in Free
  BY <1>1, StacksUntouched
<1>2. ASSUME NEW u \in Threads, c = allocCache[u], c # NULL PROVE ptrs'[c] = ptrs[c]
  <2>1. c \in Caches
    BY <1>2, ConstantTypes DEF Types
  <2>2. CASE u # t
    <3>1. c \in Mine(u)
      BY <1>2, <2>1, OwnCachesMine DEF Control
    <3> QED
      BY <2>2, <3>1, StacksUntouched
  <2>3. CASE u = t /\ ~ HeadCas(t)
    BY <1>2, <2>1, <2>3, OwnAlloc
  <2>4. CASE HeadCas(t)
    BY <2>4, TakeStored
  <2> QED
    BY <2>2, <2>3, <2>4
<1> QED
  BY <1>1, <1>2 DEF FreeCaches

\* What is live changes when a list operation takes, links, unlinks, gives back or forgets an object.
LEMMA LiveSteps ==
    ASSUME NEW t \in Threads, Types, Types', Control, Step(t),
           ~ (UnlinkCache(t) \/ WalkToInsert(t) \/ Restart(t) \/ Cas(t) \/ Finish(t))
    PROVE  UNCHANGED <<linked, forgotten>> /\ LiveObjects' = LiveObjects
<1>1. UNCHANGED <<linked, forgotten>>
  <2>1. CASE PFree(t) \/ PushCas(t)
    BY <2>1 DEF PFree, PushCas
  <2>2. CASE ~ (PFree(t) \/ PushCas(t))
    BY <2>2, HoldingsSame
  <2> QED
    BY <2>1, <2>2
<1>2. ASSUME NEW u \in Threads PROVE LiveOwn(u)' = LiveOwn(u)
  <2>1. CASE u # t
    BY <2>1, OthersSame DEF Same, LiveOwn
  <2>2. CASE PFree(t) \/ PushCas(t)
    <3>1. pc[t] \in FreePC \cup {"retire"} /\ (UNCHANGED <<own, op>> \/ FreeReturns(t))
      BY <2>2, MutatorPlaces DEF FreePC, PFree, PushCas
    <3>2. CASE UNCHANGED <<own, op>>
      BY <3>2 DEF LiveOwn
    <3>3. CASE FreeReturns(t) /\ ~ UNCHANGED <<own, op>>
      <4>1. calls[t] = <<>> /\ op' = [op EXCEPT ![t] = "none"]
        BY <3>1, <3>3, FreeReturned
      <4>2. op[t] = "unlink"
        BY <3>1, <4>1 DEF Control, OperationOf
      <4>3. op'[t] = "none"
        BY <4>1 DEF Types
      <4> QED
        BY <2>1, <4>2, <4>3 DEF LiveOwn
    <3> QED
      BY <3>1, <3>2, <3>3
  <2>3. CASE WalkToUnlink(t)
    <3>1. pc[t] = "walk" /\ op' = [op EXCEPT ![t] = "unlink"]
      BY <2>3 DEF WalkToUnlink
    <3>2. op[t] = "none" /\ op'[t] = "unlink"
      BY <3>1 DEF Control, OperationOf, Types
    <3> QED
      BY <2>1, <3>2 DEF LiveOwn
  <2>4. CASE ~ (PFree(t) \/ PushCas(t) \/ WalkToUnlink(t))
    <3>1. UNCHANGED <<own, op>>
      BY <2>4 DEF Step, Freeze, LoadHead, Move, Unfreeze, Look, Stamp, Save, Pop, Follow, PopCas, Repair, Scan, EndScan,
            GiveCas, PushLink, PopHead, HeadCas, Clear, Search, Publish, Fence, vars, operation
    <3> QED
      BY <3>1 DEF LiveOwn
  <2> QED
    BY <2>1, <2>2, <2>3, <2>4
<1>3. \A o : o \in LiveObjects' <=> o \in LiveObjects
  BY <1>1, <1>2, FreeParts, FreePartsThen
<1> QED
  BY <1>1, <1>3

\* A cache that changes hands takes its free objects with it.
LEMMA TakeFree ==
    ASSUME NEW t \in Threads, Types, Types', Control, Versions, CacheInv, Step(t), HeadCas(t)
    PROVE  FreeObjects' = FreeObjects
<1>0. ptrs' = ptrs /\ (allocCache[t] = NULL \/ ptrs[allocCache[t]] = <<>>)
  <2>1. pc[t] = "headCas"
    BY DEF HeadCas
  <2>2. op[t] = "insert"
    BY <2>1 DEF Control, OperationOf, PallocPC
  <2> QED
    BY <2>1, <2>2, TakeStored DEF Control, OperationOf
<1>1. \A u \in Threads, k \in Nat : KeptOf(u, k)' = KeptOf(u, k)
  BY KeptSteps DEF HeadCas, Scan, GiveCas
<1>2. CASE Free' = Free /\ UNCHANGED allocCache
  <2>1. FreeCaches' = FreeCaches
    BY <1>2 DEF FreeCaches
  <2>2. \A o : o \in FreeObjects' <=> o \in FreeObjects
    BY <1>0, <1>1, <2>1, FreeParts, FreePartsThen
  <2> QED
    BY <2>2
<1>3. CASE /\ head \in Free /\ Free' = Free \ {head} /\ allocCache' = [allocCache EXCEPT ![t] = head]
           /\ head \in Caches
  <2>0. allocCache'[t] = head /\ \A u \in Threads : u # t => allocCache'[u] = allocCache[u]
    BY <1>3 DEF Types
  <2>1. head # NULL
    BY <1>3, ConstantTypes
  <2>2. FreeCaches' \subseteq FreeCaches
    BY <1>3, <2>0 DEF FreeCaches
  <2>3. \A c \in FreeCaches : c \in FreeCaches' \/ (c = allocCache[t] /\ c # NULL)
    BY <1>3, <2>0, <2>1 DEF FreeCaches
  <2>4. \A c \in FreeCaches : c = allocCache[t] /\ c # NULL => Range(ptrs[c]) = {}
    BY <1>0, ShortSequences
  <2>5. \A o : o \in FreeObjects' <=> o \in FreeObjects
    BY <1>0, <1>1, <2>2, <2>3, <2>4, FreeParts, FreePartsThen
  <2> QED
    BY <2>5
<1> QED
  BY <1>2, <1>3, TakeStacks

\* So does a cache that is given back with what a call has kept.
LEMMA GiveFree ==
    ASSUME NEW t \in Threads, Types, Types', Control, Versions, CacheInv, Step(t), GiveCas(t)
    PROVE  FreeObjects' = FreeObjects
<1>0. ptrs' = ptrs /\ allocCache' = allocCache
  BY DEF GiveCas, caches
<1>1. CASE Free' = Free /\ UNCHANGED calls
  <2>1. FreeCaches' = FreeCaches
    BY <1>0, <1>1 DEF FreeCaches
  <2>2. \A u \in Threads, k \in Nat : KeptOf(u, k)' = KeptOf(u, k)
    BY <1>1, KeptNothing
  <2>3. \A o : o \in FreeObjects' <=> o \in FreeObjects
    BY <1>0, <2>1, <2>2, FreeParts, FreePartsThen
  <2> QED
    BY <2>3
<1>2. CASE Free' = Free \cup {Top(t).entry} /\ SetTop(t, NewCall)
  <2>0. pc[t] = "giveCas" /\ calls[t] # <<>>
    BY GiveStacks DEF GiveCas
  <2>1. PICK e : e = Top(t).entry /\ ptrs[e] = Top(t).kept
    BY <2>0 DEF Control, CallsOf
  <2>2. PICK n : n = Len(calls[t])
    OBVIOUS
  <2>3. PICK f \in Frames : SetTop(t, f) /\ Range(f.kept) = {}
    BY <1>2, ShortSequences, ConstantTypes DEF NewCall
  <2>4. /\ n \in Nat /\ KeptOf(t, n) = Range(ptrs[e]) /\ KeptOf(t, n)' = {}
        /\ \A u \in Threads, k \in Nat : u # t \/ k # n => KeptOf(u, k)' = KeptOf(u, k)
    BY <2>0, <2>1, <2>2, <2>3, KeptTop
  <2>5. FreeCaches' = FreeCaches \cup {e}
    BY <1>0, <1>2, <2>1 DEF FreeCaches
  <2>6. \A o : (\E u \in Threads, k \in Nat : o \in KeptOf(u, k))
               <=> o \in Range(ptrs[e]) \/ \E u \in Threads, k \in Nat : o \in KeptOf(u, k)'
    BY <2>4
  <2>7. \A o : o \in FreeObjects' <=> o \in FreeObjects
    BY <1>0, <2>5, <2>6, FreeParts, FreePartsThen
  <2> QED
    BY <2>7
<1> QED
  BY <1>1, <1>2, GiveStacks

\* Most steps free nothing and use nothing up.
LEMMA FreeSame ==
    ASSUME NEW t \in Threads, Types, Types', Control, Versions, CacheInv, Step(t),
           ~ (UnlinkCache(t) \/ WalkToInsert(t) \/ Finish(t) \/ Scan(t))
    PROVE  FreeObjects' = FreeObjects
<1>1. CASE ~ (GiveCas(t) \/ HeadCas(t))
  <2>1. FreeCaches' = FreeCaches /\ \A c \in FreeCaches : ptrs'[c] = ptrs[c]
    BY <1>1, FreeCachesSame, FreeContents
  <2>2. \A u \in Threads, k \in Nat : KeptOf(u, k)' = KeptOf(u, k)
    BY <1>1, KeptSteps
  <2>3. \A o : o \in FreeObjects' <=> o \in FreeObjects
    BY <2>1, <2>2, FreeParts, FreePartsThen
  <2> QED
    BY <2>3
<1> QED
  BY <1>1, TakeFree, GiveFree

\* An object in a cache is in no other one, and in no call.
LEMMA CachedApart ==
    ASSUME Structure, NEW c \in Stored, NEW o \in Range(ptrs[c])
    PROVE  /\ c \in Caches /\ o \in Objects
           /\ \A d \in Stored : o \in Range(ptrs[d]) => d = c
           /\ \A v \in Threads, k \in Nat : o \notin Held(v, k)
<1>0. OneHome /\ Types /\ CacheInv
  BY DEF Structure
<1>1. Stored \subseteq Caches
  BY <1>0, StoredParts, ConstantTypes
<1>2. o \in Objects
  BY <1>0, <1>1, ShortSequences DEF Types
<1>3. \A d \in Stored : o \in Range(ptrs[d]) => o \in Content(CacheOf(d)) /\ CacheOf(d) \in Homes
  BY <1>1, HomeContents, HomesApart DEF Shelf
<1>4. ASSUME NEW d \in Stored, o \in Range(ptrs[d]) PROVE d = c
  <2>1. CacheOf(d) = CacheOf(c)
    BY <1>0, <1>2, <1>3, <1>4 DEF OneHome
  <2> QED
    BY <1>1, <2>1, HomesApart
<1>5. ASSUME NEW v \in Threads, NEW k \in Nat, o \in Held(v, k) PROVE FALSE
  <2>1. o \in Content(CallOf(v, k)) /\ CallOf(v, k) \in Homes /\ CallOf(v, k) # CacheOf(c)
    BY <1>1, <1>5, HomeContents, HomesApart
  <2> QED
    BY <1>0, <1>2, <1>3, <2>1 DEF OneHome
<1> QED
  BY <1>1, <1>2, <1>4, <1>5

\* palloc takes a free object, which is then live, or nothing.
LEMMA AllocObjects ==
    ASSUME NEW t \in Threads, Structure, Types', Step(t), UnlinkCache(t) \/ WalkToInsert(t)
    PROVE  /\ UNCHANGED <<linked, forgotten>>
           /\ \/ FreeObjects' = FreeObjects /\ LiveObjects' = LiveObjects
              \/ \E x \in FreeObjects : FreeObjects' = FreeObjects \ {x} /\ LiveObjects' = LiveObjects \cup {x}
<1>0. Types /\ Control /\ Versions /\ CacheInv /\ NoneTwice
  BY DEF Structure
<1>1. TakeOrPop(t) /\ UNCHANGED <<linked, forgotten, allocCache>>
  BY DEF UnlinkCache, WalkToInsert
<1>2. \A u \in Threads, k \in Nat : KeptOf(u, k)' = KeptOf(u, k)
  BY <1>0, KeptSteps DEF UnlinkCache, WalkToInsert, Scan, GiveCas
<1>3. FreeCaches' = FreeCaches
  BY <1>0, FreeCachesSame DEF UnlinkCache, WalkToInsert, HeadCas, GiveCas
<1>4. op'[t] = "insert" /\ own[t] = NoObject /\ \A u \in Threads : u # t => LiveOwn(u)' = LiveOwn(u)
  <2>1. \A u \in Threads : u # t => LiveOwn(u)' = LiveOwn(u)
    BY <1>0, OthersSame DEF Same, LiveOwn
  <2>2. op'[t] = "insert"
    BY <1>0 DEF UnlinkCache, WalkToInsert, Types, Control, OperationOf, PallocPC
  <2>3. own[t] = NoObject
    BY <1>0 DEF UnlinkCache, WalkToInsert, Control, OperationOf, PallocPC
  <2> QED
    BY <2>1, <2>2, <2>3
<1>5. LiveOwn(t) = {} /\ LiveOwn(t)' = {own'[t]} \ {NoObject}
  BY <1>4 DEF LiveOwn
<1>6. CASE UNCHANGED <<own, ptrs>>
  <2>1. \A u \in Threads : LiveOwn(u)' = LiveOwn(u)
    BY <1>4, <1>5, <1>6
  <2>2. \A o : o \in LiveObjects' <=> o \in LiveObjects
    BY <1>0, <1>1, <2>1, FreeParts, FreePartsThen
  <2>3. \A o : o \in FreeObjects' <=> o \in FreeObjects
    BY <1>0, <1>2, <1>3, <1>6, FreeParts, FreePartsThen
  <2> QED
    BY <1>1, <2>2, <2>3
<1>7. CASE /\ allocCache[t] \in Caches /\ ptrs[allocCache[t]] \in Seq(Objects) /\ ptrs[allocCache[t]] # <<>>
           /\ own'[t] = ptrs[allocCache[t]][Len(ptrs[allocCache[t]])]
           /\ ptrs' = [ptrs EXCEPT ![allocCache[t]] = SubSeq(@, 1, Len(@) - 1)]
  <2>1. PICK a \in Caches : a = allocCache[t]
    BY <1>7
  <2>2. PICK x : x = own'[t]
    OBVIOUS
  <2>3. a \in FreeCaches /\ a \in Stored
    BY <2>1, ConstantTypes DEF FreeCaches, Stored
  <2>4. /\ x \in Range(ptrs[a]) /\ x \in Objects
        /\ ptrs'[a] = SubSeq(ptrs[a], 1, Len(ptrs[a]) - 1)
        /\ \A c \in Caches : c # a => ptrs'[c] = ptrs[c]
    BY <1>0, <1>7, <2>1, <2>2, LastTaken DEF Types
  <2>5. Range(ptrs'[a]) = Range(ptrs[a]) \ {x}
    <3>1. IsInjective(ptrs[a])
      BY <1>0, <2>3 DEF NoneTwice
    <3> QED
      BY <1>7, <2>1, <2>2, <2>4, <3>1, LastTaken
  <2>6. FreeCaches \subseteq Stored \cap Caches
    BY FreeHomes
  <2>7. \A c \in FreeCaches : Range(ptrs'[c]) = Range(ptrs[c]) \ {x}
    <3>1. \A c \in FreeCaches : c # a => x \notin Range(ptrs[c])
      BY <2>3, <2>4, <2>6, CachedApart
    <3> QED
      BY <2>4, <2>5, <2>6, <3>1
  <2>8. \A u \in Threads, k \in Nat : x \notin KeptOf(u, k)
    BY <2>3, <2>4, CachedApart, FreeHomes
  <2>9. \A o : o \in FreeObjects' <=> o \in FreeObjects /\ o # x
    BY <1>0, <1>2, <1>3, <2>7, <2>8, FreeParts, FreePartsThen
  <2>10. x \in FreeObjects
    BY <1>0, <2>3, <2>4, FreeParts
  <2>11. LiveOwn(t)' = {x}
    BY <1>5, <2>2, <2>4, ConstantTypes
  <2>12. \A o : o \in LiveObjects' <=> o \in LiveObjects \/ o = x
    <3>1. \A o : (\E u \in Threads : o \in LiveOwn(u)') <=> o = x \/ \E u \in Threads : o \in LiveOwn(u)
      BY <1>4, <1>5, <2>11
    <3> QED
      BY <1>0, <1>1, <3>1, FreeParts, FreePartsThen
  <2>13. FreeObjects' = FreeObjects \ {x} /\ LiveObjects' = LiveObjects \cup {x}
    BY <2>9, <2>12
  <2> QED
    BY <1>1, <2>10, <2>13
<1> QED
  BY <1>0, <1>1, <1>6, <1>7, Taken

\* Recycle frees an object that no thread is known to use.
LEMMA ScanObjects ==
    ASSUME NEW t \in Threads, Structure, Types', Step(t), Scan(t)
    PROVE  /\ UNCHANGED <<linked, forgotten>> /\ LiveObjects' = LiveObjects
           /\ \/ FreeObjects' = FreeObjects
              \/ \E o \in Objects, n \in Nat :
                    /\ o \in Held(t, n) /\ o \notin hps[t] /\ calls[t] # <<>> /\ pc[t] = "scan"
                    /\ o \notin FreeObjects \cup LiveObjects /\ FreeObjects' = FreeObjects \cup {o}
<1>0. Types /\ Control /\ Versions /\ CacheInv /\ NoneTwice /\ OneHome
  BY DEF Structure
<1>1. UNCHANGED <<linked, forgotten>> /\ LiveObjects' = LiveObjects
  BY <1>0, LiveSteps DEF Scan, UnlinkCache, WalkToInsert, Restart, Cas, Finish
<1>2. FreeCaches' = FreeCaches /\ ptrs' = ptrs
  BY <1>0, FreeCachesSame DEF Scan, GiveCas, HeadCas, caches
<1>3. calls[t] # <<>> /\ Top(t) \in Frames /\ Top(t).rest # <<>>
  BY <1>0, ScanTop
<1>4. PICK f \in Frames :
        /\ SetTop(t, f)
        /\ \/ f.kept = Top(t).kept
           \/ Head(Top(t).rest) \notin hps[t] /\ f.kept = Append(Top(t).kept, Head(Top(t).rest))
  BY <1>0, ScanTop
<1>5. PICK n : n = Len(calls[t])
  OBVIOUS
<1>6. /\ n \in Nat /\ KeptOf(t, n) = Range(Top(t).kept) /\ KeptOf(t, n)' = Range(f.kept)
      /\ \A u \in Threads, k \in Nat : u # t \/ k # n => KeptOf(u, k)' = KeptOf(u, k)
  BY <1>0, <1>3, <1>4, <1>5, KeptTop
<1>7. CASE f.kept = Top(t).kept
  <2>1. \A o : o \in FreeObjects' <=> o \in FreeObjects
    BY <1>0, <1>2, <1>6, <1>7, FreeParts, FreePartsThen
  <2> QED
    BY <1>1, <2>1
<1>8. CASE Head(Top(t).rest) \notin hps[t] /\ f.kept = Append(Top(t).kept, Head(Top(t).rest))
  <2>1. Top(t).rest \in Seq(Objects) /\ Top(t).kept \in Seq(Objects)
    BY <1>3, FilledParts
  <2>2. PICK o \in Objects : o = Head(Top(t).rest) /\ o \in Range(Top(t).rest)
    BY <1>3, <2>1, FirstTaken
  <2>3. Range(f.kept) = Range(Top(t).kept) \cup {o}
    BY <1>8, <2>1, <2>2, Appended
  <2>4. \A x : x \in FreeObjects' <=> x \in FreeObjects \/ x = o
    <3>1. \A x : (\E u \in Threads, k \in Nat : x \in KeptOf(u, k)')
                 <=> x = o \/ \E u \in Threads, k \in Nat : x \in KeptOf(u, k)
      BY <1>6, <2>3
    <3> QED
      BY <1>0, <1>2, <3>1, FreeParts, FreePartsThen
  <2>5. o \in Held(t, n)
    <3>1. Held(t, n) = InCall(Top(t))
      BY <1>0, <1>3, <1>4, <1>5, HeldTop
    <3> QED
      BY <2>2, <3>1 DEF InCall
  <2>6. o \notin LiveObjects
    <3>1. o \in linked => FALSE
      BY <1>6, <2>5, LinkedApart
    <3>2. ASSUME NEW u \in Threads, o \in LiveOwn(u) PROVE FALSE
      <4>1. own[u] = o
        BY <3>2 DEF LiveOwn
      <4> QED
        BY <1>6, <2>2, <2>5, <4>1, OwnApart
    <3> QED
      BY <1>0, <3>1, <3>2, FreeParts
  <2>7. o \notin FreeObjects
    <3>1. ASSUME NEW c \in FreeCaches, o \in Range(ptrs[c]) PROVE FALSE
      BY <1>6, <2>5, <3>1, CachedApart, FreeHomes
    <3>2. ASSUME NEW u \in Threads, NEW k \in Nat, o \in KeptOf(u, k) PROVE FALSE
      <4>1. o \in Content(CallOf(u, k)) /\ o \in Content(CallOf(t, n))
        BY <1>6, <2>5, <3>2, FreeHomes, HomeContents
      <4>2. CallOf(u, k) = CallOf(t, n)
        BY <1>0, <1>6, <4>1, HomesApart DEF OneHome
      <4>3. u = t /\ k = n
        BY <1>6, <4>2, HomesApart
      <4>4. o \in Range(Top(t).kept)
        BY <1>6, <3>2, <4>3
      <4>5. Distinct(Top(t))
        BY <1>0, <1>3, TopFrame DEF NoneTwice
      <4> QED
        BY <2>2, <4>4, <4>5 DEF Distinct
    <3> QED
      BY <1>0, <3>1, <3>2, FreeParts
  <2>8. FreeObjects' = FreeObjects \cup {o}
    BY <2>4
  <2>9. pc[t] = "scan"
    BY DEF Scan
  <2> QED
    BY <1>1, <1>3, <1>6, <1>8, <2>2, <2>5, <2>6, <2>7, <2>8, <2>9
<1> QED
  BY <1>4, <1>7, <1>8

\* The end of an insert that did not link its object gives it back.
LEMMA FinishObjects ==
    ASSUME NEW t \in Threads, Structure, Types', Step(t), Finish(t)
    PROVE  /\ UNCHANGED <<linked, forgotten>>
           /\ \/ FreeObjects' = FreeObjects /\ LiveObjects' = LiveObjects
              \/ /\ own[t] \in LiveObjects /\ op[t] = "insert" /\ own[t] \in Objects
                 /\ LiveObjects' = LiveObjects \ {own[t]} /\ FreeObjects' = FreeObjects \cup {own[t]}
<1>0. Types /\ Control /\ Versions /\ CacheInv
  BY DEF Structure
<1>1. pc[t] = "finish" /\ UNCHANGED <<linked, forgotten>> /\ own'[t] = NoObject
  BY <1>0 DEF Finish, Types
<1>2. FreeCaches' = FreeCaches
  BY <1>0, FreeCachesSame DEF Finish, GiveCas, HeadCas
<1>3. \A u \in Threads, k \in Nat : KeptOf(u, k)' = KeptOf(u, k)
  BY <1>0, KeptSteps DEF Finish, Scan, GiveCas
<1>4. LiveOwn(t)' = {} /\ \A u \in Threads : u # t => LiveOwn(u)' = LiveOwn(u)
  BY <1>0, <1>1, OthersSame DEF Same, LiveOwn
<1>5. CASE own[t] = NoObject
  <2>1. ptrs' = ptrs /\ LiveOwn(t) = {}
    BY <1>5 DEF Finish, LiveOwn
  <2>2. \A o : o \in FreeObjects' <=> o \in FreeObjects
    BY <1>0, <1>2, <1>3, <2>1, FreeParts, FreePartsThen
  <2>3. \A o : o \in LiveObjects' <=> o \in LiveObjects
    BY <1>0, <1>1, <1>4, <2>1, FreeParts, FreePartsThen
  <2> QED
    BY <1>1, <2>2, <2>3
<1>6. CASE own[t] # NoObject
  <2>1. PICK x \in Objects : x = own[t]
    BY <1>0, <1>6 DEF Types, ObjectOrNone
  <2>2. op[t] = "insert" /\ allocCache[t] \in Caches
    BY <1>0, <1>1, <1>6, <2>1 DEF Control, OperationOf, Types
  <2>3. PICK a \in Caches : a = allocCache[t]
    BY <2>2
  <2>4. a \in FreeCaches
    BY <2>3, ConstantTypes DEF FreeCaches
  <2>5. ptrs' = [ptrs EXCEPT ![a] = Append(@, x)]
    BY <1>6, <2>1, <2>3 DEF Finish
  <2>6. ptrs[a] \in Seq(Objects) /\ ptrs'[a] = Append(ptrs[a], x) /\ \A c \in Caches : c # a => ptrs'[c] = ptrs[c]
    BY <1>0, <2>5 DEF Types
  <2>7. Range(ptrs'[a]) = Range(ptrs[a]) \cup {x}
    BY <2>6, Appended
  <2>8. FreeCaches \subseteq Caches
    BY FreeHomes
  <2>9. \A o : o \in FreeObjects' <=> o \in FreeObjects \/ o = x
    <3>1. \A o : (\E c \in FreeCaches' : o \in Range(ptrs'[c])) <=> o = x \/ \E c \in FreeCaches : o \in Range(ptrs[c])
      BY <1>2, <2>4, <2>6, <2>7, <2>8
    <3> QED
      BY <1>0, <1>3, <3>1, FreeParts, FreePartsThen
  <2>10. LiveOwn(t) = {x}
    BY <1>6, <2>1, <2>2 DEF LiveOwn
  <2>11. x \in LiveObjects
    BY <1>0, <2>10, FreeParts
  <2>12. x \notin linked /\ \A u \in Threads : u # t => x \notin LiveOwn(u)
    BY <2>1, OwnApart DEF LiveOwn
  <2>13. \A o : o \in LiveObjects' <=> o \in LiveObjects /\ o # x
    <3>1. \A o : (\E u \in Threads : o \in LiveOwn(u)') <=> o # x /\ \E u \in Threads : o \in LiveOwn(u)
      BY <1>4, <2>10, <2>12
    <3> QED
      BY <1>0, <1>1, <2>12, <3>1, FreeParts, FreePartsThen
  <2>14. FreeObjects' = FreeObjects \cup {x} /\ LiveObjects' = LiveObjects \ {x}
    BY <2>9, <2>13
  <2> QED
    BY <1>1, <2>1, <2>2, <2>11, <2>14
<1> QED
  BY <1>5, <1>6

\* A restart forgets the object of an insert.
LEMMA RestartObjects ==
    ASSUME NEW t \in Threads, Structure, Types', Step(t), Restart(t)
    PROVE  /\ UNCHANGED linked /\ FreeObjects' = FreeObjects
           /\ \/ LiveObjects' = LiveObjects /\ forgotten' = forgotten
              \/ /\ own[t] \in LiveObjects /\ op[t] = "insert" /\ own[t] \in Objects
                 /\ LiveObjects' = LiveObjects \ {own[t]} /\ forgotten' = forgotten \cup {own[t]}
<1>0. Types /\ Control /\ Versions /\ CacheInv
  BY DEF Structure
<1>1. /\ pc[t] = "restart" /\ UNCHANGED linked /\ own'[t] = NoObject
      /\ forgotten' = forgotten \cup ({own[t]} \ {NoObject})
  BY <1>0 DEF Restart, Types
<1>2. FreeObjects' = FreeObjects
  BY <1>0, FreeSame DEF Restart, UnlinkCache, WalkToInsert, Finish, Scan
<1>3. LiveOwn(t)' = {} /\ \A u \in Threads : u # t => LiveOwn(u)' = LiveOwn(u)
  BY <1>0, <1>1, OthersSame DEF Same, LiveOwn
<1>4. CASE op[t] = "insert"
  <2>1. PICK x \in Objects : x = own[t]
    BY <1>0, <1>1, <1>4 DEF Control, OperationOf
  <2>2. LiveOwn(t) = {x}
    BY <1>4, <2>1, ConstantTypes DEF LiveOwn
  <2>3. x \in LiveObjects
    BY <1>0, <2>2, FreeParts
  <2>4. x \notin linked /\ \A u \in Threads : u # t => x \notin LiveOwn(u)
    BY <2>1, OwnApart DEF LiveOwn
  <2>5. \A o : o \in LiveObjects' <=> o \in LiveObjects /\ o # x
    <3>1. \A o : (\E u \in Threads : o \in LiveOwn(u)') <=> o # x /\ \E u \in Threads : o \in LiveOwn(u)
      BY <1>3, <2>2, <2>4
    <3> QED
      BY <1>0, <1>1, <2>4, <3>1, FreeParts, FreePartsThen
  <2>6. LiveObjects' = LiveObjects \ {x}
    BY <2>5
  <2>7. forgotten' = forgotten \cup {x}
    BY <1>1, <2>1, ConstantTypes
  <2> QED
    BY <1>1, <1>2, <1>4, <2>1, <2>3, <2>6, <2>7
<1>5. CASE op[t] # "insert"
  <2>1. own[t] = NoObject
    <3>1. op[t] = "unlink"
      BY <1>0, <1>1, <1>5 DEF Types, Control, OperationOf
    <3> QED
      BY <1>0, <1>1, <3>1 DEF Control, OperationOf
  <2>2. LiveOwn(t) = {} /\ forgotten' = forgotten
    BY <1>1, <1>5, <2>1 DEF LiveOwn
  <2>3. \A o : o \in LiveObjects' <=> o \in LiveObjects
    BY <1>0, <1>1, <1>3, <2>2, FreeParts, FreePartsThen
  <2> QED
    BY <1>1, <1>2, <2>2, <2>3
<1> QED
  BY <1>4, <1>5

\* The CAS of a list operation links a live object, retires a linked one, or fails.
LEMMA CasObjects ==
    ASSUME NEW t \in Threads, Structure, Types', Step(t), Cas(t)
    PROVE  /\ UNCHANGED forgotten /\ FreeObjects' = FreeObjects
           /\ \/ LiveObjects' = LiveObjects /\ linked \subseteq linked'
              \/ /\ ref[t] \in linked /\ ref[t] \in Objects /\ op[t] = "unlink"
                 /\ linked' = linked \ {ref[t]} /\ LiveObjects' = LiveObjects \ {ref[t]}
<1>0. Types /\ Control /\ Versions /\ CacheInv
  BY DEF Structure
<1>1. pc[t] = "cas" /\ UNCHANGED <<forgotten, op>>
  BY DEF Cas
<1>2. FreeObjects' = FreeObjects
  BY <1>0, FreeSame DEF Cas, UnlinkCache, WalkToInsert, Finish, Scan
<1>3. \A u \in Threads : u # t => LiveOwn(u)' = LiveOwn(u)
  BY <1>0, OthersSame DEF Same, LiveOwn
<1>4. CASE UNCHANGED <<linked, own>>
  <2>1. \A u \in Threads : LiveOwn(u)' = LiveOwn(u)
    BY <1>1, <1>4 DEF LiveOwn
  <2>2. \A o : o \in LiveObjects' <=> o \in LiveObjects
    BY <1>0, <1>4, <2>1, FreeParts, FreePartsThen
  <2> QED
    BY <1>1, <1>2, <1>4, <2>2
<1>5. CASE op[t] = "unlink" /\ ref[t] \in linked /\ linked' = linked \ {ref[t]}
  <2>1. PICK x \in Objects : x = ref[t]
    BY <1>0, <1>5 DEF Types
  <2>2. LiveOwn(t) = {} /\ LiveOwn(t)' = {}
    BY <1>1, <1>5 DEF LiveOwn
  <2>3. \A u \in Threads : x \notin LiveOwn(u)
    <3>1. ASSUME NEW u \in Threads, x \in LiveOwn(u) PROVE FALSE
      <4>1. own[u] = x
        BY <3>1 DEF LiveOwn
      <4> QED
        BY <1>5, <2>1, <4>1, OwnApart
    <3> QED
      BY <3>1
  <2>4. \A o : o \in LiveObjects' <=> o \in LiveObjects /\ o # x
    <3>1. \A o : (\E u \in Threads : o \in LiveOwn(u)') <=> \E u \in Threads : o \in LiveOwn(u)
      BY <1>3, <2>2
    <3> QED
      BY <1>0, <1>5, <2>1, <2>3, <3>1, FreeParts, FreePartsThen
  <2>5. LiveObjects' = LiveObjects \ {x}
    BY <2>4
  <2> QED
    BY <1>1, <1>2, <1>5, <2>1, <2>5
<1>6. CASE op[t] = "insert" /\ linked' = linked \cup {own[t]} /\ own' = [own EXCEPT ![t] = NoObject]
  <2>1. PICK x \in Objects : x = own[t]
    BY <1>0, <1>1, <1>6 DEF Control, OperationOf
  <2>2. LiveOwn(t) = {x}
    BY <1>6, <2>1, ConstantTypes DEF LiveOwn
  <2>3. LiveOwn(t)' = {}
    BY <1>0, <1>6 DEF LiveOwn, Types
  <2>4. \A o : o \in LiveObjects' <=> o \in LiveObjects
    <3>1. \A o : (\E u \in Threads : o \in LiveOwn(u)) <=> o = x \/ \E u \in Threads : o \in LiveOwn(u)'
      BY <1>3, <2>2, <2>3
    <3> QED
      BY <1>0, <1>6, <2>1, <3>1, FreeParts, FreePartsThen
  <2> QED
    BY <1>1, <1>2, <1>6, <2>4
<1> QED
  BY <1>4, <1>5, <1>6 DEF Cas

\* What a step does to the free, live, linked and forgotten objects.
LEMMA ObjectSteps ==
    ASSUME NEW t \in Threads, Structure, Types', Step(t)
    PROVE  \/ /\ UNCHANGED forgotten /\ FreeObjects' = FreeObjects /\ LiveObjects' = LiveObjects /\ linked \subseteq linked'
           \/ /\ UnlinkCache(t) \/ WalkToInsert(t)
              /\ UNCHANGED <<linked, forgotten>>
              /\ \E x \in FreeObjects : FreeObjects' = FreeObjects \ {x} /\ LiveObjects' = LiveObjects \cup {x}
           \/ /\ Finish(t) \/ Restart(t)
              /\ own[t] \in LiveObjects /\ op[t] = "insert" /\ own[t] \in Objects
              /\ LiveObjects' = LiveObjects \ {own[t]} /\ UNCHANGED linked
              /\ \/ FreeObjects' = FreeObjects \cup {own[t]} /\ forgotten' = forgotten
                 \/ FreeObjects' = FreeObjects /\ forgotten' = forgotten \cup {own[t]}
           \/ /\ Cas(t) /\ ref[t] \in linked /\ ref[t] \in Objects /\ op[t] = "unlink"
              /\ UNCHANGED forgotten /\ FreeObjects' = FreeObjects
              /\ linked' = linked \ {ref[t]} /\ LiveObjects' = LiveObjects \ {ref[t]}
           \/ /\ Scan(t) /\ UNCHANGED <<linked, forgotten>> /\ LiveObjects' = LiveObjects
              /\ \E o \in Objects, n \in Nat :
                    /\ o \in Held(t, n) /\ o \notin hps[t] /\ calls[t] # <<>> /\ pc[t] = "scan"
                    /\ o \notin FreeObjects \cup LiveObjects /\ FreeObjects' = FreeObjects \cup {o}
<1>0. Types /\ Control /\ Versions /\ CacheInv
  BY DEF Structure
<1>1. CASE UnlinkCache(t) \/ WalkToInsert(t)
  BY <1>1, AllocObjects
<1>2. CASE Finish(t)
  BY <1>2, FinishObjects
<1>3. CASE Restart(t)
  BY <1>3, RestartObjects
<1>4. CASE Cas(t)
  BY <1>4, CasObjects
<1>5. CASE Scan(t)
  BY <1>5, ScanObjects
<1>6. CASE ~ (UnlinkCache(t) \/ WalkToInsert(t) \/ Finish(t) \/ Restart(t) \/ Cas(t) \/ Scan(t))
  BY <1>0, <1>6, FreeSame, LiveSteps
<1> QED
  BY <1>1, <1>2, <1>3, <1>4, <1>5, <1>6

-----------------------------------------------------------------------------
(* Hazard pointers.                                                        *)

\* What the steps of a list operation do to its reference.
LEMMA RefSteps ==
    ASSUME NEW t \in Threads, Types, Step(t)
    PROVE  \/ ref' = ref /\ ~ (Restart(t) \/ Cas(t) \/ WalkToUnlink(t) \/ WalkToInsert(t))
           \/ (Restart(t) \/ Cas(t)) /\ ref'[t] = NoObject
           \/ /\ WalkToUnlink(t) \/ WalkToInsert(t)
              /\ \E x \in linked \cup {NoObject} : ref'[t] = x
              /\ linked' = linked /\ pc'[t] \in {"publish", "popHead"}
<1>1. CASE Restart(t) \/ Cas(t)
  BY <1>1 DEF Restart, Cas, Types
<1>2. CASE WalkToUnlink(t) \/ WalkToInsert(t)
  <2>1. pc'[t] \in {"publish", "popHead"}
    BY <1>2, MutatorPlaces
  <2>2. linked' = linked
    BY <1>2 DEF WalkToUnlink, WalkToInsert
  <2>3. PICK x \in linked \cup {NoObject} : ref' = [ref EXCEPT ![t] = x]
    BY <1>2 DEF WalkToUnlink, WalkToInsert
  <2>4. ref'[t] = x
    BY <2>3 DEF Types
  <2> QED
    BY <1>2, <2>1, <2>2, <2>4
<1>3. CASE ~ (Restart(t) \/ Cas(t) \/ WalkToUnlink(t) \/ WalkToInsert(t))
  <2>1. CASE Freeze(t) \/ LoadHead(t) \/ Move(t) \/ Unfreeze(t) \/ Look(t) \/ Stamp(t) \/ Save(t)
             \/ Pop(t) \/ Follow(t) \/ PopCas(t) \/ Repair(t) \/ Scan(t) \/ EndScan(t) \/ GiveCas(t)
    BY <1>3, <2>1 DEF Freeze, LoadHead, Move, Unfreeze, Look, Stamp, Save, Pop, Follow, PopCas, Repair, Scan,
                      EndScan, GiveCas, operation
  <2>2. CASE PFree(t) \/ PushLink(t) \/ PushCas(t) \/ PopHead(t) \/ HeadCas(t) \/ UnlinkCache(t)
    BY <1>3, <2>2 DEF PFree, PushLink, PushCas, PopHead, HeadCas, UnlinkCache, operation
  <2>3. CASE Clear(t) \/ Search(t) \/ Publish(t) \/ Fence(t) \/ Finish(t)
    BY <1>3, <2>3 DEF Clear, Search, Publish, Fence, Finish, operation, vars
  <2> QED
    BY <1>3, <2>1, <2>2, <2>3, StepGroups
<1> QED
  BY <1>1, <1>2, <1>3

\* Who relies on an object has done so before, or has come to it in the list.
LEMMA ReliesSteps ==
    ASSUME NEW t \in Threads, Structure, Types', Step(t), NEW u \in Threads, NEW o \in Objects, Relies(u, o)'
    PROVE  \/ /\ Relies(u, o)
              /\ \/ pc[u] = "cas" /\ pc'[u] = "cas" /\ u # t
                 \/ pc[u] # "cas" /\ pc'[u] # "cas"
                 \/ pc[u] = "fence" /\ pc'[u] = "cas" /\ u = t /\ Fence(t)
           \/ u = t /\ (WalkToUnlink(t) \/ WalkToInsert(t)) /\ o \in linked' /\ pc'[t] # "cas"
<1>0. Types /\ Control /\ Versions /\ Stamps
  BY DEF Structure
<1>1. ref'[u] = o /\ pc'[u] # "restart" /\ (pc'[u] = "cas" \/ ~ dirties'[u].dirty) /\ o # NoObject
  BY ConstantTypes DEF Relies
<1>2. CASE u # t
  <2>1. ref'[u] = ref[u] /\ pc'[u] = pc[u]
    BY <1>0, <1>2, OthersSame DEF Same
  <2>2. dirties'[u] = dirties[u] \/ dirties'[u].dirty
    BY <1>0, <1>2, RecordGrows
  <2> QED
    BY <1>1, <1>2, <2>1, <2>2 DEF Relies
<1>3. CASE u = t
  <2>1. CASE WalkToUnlink(t) \/ WalkToInsert(t)
    BY <1>0, <1>1, <1>3, <2>1, RefSteps, MutatorPlaces DEF Restart, Cas, WalkToUnlink, WalkToInsert
  <2>2. CASE ~ (WalkToUnlink(t) \/ WalkToInsert(t))
    <3>1. ref' = ref /\ ~ (Restart(t) \/ Cas(t))
      BY <1>0, <1>1, <1>3, <2>2, RefSteps
    <3>2. pc[t] \notin {"restart", "cas", "walk"}
      <4>1. pc[t] # "walk"
        BY <1>0, <1>1, <1>3, <3>1 DEF Control, OperationOf
      <4>2. pc[t] \notin {"restart", "cas"}
        <5>1. CASE Freeze(t) \/ LoadHead(t) \/ Move(t) \/ Unfreeze(t) \/ Look(t) \/ Stamp(t) \/ Save(t)
                   \/ Pop(t) \/ Follow(t) \/ PopCas(t) \/ Repair(t) \/ Scan(t) \/ EndScan(t) \/ GiveCas(t)
          BY <1>0, <5>1, CollectPlaces
        <5>2. CASE ~ (Freeze(t) \/ LoadHead(t) \/ Move(t) \/ Unfreeze(t) \/ Look(t) \/ Stamp(t) \/ Save(t)
                   \/ Pop(t) \/ Follow(t) \/ PopCas(t) \/ Repair(t) \/ Scan(t) \/ EndScan(t) \/ GiveCas(t))
          BY <1>0, <2>2, <3>1, <5>2, StepGroups, MutatorPlaces
        <5> QED
          BY <5>1, <5>2
      <4> QED
        BY <4>1, <4>2
    <3>3. CASE Fence(t)
      <4>1. pc[t] = "fence" /\ pc'[t] = IF dirties[t].dirty THEN "restart" ELSE "cas"
        BY <1>0, <3>3 DEF Fence, Goto, Types
      <4> QED
        BY <1>1, <1>3, <3>1, <3>3, <4>1 DEF Relies
    <3>4. CASE ~ Fence(t)
      <4>1. pc'[t] # "cas"
        <5>1. CASE Freeze(t) \/ LoadHead(t) \/ Move(t) \/ Unfreeze(t) \/ Look(t) \/ Stamp(t) \/ Save(t)
                   \/ Pop(t) \/ Follow(t) \/ PopCas(t) \/ Repair(t) \/ Scan(t) \/ EndScan(t) \/ GiveCas(t)
          BY <1>0, <5>1, CollectPlaces
        <5>2. CASE ~ (Freeze(t) \/ LoadHead(t) \/ Move(t) \/ Unfreeze(t) \/ Look(t) \/ Stamp(t) \/ Save(t)
                   \/ Pop(t) \/ Follow(t) \/ PopCas(t) \/ Repair(t) \/ Scan(t) \/ EndScan(t) \/ GiveCas(t))
          BY <1>0, <2>2, <3>1, <3>2, <3>4, <5>2, StepGroups, MutatorPlaces
        <5> QED
          BY <5>1, <5>2
      <4>2. dirties'[t] = dirties[t] \/ dirties'[t].dirty
        <5>1. ~ Clear(t)
          BY <3>2 DEF Clear
        <5> QED
          BY <1>0, <3>1, <3>4, <5>1, RecordGrows
      <4> QED
        BY <1>1, <1>3, <3>1, <3>2, <4>1, <4>2 DEF Relies
    <3> QED
      BY <3>3, <3>4
  <2> QED
    BY <2>1, <2>2
<1> QED
  BY <1>2, <1>3

\* What is linked is in no cache to process and in nobody's hands, in the next state.
LEMMA LinkedApartThen ==
    ASSUME Structure', NEW o \in linked'
    PROVE  /\ \A v \in Threads : o \notin InHand(v)'
           /\ \A c \in Pending' : o \notin Range(ptrs'[c])
<1>0. Types' /\ OneHome' /\ o \in Objects
  BY DEF Structure, Types
<1>1. InList \in Homes /\ o \in Content(InList)'
  BY HomeContentsThen, HomesApart
<1>2. ASSUME NEW v \in Threads, NEW k \in Nat PROVE o \notin Held(v, k)'
  <2>1. CallOf(v, k) \in Homes /\ CallOf(v, k) # InList /\ Content(CallOf(v, k))' = Held(v, k)'
    BY HomeContentsThen, HomesApart
  <2> QED
    BY <1>0, <1>1, <2>1 DEF OneHome
<1>3. ASSUME NEW c \in Caches, c \in Stored' PROVE o \notin Range(ptrs'[c])
  <2>1. CacheOf(c) \in Homes /\ CacheOf(c) # InList /\ Content(CacheOf(c))' = Shelf(c)'
    BY HomeContentsThen, HomesApart
  <2>2. Shelf(c)' = Range(ptrs'[c])
    BY <1>3 DEF Shelf
  <2> QED
    BY <1>0, <1>1, <2>1, <2>2 DEF OneHome
<1>4. ASSUME NEW v \in Threads PROVE o \notin InHand(v)'
  <2>1. ASSUME NEW k \in DOMAIN calls'[v] PROVE o \notin InCall(calls'[v][k])
    <3>1. calls'[v] \in Seq(Frames)
      BY <1>0 DEF Types
    <3>2. k \in Nat
      BY <2>1, <3>1
    <3>3. Held(v, k)' = InCall(calls'[v][k])
      BY <2>1 DEF Held, InCall
    <3> QED
      BY <1>2, <3>2, <3>3
  <2>2. Popped(v)' # NULL => o \notin Range(ptrs'[Popped(v)'])
    <3>1. Popped(v)' # NULL => Popped(v)' \in Stored'
      BY DEF Stored
    <3>2. Popped(v)' \in Pointers
      BY <1>0, ConstantTypes DEF Types, Popped, Versioned
    <3> QED
      BY <1>3, <3>1, <3>2, ConstantTypes
  <2>3. InHand(v)' = (IF Popped(v)' = NULL THEN {} ELSE Range(ptrs'[Popped(v)']))
                       \cup UNION {InCall(calls'[v][k]) : k \in DOMAIN calls'[v]}
    BY DEF InHand, InCall
  <2> QED
    BY <2>1, <2>2, <2>3
<1>5. Pending' \subseteq Stored' /\ Pending' \subseteq Caches
  <2>1. Pending' = Reach(next', {toProcess'.head})
    BY DEF Pending, Chain
  <2>2. next' \in [Caches -> Pointers]
    BY <1>0 DEF Types
  <2>3. Pending' \subseteq Caches
    BY <2>1, <2>2, ReachClosed
  <2> QED
    BY <2>3 DEF Stored
<1> QED
  BY <1>3, <1>4, <1>5

\* Objects come to the hands of a thread by its CAS on toProcess only.
LEMMA InHandSteps ==
    ASSUME NEW t \in Threads, Structure, Types', Step(t), NEW v \in Threads, NEW o, o \in InHand(v)'
    PROVE  \/ o \in InHand(v)
           \/ /\ v = t /\ PopCas(t) /\ reg[t].head \in Pending /\ o \in Range(ptrs[reg[t].head])
              /\ pc[t] = "popCas" /\ localVer[t] = toProcess.ver
<1>0. Types /\ Control /\ Versions /\ CacheInv
  BY DEF Structure
<1>1. \/ Popped(v)' # NULL /\ o \in Range(ptrs'[Popped(v)'])
      \/ \E k \in DOMAIN calls'[v] : o \in InCall(calls'[v][k])
  BY DEF InHand, InCall
<1>2. CASE \E k \in DOMAIN calls'[v] : o \in InCall(calls'[v][k])
  <2>1. PICK k \in DOMAIN calls'[v] : o \in InCall(calls'[v][k])
    BY <1>2
  <2>2. CASE \E j \in DOMAIN calls[v] : calls'[v][k] = calls[v][j]
    BY <2>1, <2>2 DEF InHand
  <2>3. CASE calls'[v][k] = NewCall
    BY <2>1, <2>3, InCallParts
  <2>4. CASE v = t /\ \E f \in Frames : calls'[v][k] = f /\ Repair(t) /\ f.rest = ptrs[reg[t].head]
                      /\ f.kept = <<>> /\ f.obj = NoObject /\ reg[t].head \in Caches
    <3>1. Popped(t) = reg[t].head /\ Popped(t) # NULL
      BY <2>4, ConstantTypes DEF Repair, Popped
    <3>2. o \in Range(ptrs[reg[t].head])
      BY <2>1, <2>4, InCallParts
    <3> QED
      BY <2>4, <3>1, <3>2 DEF InHand
  <2>5. ASSUME v = t, calls[t] # <<>>, NEW f \in Frames, calls'[v][k] = f, InCall(f) \subseteq InCall(Top(t))
        PROVE  o \in InHand(v)
    BY <1>0, <2>1, <2>5, TopFrame DEF InHand
  <2>6. CASE v = t /\ \E f \in Frames : calls'[v][k] = f /\ calls[t] # <<>> /\ Top(t) \in Frames
                      /\ Top(t).rest # <<>> /\ f.rest = Tail(Top(t).rest)
                      /\ \/ f.kept = Top(t).kept /\ f.obj = Head(Top(t).rest)
                         \/ f.kept = Append(Top(t).kept, Head(Top(t).rest)) /\ f.obj = NoObject
    <3>1. PICK f \in Frames : /\ calls'[v][k] = f /\ Top(t).rest # <<>> /\ f.rest = Tail(Top(t).rest)
                              /\ \/ f.kept = Top(t).kept /\ f.obj = Head(Top(t).rest)
                                 \/ f.kept = Append(Top(t).kept, Head(Top(t).rest)) /\ f.obj = NoObject
      BY <2>6
    <3>2. Top(t).rest \in Seq(Objects) /\ Top(t).kept \in Seq(Objects)
      BY <2>6, FilledParts
    <3>3. Range(Top(t).rest) = Range(f.rest) \cup {Head(Top(t).rest)} /\ Head(Top(t).rest) \in Objects
      BY <3>1, <3>2, FirstTaken
    <3>4. Range(f.kept) \subseteq Range(Top(t).kept) \cup {Head(Top(t).rest)}
      BY <3>1, <3>2, <3>3, Appended
    <3>5. InCall(f) \subseteq InCall(Top(t))
      BY <3>1, <3>3, <3>4 DEF InCall
    <3> QED
      BY <2>5, <2>6, <3>1, <3>5
  <2>7. CASE v = t /\ \E f \in Frames : calls'[v][k] = f /\ calls[t] # <<>> /\ Top(t) \in Frames
                      /\ f.rest = Top(t).rest /\ f.kept = Top(t).kept /\ f.obj = NoObject
    BY <2>5, <2>7 DEF InCall
  <2> QED
    BY <1>0, <2>1, <2>2, <2>3, <2>4, <2>6, <2>7, NewFrames
<1>3. CASE Popped(v)' # NULL /\ o \in Range(ptrs'[Popped(v)'])
  <2>1. pc'[v] = "repair" /\ Popped(v)' = reg'[v].head
    BY <1>3 DEF Popped
  <2>2. CASE v # t
    <3>1. pc[v] = "repair" /\ Popped(v) = Popped(v)' /\ Popped(v) # NULL
      BY <1>0, <1>3, <2>1, <2>2, OthersSame DEF Same, Popped
    <3>2. Popped(v) \in Mine(v)
      BY <3>1 DEF Mine
    <3>3. ptrs'[Popped(v)] = ptrs[Popped(v)]
      BY <1>0, <2>2, <3>2, StacksUntouched
    <3>4. o \in Range(ptrs[Popped(v)])
      BY <1>3, <3>1, <3>3
    <3> QED
      BY <3>1, <3>4 DEF InHand
  <2>3. CASE v = t
    <3>1. PopCas(t)
      <4>1. CASE Freeze(t) \/ LoadHead(t) \/ Move(t) \/ Unfreeze(t) \/ Look(t) \/ Stamp(t) \/ Save(t)
                 \/ Pop(t) \/ Follow(t) \/ Repair(t) \/ Scan(t) \/ EndScan(t) \/ GiveCas(t)
        BY <1>0, <2>1, <2>3, <4>1, CollectPlaces
      <4>2. CASE ~ (Freeze(t) \/ LoadHead(t) \/ Move(t) \/ Unfreeze(t) \/ Look(t) \/ Stamp(t) \/ Save(t)
                 \/ Pop(t) \/ Follow(t) \/ PopCas(t) \/ Repair(t) \/ Scan(t) \/ EndScan(t) \/ GiveCas(t))
        BY <1>0, <2>1, <2>3, <4>2, StepGroups, MutatorPlaces
      <4> QED
        BY <4>1, <4>2
    <3>2. reg[t].head \in Pending /\ reg'[t] = reg[t]
      BY <1>0, <2>1, <2>3, <3>1, PopStacks
    <3>3. ptrs' = ptrs /\ pc[t] = "popCas"
      BY <3>1 DEF PopCas, caches
    <3>4. localVer[t] = toProcess.ver
      <4>1. reg[t].ver = localVer[t]
        BY <1>0, <3>3 DEF Control, RegistersOf
      <4>2. toProcess = reg[t]
        <5>1. toProcess # reg[t] => pc' = [pc EXCEPT ![t] = "pop"]
          BY <3>1 DEF PopCas, Goto
        <5> QED
          BY <1>0, <2>1, <2>3, <5>1 DEF Types
      <4> QED
        BY <4>1, <4>2
    <3>5. o \in Range(ptrs[reg[t].head])
      BY <1>3, <2>1, <2>3, <3>2, <3>3
    <3> QED
      BY <2>3, <3>1, <3>2, <3>3, <3>4, <3>5
  <2> QED
    BY <2>2, <2>3
<1> QED
  BY <1>1, <1>2, <1>3

\* What a thread has to look at becomes more with a new version only.
LEMMA DueSteps ==
    ASSUME NEW t \in Threads, Structure, Types', Step(t), NEW v \in Threads, NEW o, o \in Due(v)'
    PROVE  o \in Due(v) \/ (v = t /\ Unfreeze(t))
<1>0. Types /\ Control /\ Versions /\ CacheInv
  BY DEF Structure
<1>1. \/ o \in InHand(v)'
      \/ localVer'[v] = toProcess'.ver /\ \E c \in Pending' : o \in Range(ptrs'[c])
  BY DEF Due
<1>2. CASE o \in InHand(v)'
  BY <1>2, InHandSteps DEF Due
<1>3. CASE localVer'[v] = toProcess'.ver /\ \E c \in Pending' : o \in Range(ptrs'[c])
  <2>1. PICK c \in Pending' : o \in Range(ptrs'[c])
    BY <1>3
  <2>2. localVer'[v] = localVer[v] \/ (v = t /\ Unfreeze(t))
    <3>1. CASE Unfreeze(t)
      BY <1>0, <3>1, OthersSame DEF Same
    <3>2. CASE ~ Unfreeze(t)
      BY <1>0, <3>2, VersionSteps
    <3> QED
      BY <3>1, <3>2
  <2>3. CASE Pending' \subseteq Pending /\ toProcess'.ver = toProcess.ver
    <3>1. c \in Pending /\ ptrs'[c] = ptrs[c]
      BY <1>0, <2>1, <2>3, StacksUntouched
    <3> QED
      BY <1>3, <2>1, <2>2, <2>3, <3>1 DEF Due
  <2>4. CASE toProcess'.ver = toProcess.ver + 2 /\ localVer' = localVer
    <3>1. localVer[v] <= toProcess.ver /\ localVer[v] \in Nat /\ toProcess.ver \in Nat
      BY <1>0, VersionNumbers DEF Versions, Changing
    <3> QED
      BY <1>3, <2>4, <3>1
  <2> QED
    BY <1>0, <2>3, <2>4, StackSteps
<1> QED
  BY <1>1, <1>2, <1>3

\* The set hps of a thread.
LEMMA HpsSteps ==
    ASSUME NEW t \in Threads, Types, Types', Control, Step(t)
    PROVE  \/ hps' = hps /\ ~ (Look(t) \/ Save(t))
           \/ Look(t)
           \/ Save(t)
           \/ Pop(t) /\ calls'[t] = <<>>
<1>1. CASE Pop(t)
  <2>1. hps' = hps \/ Return(t)
    BY <1>1 DEF Pop
  <2>2. CASE Return(t)
    <3>1. pc[t] = "pop"
      BY <1>1 DEF Pop
    <3>2. calls[t] # <<>>
      BY <3>1 DEF Control, CallsOf, ListPC, PallocPC, FreePC
    <3>3. calls'[t] = <<>> <=> Len(calls[t]) = 1
      BY <2>2, <3>2, CallReturned
    <3>4. Len(calls[t]) # 1 => hps' = hps
      BY <2>2 DEF Return, Types
    <3> QED
      BY <1>1, <3>1, <3>3, <3>4 DEF Look, Save
  <2> QED
    BY <1>1, <2>1, <2>2 DEF Pop, Look, Save
<1>2. CASE Freeze(t) \/ LoadHead(t) \/ Move(t) \/ Unfreeze(t) \/ Stamp(t)
           \/ Follow(t) \/ PopCas(t) \/ Repair(t) \/ Scan(t) \/ EndScan(t) \/ GiveCas(t)
  <2>1. hps' = hps
    BY <1>2 DEF Freeze, LoadHead, Move, Unfreeze, Stamp, Follow, PopCas, Repair, Scan, EndScan, GiveCas
  <2>2. ~ (Look(t) \/ Save(t))
    BY <1>2 DEF Freeze, LoadHead, Move, Unfreeze, Stamp, Follow, PopCas, Repair, Scan, EndScan, GiveCas, Look, Save
  <2> QED
    BY <2>1, <2>2
<1>3. CASE PFree(t) \/ PushLink(t) \/ PushCas(t) \/ PopHead(t) \/ HeadCas(t) \/ UnlinkCache(t)
  <2>1. hps' = hps
    BY <1>3 DEF PFree, PushLink, PushCas, PopHead, HeadCas, UnlinkCache
  <2>2. ~ (Look(t) \/ Save(t))
    BY <1>3 DEF PFree, PushLink, PushCas, PopHead, HeadCas, UnlinkCache, Look, Save
  <2> QED
    BY <2>1, <2>2
<1>4. CASE Clear(t) \/ Search(t) \/ WalkToUnlink(t) \/ WalkToInsert(t) \/ Publish(t)
           \/ Fence(t) \/ Restart(t) \/ Cas(t) \/ Finish(t)
  <2>1. hps' = hps
    BY <1>4 DEF Clear, Search, WalkToUnlink, WalkToInsert, Publish, Fence, Restart, Cas, Finish, vars
  <2>2. ~ (Look(t) \/ Save(t))
    BY <1>4 DEF Clear, Search, WalkToUnlink, WalkToInsert, Publish, Fence, Restart, Cas, Finish, Look, Save
  <2> QED
    BY <2>1, <2>2
<1> QED
  BY <1>1, <1>2, <1>3, <1>4, StepGroups

\* Who has saved the hazard pointers of u keeps them until its collections have ended.
LEMMA SavedSteps ==
    ASSUME NEW t \in Threads, Structure, Types', Control', Step(t), NEW v \in Threads, NEW u \in Threads, SavedBy(v, u)'
    PROVE  \/ SavedBy(v, u) /\ hps[v] \subseteq hps'[v]
           \/ v = t /\ Save(t) /\ HPs[u] \subseteq hps'[v]
<1>0. Types /\ Control
  BY DEF Structure
<1>1. calls'[v] # <<>> /\ pc'[v] \notin ChangePC \cup StampPC /\ (pc'[v] = "save" => u < i'[v])
  BY DEF SavedBy
<1>2. CASE v # t
  BY <1>0, <1>1, <1>2, OthersSame DEF Same, SavedBy
<1>3. CASE v = t /\ Save(t)
  <2>1. pc[t] = "save" /\ hps' = [hps EXCEPT ![t] = @ \cup HPs[i[t]]] /\ NextThread(t, "save", "pop")
    BY <1>3 DEF Save
  <2>2. calls[t] # <<>>
    BY <1>0, <2>1 DEF Control, CallsOf, ListPC, PallocPC, FreePC
  <2>3. hps'[t] = hps[t] \cup HPs[i[t]]
    BY <1>0, <2>1 DEF Types
  <2>4. PICK k \in Threads : k = i[t]
    BY <1>0 DEF Types
  <2>5. i'[t] = (k + 1) % NumThreads /\ pc'[t] = IF k + 1 < NumThreads THEN "save" ELSE "pop"
    BY <1>0, <2>1, <2>4 DEF NextThread, Goto, Types
  <2>6. u <= k
    <3>1. /\ k + 1 < NumThreads => (k + 1) % NumThreads = k + 1
          /\ k + 1 >= NumThreads => k + 1 = NumThreads
      BY NextIndex
    <3>2. k \in Int /\ u \in Int /\ NumThreads \in Int /\ u < NumThreads
      BY RetireAssumption DEF Threads
    <3>3. CASE k + 1 < NumThreads
      <4>1. u < k + 1
        BY <1>1, <1>3, <2>5, <3>1, <3>3
      <4> QED
        BY <3>2, <4>1
    <3>4. CASE ~ (k + 1 < NumThreads)
      BY <3>1, <3>2, <3>4
    <3> QED
      BY <3>3, <3>4
  <2>7. u = k \/ u < k
    BY <2>6 DEF Threads
  <2> QED
    BY <1>3, <2>1, <2>2, <2>3, <2>4, <2>7 DEF SavedBy, ChangePC, StampPC
<1>4. CASE v = t /\ ~ Save(t)
  <2>1. ~ (Look(t) \/ Stamp(t) \/ Freeze(t) \/ LoadHead(t) \/ Move(t) \/ Unfreeze(t))
    <3>1. ASSUME Look(t) \/ Stamp(t) PROVE FALSE
      <4>1. pc'[t] = "save"
        BY <1>0, <1>1, <1>4, <3>1, CollectPlaces DEF StampPC
      <4>2. PICK k \in Threads : k = i[t]
        BY <1>0 DEF Types
      <4>3. NextThread(t, "look", "save")
        BY <1>0, <3>1, <4>1 DEF Look, Stamp, Goto, Types
      <4>4. i'[t] = (k + 1) % NumThreads /\ pc'[t] = IF k + 1 < NumThreads THEN "look" ELSE "save"
        BY <1>0, <4>2, <4>3 DEF NextThread, Goto, Types
      <4>5. ~ (k + 1 < NumThreads)
        BY <4>1, <4>4
      <4>6. k + 1 >= NumThreads
        BY <4>5, RetireAssumption DEF Threads
      <4>7. i'[t] = 0
        BY <4>4, <4>6, NextIndex
      <4> QED
        BY <1>1, <1>4, <4>1, <4>7 DEF Threads
    <3> QED
      BY <1>0, <1>1, <1>4, <3>1, CollectPlaces DEF ChangePC, StampPC
  <2>2. pc[t] \notin ChangePC \cup StampPC \cup {"save"} /\ pc'[t] # "freeze"
    <3>1. CASE Pop(t) \/ Follow(t) \/ PopCas(t) \/ Repair(t) \/ Scan(t) \/ EndScan(t) \/ GiveCas(t)
      BY <1>0, <3>1, CollectPlaces DEF ChangePC, StampPC
    <3>2. CASE ~ (Pop(t) \/ Follow(t) \/ PopCas(t) \/ Repair(t) \/ Scan(t) \/ EndScan(t) \/ GiveCas(t))
      <4>1. pc'[t] # "freeze"
        BY <1>1, <1>4 DEF ChangePC
      <4>2. pc[t] \in ListPC \cup PallocPC \cup FreePC
        BY <1>0, <1>4, <2>1, <3>2, StepGroups, MutatorPlaces DEF ListPC, PallocPC, FreePC
      <4> QED
        BY <4>1, <4>2 DEF ListPC, PallocPC, FreePC, ChangePC, StampPC
    <3> QED
      BY <3>1, <3>2
  <2>3. calls[t] # <<>>
    <3>1. CASE PushLink(t) \/ PopHead(t)
      <4>1. UNCHANGED calls \/ Trigger(t)
        BY <3>1 DEF PushLink, PopHead
      <4>2. Trigger(t) => pc'[t] = "freeze"
        BY <1>0 DEF Trigger, Goto, Types
      <4> QED
        BY <1>1, <1>4, <2>2, <4>1, <4>2
    <3>2. CASE Pop(t) \/ Repair(t) \/ Scan(t) \/ EndScan(t) \/ GiveCas(t)
      <4>1. pc[t] \in {"pop", "repair", "scan", "giveCas"}
        BY <1>0, <3>2, CollectPlaces
      <4> QED
        BY <1>0, <4>1 DEF Control, CallsOf, ListPC, PallocPC, FreePC
    <3>3. CASE PFree(t) \/ PushCas(t)
      <4>1. UNCHANGED calls \/ FreeReturns(t)
        BY <3>3 DEF PFree, PushCas
      <4>2. pc[t] \in FreePC \cup {"retire"}
        BY <1>0, <3>3, MutatorPlaces DEF FreePC
      <4> QED
        BY <1>0, <1>1, <1>4, <4>1, <4>2, FreeReturned
    <3>4. CASE ~ (PushLink(t) \/ PopHead(t) \/ Pop(t) \/ Repair(t) \/ Scan(t) \/ EndScan(t) \/ GiveCas(t)
                  \/ PFree(t) \/ PushCas(t))
      BY <1>1, <1>4, <3>4, CallsSame
    <3> QED
      BY <3>1, <3>2, <3>3, <3>4
  <2>4. hps' = hps
    BY <1>0, <1>1, <1>4, <2>1, HpsSteps
  <2> QED
    BY <1>4, <2>2, <2>3, <2>4 DEF SavedBy
<1> QED
  BY <1>2, <1>3, <1>4

\* What Hazards says of one thread and one object.
NotFree(o) == o \notin FreeObjects \cup LiveObjects \cup forgotten \/ o \in linked
NotTaken(u, o) ==
    /\ \A t \in Threads : o \notin InHand(t)
    /\ \A c \in Pending : o \in Range(ptrs[c]) => dirties[u].ver < toProcess.ver
Guarded(u, o) == \A t \in Threads : SavedBy(t, u) /\ o \in Due(t) => o \in hps[t]

\* The parts of Hazards.
LEMMA HazardParts ==
    Hazards <=> \A u \in Threads : \A o \in Objects : Relies(u, o) =>
                    /\ NotFree(o)
                    /\ pc[u] # "cas" => NotTaken(u, o)
                    /\ pc[u] = "cas" => Guarded(u, o)
  BY DEF Hazards, NotFree, NotTaken, Guarded

\* An object that a thread relies on becomes neither free nor live.
LEMMA StaysNotFree ==
    ASSUME NEW t \in Threads, Structure, Types', Step(t), NEW o \in Objects, NotFree(o),
           Scan(t) => \A n \in Nat : o \in Held(t, n) => o \in hps[t]
    PROVE  NotFree(o)'
<1>0. NotFree(o)' <=> o \notin FreeObjects' \cup LiveObjects' \cup forgotten' \/ o \in linked'
  BY DEF NotFree
<1>1. CASE o \in linked
  <2>1. o \notin FreeObjects /\ o \notin forgotten
    BY <1>1, LinkedApart
  <2>2. CASE o \in linked'
    BY <1>0, <2>2
  <2>3. CASE o \notin linked'
    <3>1. /\ o = ref[t] /\ LiveObjects' = LiveObjects \ {ref[t]}
          /\ FreeObjects' = FreeObjects /\ forgotten' = forgotten
      BY <1>1, <2>3, ObjectSteps
    <3> QED
      BY <1>0, <2>1, <3>1
  <2> QED
    BY <2>2, <2>3
<1>2. CASE o \notin FreeObjects \cup LiveObjects \cup forgotten
  <2>1. CASE UNCHANGED forgotten /\ FreeObjects' = FreeObjects /\ LiveObjects' = LiveObjects
    BY <1>0, <1>2, <2>1
  <2>2. CASE /\ UNCHANGED forgotten
             /\ \E x \in FreeObjects : FreeObjects' = FreeObjects \ {x} /\ LiveObjects' = LiveObjects \cup {x}
    BY <1>0, <1>2, <2>2
  <2>3. CASE /\ own[t] \in LiveObjects /\ LiveObjects' = LiveObjects \ {own[t]}
             /\ \/ FreeObjects' = FreeObjects \cup {own[t]} /\ forgotten' = forgotten
                \/ FreeObjects' = FreeObjects /\ forgotten' = forgotten \cup {own[t]}
    BY <1>0, <1>2, <2>3
  <2>4. CASE /\ UNCHANGED forgotten /\ FreeObjects' = FreeObjects
             /\ LiveObjects' = LiveObjects \ {ref[t]}
    BY <1>0, <1>2, <2>4
  <2>5. CASE /\ Scan(t) /\ UNCHANGED forgotten /\ LiveObjects' = LiveObjects
             /\ \E x \in Objects, n \in Nat :
                    x \in Held(t, n) /\ x \notin hps[t] /\ FreeObjects' = FreeObjects \cup {x}
    BY <1>0, <1>2, <2>5
  <2> QED
    BY <2>1, <2>2, <2>3, <2>4, <2>5, ObjectSteps
<1> QED
  BY <1>1, <1>2 DEF NotFree

\* What a call holds its thread has in its hands.
LEMMA HeldInHand ==
    ASSUME NEW t \in Threads, NEW n, NEW o, o \in Held(t, n)
    PROVE  o \in InHand(t)
  BY DEF Held, InHand

\* Who has not yet fenced relies on objects that nobody processes.
LEMMA StaysNotTaken ==
    ASSUME NEW t \in Threads, Structure, Types', Step(t), NEW u \in Threads, NEW o \in Objects,
           NotTaken(u, o), ~ dirties'[u].dirty
    PROVE  NotTaken(u, o)'
<1>0. Types /\ Control /\ Versions /\ Stamps /\ CacheInv
  BY DEF Structure
<1>1. toProcess.ver \in Nat /\ dirties[u].ver \in Nat /\ localVer[t] \in Nat
  BY <1>0 DEF Types, Words, Versioned
<1>2. ASSUME NEW v \in Threads, o \in InHand(v)' PROVE FALSE
  <2>1. /\ PopCas(t) /\ reg[t].head \in Pending /\ o \in Range(ptrs[reg[t].head])
        /\ pc[t] = "popCas" /\ localVer[t] = toProcess.ver
    BY <1>2, InHandSteps DEF NotTaken
  <2>2. dirties[u].ver < toProcess.ver
    BY <2>1 DEF NotTaken
  <2>3. dirties[u].ver >= localVer[t]
    BY <1>0, <2>1 DEF Stamps, StampPC
  <2> QED
    BY <1>1, <2>1, <2>2, <2>3
<1>3. ASSUME NEW c \in Pending', o \in Range(ptrs'[c]) PROVE dirties'[u].ver < toProcess'.ver
  <2>1. dirties'[u].ver = dirties[u].ver
    BY <1>0, RecordGrows
  <2>2. CASE Pending' \subseteq Pending /\ toProcess'.ver = toProcess.ver
    <3>1. c \in Pending /\ ptrs'[c] = ptrs[c]
      BY <1>0, <1>3, <2>2, StacksUntouched
    <3>2. dirties[u].ver < toProcess.ver
      BY <1>3, <3>1 DEF NotTaken
    <3> QED
      BY <2>1, <2>2, <3>2
  <2>3. CASE toProcess'.ver = toProcess.ver + 2
    <3>1. dirties[u].ver <= toProcess.ver
      BY <1>0 DEF Stamps
    <3> QED
      BY <1>1, <2>1, <2>3, <3>1
  <2> QED
    BY <1>0, <2>2, <2>3, StackSteps
<1>4. \A v \in Threads : o \notin InHand(v)'
  BY <1>2
<1>5. \A c \in Pending' : o \in Range(ptrs'[c]) => dirties'[u].ver < toProcess'.ver
  BY <1>3
<1> QED
  BY <1>4, <1>5 DEF NotTaken

\* The fence: who processes the object has not yet looked at the record, and will see it stamped before it
\* saves the hazard pointers.
LEMMA FenceGuards ==
    ASSUME NEW t \in Threads, Structure, Types', Control', Step(t), Fence(t), NEW o \in Objects,
           NotTaken(t, o), pc'[t] = "cas"
    PROVE  Guarded(t, o)'
<1>0. Types /\ Control /\ Versions /\ Stamps /\ CacheInv
  BY DEF Structure
<1>1. toProcess.ver \in Nat /\ dirties[t].ver \in Nat
  BY <1>0 DEF Types, Words, Versioned
<1>2. ASSUME NEW v \in Threads, SavedBy(v, t)', o \in Due(v)' PROVE FALSE
  <2>1. v # t
    <3>1. calls'[t] = <<>>
      BY DEF Control, CallsOf, ListPC
    <3> QED
      BY <1>2, <3>1 DEF SavedBy
  <2>2. SavedBy(v, t)
    BY <1>2, <2>1, SavedSteps
  <2>3. o \in Due(v)
    BY <1>2, <2>1, DueSteps
  <2>4. localVer[v] = toProcess.ver /\ \E c \in Pending : o \in Range(ptrs[c])
    BY <2>3 DEF Due, NotTaken
  <2>5. dirties[t].ver < toProcess.ver
    BY <2>4 DEF NotTaken
  <2>6. pc[v] \notin StampPC
    BY <2>2 DEF SavedBy
  <2>7. dirties[t].ver >= localVer[v]
    BY <1>0, <2>6 DEF Stamps
  <2> QED
    BY <1>1, <2>4, <2>5, <2>7
<1> QED
  BY <1>2 DEF Guarded

\* The hazard pointers of a thread that is before its CAS hold the object, and whoever saves them has it.
LEMMA StaysGuarded ==
    ASSUME NEW t \in Threads, Structure, Types', Control', Step(t), NEW u \in Threads, NEW o \in Objects,
           Relies(u, o), Guarded(u, o), pc[u] = "cas"
    PROVE  Guarded(u, o)'
<1>0. Types /\ Control
  BY DEF Structure
<1>1. o \in HPs[u]
  BY <1>0, ConstantTypes DEF Control, OperationOf, Relies
<1>2. ASSUME NEW v \in Threads, SavedBy(v, u)', o \in Due(v)' PROVE o \in hps'[v]
  <2>1. CASE v = t /\ Save(t) /\ HPs[u] \subseteq hps'[v]
    BY <1>1, <2>1
  <2>2. CASE SavedBy(v, u) /\ hps[v] \subseteq hps'[v]
    <3>1. o \in Due(v)
      <4>1. ASSUME v = t, Unfreeze(t) PROVE FALSE
        BY <1>0, <1>2, <4>1, CollectPlaces DEF SavedBy, StampPC
      <4> QED
        BY <1>2, <4>1, DueSteps
    <3> QED
      BY <2>2, <3>1 DEF Guarded
  <2> QED
    BY <1>2, <2>1, <2>2, SavedSteps
<1> QED
  BY <1>2 DEF Guarded

\* A step keeps what the hazard pointers are for.
LEMMA StepHazards ==
    ASSUME NEW t \in Threads, Structure, Structure', Hazards, Step(t)
    PROVE  Hazards'
<1>0. Types /\ Control /\ Types' /\ Control'
  BY DEF Structure
<1>1. SUFFICES ASSUME NEW u \in Threads, NEW o \in Objects, Relies(u, o)'
               PROVE  /\ NotFree(o)'
                      /\ pc'[u] # "cas" => NotTaken(u, o)'
                      /\ pc'[u] = "cas" => Guarded(u, o)'
  BY DEF Hazards, NotFree, NotTaken, Guarded
<1>2. CASE u = t /\ (WalkToUnlink(t) \/ WalkToInsert(t)) /\ o \in linked' /\ pc'[t] # "cas"
  <2>1. NotFree(o)'
    BY <1>2 DEF NotFree
  <2>2. NotTaken(u, o)'
    BY <1>2, LinkedApartThen DEF NotTaken
  <2> QED
    BY <1>2, <2>1, <2>2
<1>3. CASE Relies(u, o)
  <2>1. /\ NotFree(o)
        /\ pc[u] # "cas" => NotTaken(u, o)
        /\ pc[u] = "cas" => Guarded(u, o)
    BY <1>3, HazardParts
  <2>2. ASSUME Scan(t), NEW n \in Nat, o \in Held(t, n) PROVE o \in hps[t]
    <3>1. o \in InHand(t)
      BY <2>2, HeldInHand
    <3>2. pc[u] = "cas" /\ Guarded(u, o)
      BY <2>1, <3>1 DEF NotTaken
    <3>3. SavedBy(t, u)
      <4>1. pc[t] = "scan"
        BY <2>2 DEF Scan
      <4>2. calls[t] # <<>>
        BY <1>0, <4>1 DEF Control, CallsOf, ListPC, PallocPC, FreePC
      <4> QED
        BY <4>1, <4>2 DEF SavedBy, ChangePC, StampPC
    <3> QED
      BY <3>1, <3>2, <3>3 DEF Guarded, Due
  <2>3. NotFree(o)'
    BY <1>0, <2>1, <2>2, StaysNotFree
  <2>4. CASE pc[u] = "cas" /\ pc'[u] = "cas"
    BY <1>0, <1>3, <2>1, <2>3, <2>4, StaysGuarded
  <2>5. CASE pc[u] # "cas" /\ pc'[u] # "cas"
    <3>1. ~ dirties'[u].dirty
      BY <1>1, <2>5 DEF Relies
    <3> QED
      BY <1>0, <2>1, <2>3, <2>5, <3>1, StaysNotTaken
  <2>6. CASE pc[u] = "fence" /\ pc'[u] = "cas" /\ u = t /\ Fence(t)
    BY <1>0, <2>1, <2>3, <2>6, FenceGuards
  <2>7. \/ pc[u] = "cas" /\ pc'[u] = "cas"
        \/ pc[u] # "cas" /\ pc'[u] # "cas"
        \/ pc[u] = "fence" /\ pc'[u] = "cas" /\ u = t /\ Fence(t)
        \/ u = t /\ (WalkToUnlink(t) \/ WalkToInsert(t)) /\ o \in linked' /\ pc'[t] # "cas"
    BY <1>0, <1>1, ReliesSteps
  <2> QED
    BY <1>2, <2>4, <2>5, <2>6, <2>7
<1> QED
  BY <1>0, <1>1, <1>2, <1>3, ReliesSteps

\* All facts together: the inductive invariant.
THEOREM HazardInvariant == Spec => []RetireInv
<1>1. Init => Hazards
  <2> SUFFICES ASSUME Init PROVE Hazards
    OBVIOUS
  <2>1. \A u \in Threads : ref[u] = NoObject
    BY DEF Init
  <2> QED
    BY <2>1, ConstantTypes DEF Hazards, Relies
<1>2. Structure /\ Structure' /\ Hazards /\ [Next]_vars => Hazards'
  <2> SUFFICES ASSUME Structure, Structure', Hazards, [Next]_vars PROVE Hazards'
    OBVIOUS
  <2>1. CASE \E t \in Threads : Step(t)
    BY <2>1, StepHazards
  <2>2. CASE UNCHANGED vars
    <3>1. UNCHANGED <<reclaim, toProcess, head, next, ptrs, allocCache, freeCache, dirties, HPs, linked, forgotten,
                      localVer, hps, op, ref, own, calls, reg, i, pc>>
      BY <2>2 DEF vars, shared, caches, records, operation, regs
    <3>2. Pending' = Pending
      BY <3>1 DEF Pending, Chain
    <3>3. FreeObjects' = FreeObjects
      BY <3>1 DEF FreeObjects, Chain
    <3>4. LiveObjects' = LiveObjects
      BY <3>1 DEF LiveObjects
    <3>5. \A v \in Threads : InHand(v)' = InHand(v)
      BY <3>1 DEF InHand, Popped, InCall
    <3>6. \A v \in Threads : Due(v)' = Due(v)
      BY <3>1, <3>2, <3>5 DEF Due
    <3>7. \A u \in Threads, o \in Objects : Relies(u, o)' = Relies(u, o) /\ NotFree(o)' = NotFree(o)
      BY <3>1, <3>3, <3>4 DEF Relies, NotFree
    <3>8. \A u \in Threads, o \in Objects : NotTaken(u, o) => NotTaken(u, o)'
      BY <3>1, <3>2, <3>5 DEF NotTaken
    <3>9. \A u, v \in Threads : SavedBy(v, u)' = SavedBy(v, u)
      BY <3>1 DEF SavedBy
    <3>10. \A u \in Threads, o \in Objects : Guarded(u, o) => Guarded(u, o)'
      BY <3>1, <3>6, <3>9 DEF Guarded
    <3>11. \A u \in Threads, o \in Objects : Relies(u, o)' =>
                /\ NotFree(o)'
                /\ pc'[u] # "cas" => NotTaken(u, o)'
                /\ pc'[u] = "cas" => Guarded(u, o)'
      BY <3>1, <3>7, <3>8, <3>10, HazardParts
    <3> QED
      BY <3>11 DEF Hazards, NotFree, NotTaken, Guarded
  <2> QED
    BY <2>1, <2>2 DEF Next, AtBound
<1> QED
  BY <1>1, <1>2, StructureInvariant, PTL DEF Spec, RetireInv

-----------------------------------------------------------------------------
(* The promise of retirement.                                              *)

\* What the threads use: the hazard pointers of those that have passed FENCE_CHECK.
Using == [t \in Threads |-> IF pc[t] = "cas" THEN HPs[t] ELSE {}]

\* A thread comes to use something at the exchange of FENCE_CHECK, and ends with its CAS.
LEMMA UsingSteps ==
    ASSUME NEW t \in Threads, Types, Types', Control, Step(t)
    PROVE  \/ Using' = Using /\ ~ Cas(t)
           \/ /\ Fence(t) /\ ~ dirties[t].dirty /\ pc[t] = "fence"
              /\ Using' = [Using EXCEPT ![t] = HPs[t]]
           \/ /\ Cas(t) /\ pc[t] = "cas" /\ Using[t] = HPs[t]
              /\ Using' = [Using EXCEPT ![t] = {}]
<1>1. ASSUME NEW u \in Threads, u # t PROVE pc'[u] = pc[u] /\ HPs'[u] = HPs[u]
  BY <1>1, OthersSame DEF Same
<1>2. Using' = [u \in Threads |-> IF pc'[u] = "cas" THEN HPs'[u] ELSE {}]
  BY DEF Using
<1>3. CASE Cas(t)
  <2>1. pc[t] = "cas" /\ pc'[t] # "cas"
    BY <1>3, MutatorPlaces
  <2> QED
    BY <1>1, <1>2, <1>3, <2>1 DEF Using
<1>4. CASE Fence(t)
  <2>1. pc[t] = "fence" /\ pc'[t] = (IF dirties[t].dirty THEN "restart" ELSE "cas") /\ HPs' = HPs
    BY <1>4 DEF Fence, Goto, Types
  <2>2. ~ Cas(t)
    BY <2>1 DEF Cas
  <2>3. CASE dirties[t].dirty
    BY <1>1, <1>2, <2>1, <2>2, <2>3 DEF Using
  <2>4. CASE ~ dirties[t].dirty
    BY <1>1, <1>2, <1>4, <2>1, <2>4 DEF Using
  <2> QED
    BY <2>3, <2>4
<1>5. CASE ~ (Cas(t) \/ Fence(t))
  <2>1. pc[t] # "cas" /\ pc'[t] # "cas"
    <3>1. CASE Freeze(t) \/ LoadHead(t) \/ Move(t) \/ Unfreeze(t) \/ Look(t) \/ Stamp(t) \/ Save(t)
               \/ Pop(t) \/ Follow(t) \/ PopCas(t) \/ Repair(t) \/ Scan(t) \/ EndScan(t) \/ GiveCas(t)
      BY <3>1, CollectPlaces
    <3>2. CASE ~ (Freeze(t) \/ LoadHead(t) \/ Move(t) \/ Unfreeze(t) \/ Look(t) \/ Stamp(t) \/ Save(t)
               \/ Pop(t) \/ Follow(t) \/ PopCas(t) \/ Repair(t) \/ Scan(t) \/ EndScan(t) \/ GiveCas(t))
      BY <1>5, <3>2, StepGroups, MutatorPlaces
    <3> QED
      BY <3>1, <3>2
  <2> QED
    BY <1>1, <1>2, <1>5, <2>1 DEF Using
<1> QED
  BY <1>3, <1>4, <1>5

\* Before its CAS a thread uses the object it has come to, its own, or both.
LEMMA UsedObjects ==
    ASSUME Types, Control, NEW u \in Threads
    PROVE  /\ pc[u] \in {"fence", "cas"} =>
                HPs[u] # {} /\ HPs[u] \subseteq Objects /\ HPs[u] = {ref[u], own[u]} \ {NoObject}
           /\ \A o \in Objects : o \in Using[u] => pc[u] = "cas" /\ (Relies(u, o) \/ own[u] = o)
<1>1. CASE pc[u] \in {"fence", "cas"}
  <2>1. HPs[u] = {ref[u], own[u]} \ {NoObject} /\ HPs[u] \subseteq Objects
    BY <1>1 DEF Types, Control, OperationOf
  <2>2. ref[u] \in Objects \/ own[u] \in Objects
    BY <1>1 DEF Types, Control, OperationOf
  <2>3. HPs[u] # {}
    BY <2>1, <2>2, ConstantTypes
  <2> QED
    BY <1>1, <2>1, <2>3 DEF Using, Relies
<1>2. CASE pc[u] \notin {"fence", "cas"}
  BY <1>2 DEF Using
<1> QED
  BY <1>1, <1>2

\* What a thread is about to use is not free when it looks at its record again.
LEMMA FencedNotFree ==
    ASSUME RetireInv, NEW t \in Threads, pc[t] = "fence", ~ dirties[t].dirty
    PROVE  HPs[t] \cap FreeObjects = {}
<1>0. Structure /\ Hazards /\ Types /\ Control
  BY DEF RetireInv, Structure
<1>1. ASSUME NEW o \in HPs[t] PROVE o \notin FreeObjects
  <2>1. o \in Objects /\ (o = ref[t] \/ o = own[t])
    BY <1>0, UsedObjects
  <2>2. CASE o = own[t]
    BY <1>0, <2>1, <2>2, OwnApart
  <2>3. CASE o = ref[t]
    <3>1. Relies(t, o)
      BY <2>1, <2>3 DEF Relies
    <3>2. NotFree(o)
      BY <1>0, <2>1, <3>1, HazardParts
    <3> QED
      BY <1>0, <3>2, LinkedApart DEF NotFree
  <2> QED
    BY <2>1, <2>2, <2>3
<1> QED
  BY <1>1

\* Nobody uses the object that an operation gives back or forgets.
LEMMA OwnUnused ==
    ASSUME RetireInv, NEW t \in Threads, pc[t] # "cas", own[t] \in Objects, own[t] \in LiveObjects
    PROVE  \A u \in Threads : own[t] \notin Using[u]
<1>0. Structure /\ Hazards /\ Types /\ Control
  BY DEF RetireInv, Structure
<1>1. ASSUME NEW u \in Threads, own[t] \in Using[u] PROVE FALSE
  <2>1. pc[u] = "cas" /\ (Relies(u, own[t]) \/ own[u] = own[t])
    BY <1>0, <1>1, UsedObjects
  <2>2. own[t] \notin linked /\ \A v \in Threads : v # t => own[v] # own[t]
    BY <1>0, OwnApart
  <2>3. Relies(u, own[t])
    BY <2>1, <2>2
  <2>4. NotFree(own[t])
    BY <1>0, <2>3, HazardParts
  <2> QED
    BY <2>2, <2>4 DEF NotFree
<1> QED
  BY <1>1

\* Nobody uses an object that Recycle frees.
LEMMA FreedUnused ==
    ASSUME RetireInv, NEW t \in Threads, pc[t] = "scan", calls[t] # <<>>,
           NEW o \in Objects, NEW n \in Nat, o \in Held(t, n), o \notin hps[t]
    PROVE  \A u \in Threads : o \notin Using[u]
<1>0. Structure /\ Hazards /\ Types /\ Control
  BY DEF RetireInv, Structure
<1>1. ASSUME NEW u \in Threads, o \in Using[u] PROVE FALSE
  <2>1. pc[u] = "cas" /\ (Relies(u, o) \/ own[u] = o)
    BY <1>0, <1>1, UsedObjects
  <2>2. own[u] # o
    BY <1>0, OwnApart
  <2>3. Guarded(u, o)
    BY <1>0, <2>1, <2>2, HazardParts
  <2>4. SavedBy(t, u)
    BY DEF SavedBy, ChangePC, StampPC
  <2>5. o \in Due(t)
    BY HeldInHand DEF Due
  <2> QED
    BY <2>3, <2>4, <2>5 DEF Guarded
<1> QED
  BY <1>1

\* At first all objects are free.
LEMMA InitFree ==
    ASSUME Init
    PROVE  FreeObjects = Objects /\ LiveObjects = {} /\ Using = [t \in Threads |-> {}]
<1>1. Types /\ Free = 1 .. Len(Stock) /\ Free \subseteq Stored
  BY InitTypes, InitStacks
<1>2. Len(Stock) \in Nat /\ DOMAIN Stock = 1 .. Len(Stock) /\ 1 .. Len(Stock) \subseteq Caches
  BY RetireAssumption DEF Caches
<1>3. \A c \in 1 .. Len(Stock) : ptrs[c] = Stock[c] /\ Range(Stock[c]) \subseteq Objects
  <2>1. \A c \in 1 .. Len(Stock) : ptrs[c] = Stock[c]
    BY <1>2 DEF Init, Caches
  <2>2. \A c \in 1 .. Len(Stock) : ptrs[c] \in Seq(Objects)
    BY <1>1, <1>2 DEF Types
  <2> QED
    BY <2>1, <2>2, ShortSequences
<1>4. FreeCaches = 1 .. Len(Stock)
  BY <1>1 DEF Init, FreeCaches
<1>5. \A u \in Threads, k \in Nat : KeptOf(u, k) = {}
  BY DEF Init, KeptOf
<1>6. \A o : o \in FreeObjects <=> o \in Objects
  <2>1. \A o \in Objects : \E c \in 1 .. Len(Stock) : o \in Range(Stock[c])
    BY <1>2, RetireAssumption
  <2> QED
    BY <1>1, <1>3, <1>4, <1>5, <2>1, FreeParts
<1>7. \A o : o \notin LiveObjects
  BY <1>1, FreeParts DEF Init, LiveOwn
<1>8. Using = [t \in Threads |-> {}]
  BY DEF Init, Using
<1> QED
  BY <1>6, <1>7, <1>8

\* The steps of Retirement that the step of a thread amounts to.
LEMMA PromisedSteps ==
    ASSUME NEW t \in Threads, RetireInv, Types', Step(t)
    PROVE  \/ FreeObjects' = FreeObjects /\ LiveObjects' = LiveObjects /\ Using' = Using
           \/ /\ Using' = Using
              /\ \E x \in FreeObjects : FreeObjects' = FreeObjects \ {x} /\ LiveObjects' = LiveObjects \cup {x}
           \/ /\ Using' = Using
              /\ \E o \in LiveObjects :
                    /\ LiveObjects' = LiveObjects \ {o} /\ \A u \in Threads : o \notin Using[u]
                    /\ FreeObjects' \in {FreeObjects, FreeObjects \cup {o}}
           \/ /\ FreeObjects' = FreeObjects /\ LiveObjects' = LiveObjects
              /\ \E S \in (SUBSET Objects) \ {{}} : Using' = [Using EXCEPT ![t] = S] /\ S \cap FreeObjects = {}
           \/ /\ Using[t] # {} /\ Using' = [Using EXCEPT ![t] = {}] /\ FreeObjects' = FreeObjects
              /\ \/ LiveObjects' = LiveObjects
                 \/ \E o \in Using[t] \cap LiveObjects : LiveObjects' = LiveObjects \ {o}
           \/ /\ Using' = Using /\ LiveObjects' = LiveObjects
              /\ \E o \in Objects \ (FreeObjects \cup LiveObjects) :
                    FreeObjects' = FreeObjects \cup {o} /\ \A u \in Threads : o \notin Using[u]
<1>0. Structure /\ Types /\ Control /\ Versions /\ CacheInv
  BY DEF RetireInv, Structure
<1>1. CASE Cas(t)
  <2>1. pc[t] = "cas" /\ Using[t] = HPs[t] /\ Using' = [Using EXCEPT ![t] = {}]
    BY <1>0, <1>1, UsingSteps DEF Fence, Cas
  <2>2. HPs[t] # {} /\ HPs[t] = {ref[t], own[t]} \ {NoObject}
    BY <1>0, <2>1, UsedObjects
  <2>3. FreeObjects' = FreeObjects
    BY <1>0, <1>1, CasObjects
  <2>4. CASE LiveObjects' = LiveObjects
    BY <2>1, <2>2, <2>3, <2>4
  <2>5. CASE ref[t] \in linked /\ ref[t] \in Objects /\ LiveObjects' = LiveObjects \ {ref[t]}
    <3>1. ref[t] \in LiveObjects
      BY <1>0, <2>5, FreeParts
    <3>2. ref[t] \in Using[t]
      BY <2>1, <2>2, <2>5, ConstantTypes
    <3> QED
      BY <2>1, <2>2, <2>3, <2>5, <3>1, <3>2
  <2> QED
    BY <1>0, <1>1, <2>4, <2>5, CasObjects
<1>2. CASE Fence(t)
  <2>1. pc[t] = "fence"
    BY <1>2 DEF Fence
  <2>2. FreeObjects' = FreeObjects /\ LiveObjects' = LiveObjects
    BY <1>0, <2>1, FreeSame, LiveSteps DEF UnlinkCache, WalkToInsert, Finish, Scan, Restart, Cas
  <2>3. CASE Using' = Using
    BY <2>2, <2>3
  <2>4. CASE ~ dirties[t].dirty /\ Using' = [Using EXCEPT ![t] = HPs[t]]
    <3>1. HPs[t] # {} /\ HPs[t] \subseteq Objects
      BY <1>0, <2>1, UsedObjects
    <3>2. HPs[t] \cap FreeObjects = {}
      BY <2>1, <2>4, FencedNotFree
    <3> QED
      BY <2>2, <2>4, <3>1, <3>2
  <2> QED
    BY <1>0, <2>1, <2>3, <2>4, UsingSteps DEF Cas
<1>3. CASE ~ (Cas(t) \/ Fence(t))
  <2>0. Using' = Using
    BY <1>0, <1>3, UsingSteps
  <2>1. CASE FreeObjects' = FreeObjects /\ LiveObjects' = LiveObjects
    BY <2>0, <2>1
  <2>2. CASE \E x \in FreeObjects : FreeObjects' = FreeObjects \ {x} /\ LiveObjects' = LiveObjects \cup {x}
    BY <2>0, <2>2
  <2>3. CASE /\ Finish(t) \/ Restart(t)
             /\ own[t] \in LiveObjects /\ own[t] \in Objects /\ LiveObjects' = LiveObjects \ {own[t]}
             /\ FreeObjects' \in {FreeObjects, FreeObjects \cup {own[t]}}
    <3>1. pc[t] # "cas"
      BY <2>3 DEF Finish, Restart
    <3>2. \A u \in Threads : own[t] \notin Using[u]
      BY <2>3, <3>1, OwnUnused
    <3> QED
      BY <2>0, <2>3, <3>2
  <2>4. CASE /\ LiveObjects' = LiveObjects
             /\ \E o \in Objects, n \in Nat :
                    /\ o \in Held(t, n) /\ o \notin hps[t] /\ calls[t] # <<>> /\ pc[t] = "scan"
                    /\ o \notin FreeObjects \cup LiveObjects /\ FreeObjects' = FreeObjects \cup {o}
    <3>1. PICK o \in Objects, n \in Nat :
                    /\ o \in Held(t, n) /\ o \notin hps[t] /\ calls[t] # <<>> /\ pc[t] = "scan"
                    /\ o \notin FreeObjects \cup LiveObjects /\ FreeObjects' = FreeObjects \cup {o}
      BY <2>4
    <3>2. \A u \in Threads : o \notin Using[u]
      BY <3>1, FreedUnused
    <3> QED
      BY <2>0, <2>4, <3>1, <3>2
  <2> QED
    BY <1>0, <1>3, <2>1, <2>2, <2>3, <2>4, ObjectSteps
<1> QED
  BY <1>1, <1>2, <1>3

\* Manual retirement keeps its promise: an object is freed only when no thread uses it.
THEOREM KeepsThePromise == Spec => RetirementSpec
<1>1. Init => Abstract!Init
  BY InitFree DEF Abstract!Init, Using
<1>2. RetireInv /\ RetireInv' /\ [Next]_vars
        => [Abstract!Next]_<<FreeObjects, LiveObjects, Using>>
  <2> SUFFICES ASSUME RetireInv, RetireInv', [Next]_vars
               PROVE  [Abstract!Next]_<<FreeObjects, LiveObjects, Using>>
    OBVIOUS
  <2>0. Types'
    BY DEF RetireInv, Structure
  <2>1. ASSUME NEW t \in Threads, Step(t) PROVE [Abstract!Next]_<<FreeObjects, LiveObjects, Using>>
    <3>1. CASE FreeObjects' = FreeObjects /\ LiveObjects' = LiveObjects /\ Using' = Using
      BY <3>1
    <3>2. CASE /\ Using' = Using
               /\ \E x \in FreeObjects : FreeObjects' = FreeObjects \ {x} /\ LiveObjects' = LiveObjects \cup {x}
      BY <3>2 DEF Abstract!Next, Abstract!Allocate, Using
    <3>3. CASE /\ Using' = Using
               /\ \E o \in LiveObjects :
                    /\ LiveObjects' = LiveObjects \ {o} /\ \A u \in Threads : o \notin Using[u]
                    /\ FreeObjects' \in {FreeObjects, FreeObjects \cup {o}}
      BY <3>3 DEF Abstract!Next, Abstract!GiveBack, Abstract!Unused, Using
    <3>4. CASE /\ FreeObjects' = FreeObjects /\ LiveObjects' = LiveObjects
               /\ \E S \in (SUBSET Objects) \ {{}} : Using' = [Using EXCEPT ![t] = S] /\ S \cap FreeObjects = {}
      BY <3>4 DEF Abstract!Next, Abstract!Use, Using
    <3>5. CASE /\ Using[t] # {} /\ Using' = [Using EXCEPT ![t] = {}] /\ FreeObjects' = FreeObjects
               /\ \/ LiveObjects' = LiveObjects
                  \/ \E o \in Using[t] \cap LiveObjects : LiveObjects' = LiveObjects \ {o}
      BY <3>5 DEF Abstract!Next, Abstract!Finish, Using
    <3>6. CASE /\ Using' = Using /\ LiveObjects' = LiveObjects
               /\ \E o \in Objects \ (FreeObjects \cup LiveObjects) :
                    FreeObjects' = FreeObjects \cup {o} /\ \A u \in Threads : o \notin Using[u]
      BY <3>6 DEF Abstract!Next, Abstract!Free, Abstract!Unused, Using
    <3> QED
      BY <2>0, <2>1, <3>1, <3>2, <3>3, <3>4, <3>5, <3>6, PromisedSteps
  <2>2. CASE UNCHANGED vars
    <3>1. UNCHANGED <<head, next, ptrs, allocCache, linked, op, own, calls, HPs, pc>>
      BY <2>2 DEF vars, shared, caches, records, operation, regs
    <3>2. FreeObjects' = FreeObjects
      BY <3>1 DEF FreeObjects, Chain
    <3>3. LiveObjects' = LiveObjects
      BY <3>1 DEF LiveObjects
    <3>4. Using' = Using
      BY <3>1 DEF Using
    <3> QED
      BY <3>2, <3>3, <3>4
  <2> QED
    BY <2>1, <2>2 DEF Next, AtBound
<1> QED
  BY <1>1, <1>2, HazardInvariant, PTL DEF Spec, RetirementSpec, Abstract!Spec, Using
=============================================================================
