------------------------------ MODULE RootArray ------------------------------
(***************************************************************************)
(* Tracing the bucket array of the hash table (trace.c: clearArrMarks,     *)
(* get_arr_chunk, sign_bit, traceArr, finishTraceArr).  The array is cut   *)
(* into chunks.  Tracers claim chunks from a shared counter, copy a chunk  *)
(* to their mark stack and sign it in a bit table; whoever finds the       *)
(* counter used up goes over the bits and does what is not signed.  The    *)
(* counter and every word of bits carry the phase they belong to.          *)
(*                                                                         *)
(* What happens to a copied chunk afterwards is module Mark.               *)
(***************************************************************************)
EXTENDS Integers, FiniteSets

CONSTANTS Threads,
          Chunks,   \* len / ARR_ENTRIES_PER_BIT
          PerWord,  \* sign bits in a word (32)
          MaxPhase, \* bound on the collections begun
          Steady    \* a thread that never stops (FairSpec)

ASSUME RootArrayAssumption ==
    /\ Chunks \in Nat \ {0} /\ PerWord \in Nat \ {0} /\ MaxPhase \in Nat
    /\ IsFiniteSet(Threads) /\ Steady \in Threads

Chunk == 0 .. Chunks - 1

\* Words of bits that are allocated and cleared (addGlobalRoot, clearRootsMark).
Words == 0 .. (Chunks + PerWord - 1) \div PerWord - 1

\* num_markwords of finishTraceArr.
HelpedWords == Chunks \div PerWord

VARIABLES
    phase,    \* global->phase.phase
    opened,   \* the phase of global->sweep_counter
    counter,  \* *syn_ctr: [ph, n]
    bits,     \* bits[w]: [ph, signed], the chunks signed in word w
    localVer, \* localVer of every thread
    at,       \* the word or chunk a thread is at
    val,      \* the word read by finishTraceArr
    copied,   \* the last phase of a thread that signed a chunk (history)
    pc

vars == <<phase, opened, counter, bits, localVer, at, val, copied, pc>>

Goto(t, l) == pc' = [pc EXCEPT ![t] = l]
InWord(c) == c \div PerWord
Members(w) == w * PerWord .. w * PerWord + PerWord - 1

Init ==
    /\ phase = 0 /\ opened = 0
    /\ counter = [ph |-> 0, n |-> 0]
    /\ bits = [w \in Words |-> [ph |-> 0, signed |-> {}]]
    /\ localVer = [t \in Threads |-> 0]
    /\ at = [t \in Threads |-> 0]
    /\ val = [t \in Threads |-> {}]
    /\ copied = [c \in Chunk |-> 0]
    /\ pc = [t \in Threads |-> "idle"]

\* Into the current collection or a new one, which waits for the sweep
\* counter of the one before (module Phase).
Enter(t) ==
    /\ pc[t] = "idle"
    /\ IF localVer[t] = phase
       THEN opened = phase /\ phase < MaxPhase /\ phase' = phase + 1
       ELSE UNCHANGED phase
    /\ localVer' = [localVer EXCEPT ![t] = @ + 1]
    /\ Goto(t, IF phase' = localVer'[t] THEN "clearCounter" ELSE "idle")
    /\ UNCHANGED <<opened, counter, bits, at, val, copied>>

\* clearArrMarks on the first word, the counter.
ClearCounter(t) ==
    /\ pc[t] = "clearCounter"
    /\ counter' = IF counter.ph < localVer[t] THEN [ph |-> localVer[t], n |-> 0] ELSE counter
    /\ at' = [at EXCEPT ![t] = 0]
    /\ Goto(t, "clearBits")
    /\ UNCHANGED <<phase, opened, bits, localVer, val, copied>>

\* clearArrMarks on the words of bits, one by one.
ClearBits(t) ==
    /\ pc[t] = "clearBits"
    /\ LET w == at[t] IN
        /\ bits' = IF bits[w].ph < localVer[t]
                   THEN [bits EXCEPT ![w] = [ph |-> localVer[t], signed |-> {}]] ELSE bits
        /\ IF w + 1 \in Words
           THEN at' = [at EXCEPT ![t] = w + 1] /\ UNCHANGED pc
           ELSE UNCHANGED at /\ Goto(t, "look")
    /\ UNCHANGED <<phase, opened, counter, localVer, val, copied>>

\* get_arr_chunk gives the chunk, or -1: on to finishTraceArr.
Given(t, ctr) ==
    IF ctr.n < Chunks /\ ctr.ph = localVer[t] THEN at' = [at EXCEPT ![t] = ctr.n]
                                              ELSE at' = [at EXCEPT ![t] = 0]

\* The first look at the counter.
LookAtCounter(t) ==
    /\ pc[t] = "look"
    /\ Given(t, counter)
    /\ Goto(t, IF counter.n < Chunks /\ counter.ph = localVer[t] THEN "claim" ELSE "word")
    /\ UNCHANGED <<phase, opened, counter, bits, localVer, val, copied>>

\* __sync_fetch_and_add, whatever phase the counter has come to belong to.
ClaimChunk(t) ==
    /\ pc[t] = "claim"
    /\ counter' = [counter EXCEPT !.n = @ + 1]
    /\ Given(t, counter)
    /\ Goto(t, IF counter.n < Chunks /\ counter.ph = localVer[t] THEN "sign" ELSE "word")
    /\ UNCHANGED <<phase, opened, bits, localVer, val, copied>>

\* Mutant of Sign: a word of another phase is signed too.
SignAnyPhase(t, c) ==
    LET w == InWord(c) IN
    IF c \notin bits[w].signed
    THEN /\ bits' = [bits EXCEPT ![w].signed = @ \cup {c}]
         /\ copied' = [copied EXCEPT ![c] = localVer[t]]
    ELSE UNCHANGED <<bits, copied>>

\* copyPartOfArr, then sign_bit: the copy counts if this thread signs.  Until
\* the copy is made nothing of the claim can be seen on the thread's stack.
Sign(t, c) ==
    LET w == InWord(c) IN
    IF bits[w].ph = localVer[t] /\ c \notin bits[w].signed
    THEN /\ bits' = [bits EXCEPT ![w].signed = @ \cup {c}]
         /\ copied' = [copied EXCEPT ![c] = localVer[t]]
    ELSE UNCHANGED <<bits, copied>>

\* The body of traceArr's loop.
SignClaimed(t) ==
    /\ pc[t] = "sign"
    /\ Sign(t, at[t])
    /\ Goto(t, "look")
    /\ UNCHANGED <<phase, opened, counter, localVer, at, val>>

\* Mutant of ReadWord: the helper believes a claim.
ReadWordClaimed(t) ==
    /\ pc[t] = "word"
    /\ IF at[t] < HelpedWords /\ bits[at[t]].ph = localVer[t]
       THEN /\ val' = [val EXCEPT ![t] = Members(at[t]) \cap counter.n .. Chunks - 1]
            /\ Goto(t, "help")
       ELSE Goto(t, "done") /\ UNCHANGED val
    /\ UNCHANGED <<phase, opened, counter, bits, localVer, at, copied>>

\* val = bits[i], for the words finishTraceArr goes over.
ReadWord(t) ==
    /\ pc[t] = "word"
    /\ IF at[t] < HelpedWords /\ bits[at[t]].ph = localVer[t]
       THEN /\ val' = [val EXCEPT ![t] = Members(at[t]) \ bits[at[t]].signed]
            /\ Goto(t, "help")
       ELSE Goto(t, "done") /\ UNCHANGED val
    /\ UNCHANGED <<phase, opened, counter, bits, localVer, at, copied>>

\* Mutant of HelpChunk: wait for the claimant of an unsigned chunk.
HelpWaits(t) ==
    /\ pc[t] = "help"
    /\ at' = [at EXCEPT ![t] = IF val[t] = {} THEN @ + 1 ELSE @]
    /\ Goto(t, "word")
    /\ UNCHANGED <<phase, opened, counter, bits, localVer, val, copied>>

\* The chunks that were not signed in val, in order.
HelpChunk(t) ==
    /\ pc[t] = "help"
    /\ IF val[t] = {}
       THEN /\ at' = [at EXCEPT ![t] = @ + 1]
            /\ Goto(t, "word")
            /\ UNCHANGED <<bits, val, copied>>
       ELSE LET c == CHOOSE x \in val[t] : \A y \in val[t] : x <= y IN
            /\ Sign(t, c)
            /\ val' = [val EXCEPT ![t] = @ \ {c}]
            /\ UNCHANGED <<at, pc>>
    /\ UNCHANGED <<phase, opened, counter, localVer>>

\* Mutant of Open: the sweep counter is set without a look at its phase.
OpenBlind(t) ==
    /\ pc[t] = "done"
    /\ opened' = localVer[t]
    /\ Goto(t, "idle")
    /\ UNCHANGED <<phase, counter, bits, localVer, at, val, copied>>

\* The rest of trace: the thread helps the others with what they copied
\* (module Mark), and resetSweepCounter.
Open(t) ==
    /\ pc[t] = "done"
    /\ opened' = IF opened < localVer[t] THEN localVer[t] ELSE opened
    /\ Goto(t, "idle")
    /\ UNCHANGED <<phase, counter, bits, localVer, at, val, copied>>

Tracer(t) ==
    \/ ClearCounter(t) \/ ClearBits(t) \/ LookAtCounter(t) \/ ClaimChunk(t)
    \/ SignClaimed(t) \/ ReadWord(t) \/ HelpChunk(t) \/ Open(t)

AtBound ==
    /\ phase = MaxPhase
    /\ \A t \in Threads : pc[t] = "idle" /\ localVer[t] = MaxPhase
    /\ UNCHANGED vars

Next == AtBound \/ \E t \in Threads : Enter(t) \/ Tracer(t)

Spec == Init /\ [][Next]_vars
FairSpec == Spec /\ WF_vars(Tracer(Steady))

-----------------------------------------------------------------------------
\* The types; the sweep counter is at most one phase behind, the chunk counter
\* is run past the end at most once by every thread, and a chunk is signed in
\* its own word.
TypeOK ==
    /\ phase \in 0 .. MaxPhase /\ opened \in {phase, phase - 1}
    /\ counter.ph \in 0 .. phase
    /\ counter.n \in 0 .. Chunks - 1 + Cardinality(Threads)
    /\ \A w \in Words : bits[w].ph \in 0 .. phase /\ bits[w].signed \subseteq Members(w) \cap Chunk
    /\ localVer \in [Threads -> 0 .. phase]
    /\ at \in [Threads -> Nat] /\ copied \in [Chunk -> 0 .. phase]

\* A chunk that is signed for a phase was copied by a thread of that phase, so
\* nobody need look at it again: a thread that was overtaken between claiming
\* a chunk and signing it does not sign for the new phase.
SignedIsCopied ==
    \A w \in Words : \A c \in bits[w].signed : copied[c] = bits[w].ph

\* When a phase is opened for sweeping, every bucket of the table has been
\* copied to a mark stack in that phase, also the chunks whose claimant has
\* stopped and those that a thread of an older phase took from the counter.
WholeArrayCopied ==
    [][opened' # opened => \A c \in Chunk : copied[c] = opened']_vars

\* The thread that keeps running gets through the array, whatever the others
\* have claimed.
FinishesArray == pc[Steady] = "clearCounter" ~> pc[Steady] = "idle"
=============================================================================
