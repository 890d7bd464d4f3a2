------------------------------- MODULE KeySet -------------------------------
(***************************************************************************)
(* What the lists promise whatever reclaims their memory: a set of keys on *)
(* which every operation of a thread acts at once, at some moment between  *)
(* its request and its return.  An insert adds the key it was called with  *)
(* and a delete takes it away, each once; an operation that changes        *)
(* nothing returns what was true at some moment since its request.         *)
(***************************************************************************)
CONSTANTS Keys, Threads

VARIABLES keys,
          doing, \* of every thread: what it has still to do, or the answer of its search
          saw    \* whether its key was in the set, since the request (history)

Operations == {"insert", "delete", "search"}
Nothing == <<"none", 0>>

Init ==
    /\ keys \subseteq Keys
    /\ doing = [t \in Threads |-> Nothing]
    /\ saw = [t \in Threads |-> {}]

Becomes(t, d) == doing' = [doing EXCEPT ![t] = d]

\* The answer of a search for k.
Answered(t, k) == \E found \in saw'[t] : Becomes(t, <<IF found THEN "found" ELSE "absent", k>>)

\* A search may have its answer at once.
Request(t) ==
    /\ doing[t] = Nothing
    /\ \E k \in Keys : Answered(t, k) \/ \E o \in Operations : Becomes(t, <<o, k>>)
    /\ UNCHANGED keys

Insert(t) == \E k \in Keys \ keys :
    doing[t] = <<"insert", k>> /\ keys' = keys \cup {k} /\ Becomes(t, Nothing)

Delete(t) == \E k \in keys :
    doing[t] = <<"delete", k>> /\ keys' = keys \ {k} /\ Becomes(t, Nothing)

Answer(t) == \E k \in Keys :
    doing[t] = <<"search", k>> /\ Answered(t, k) /\ UNCHANGED keys

\* The key was there already, or not there, or the search is over.
Return(t) ==
    /\ \E k \in Keys : \/ doing[t] = <<"insert", k>> /\ TRUE \in saw[t]
                       \/ doing[t] = <<"delete", k>> /\ FALSE \in saw[t]
                       \/ doing[t] \in {<<"found", k>>, <<"absent", k>>}
    /\ Becomes(t, Nothing)
    /\ UNCHANGED keys

See ==
    saw' = [t \in Threads |-> IF doing'[t] = Nothing THEN {} ELSE saw[t] \cup {doing'[t][2] \in keys'}]

Next ==
    /\ \E t \in Threads : Request(t) \/ Insert(t) \/ Delete(t) \/ Answer(t) \/ Return(t)
    /\ See
Spec == Init /\ [][Next]_<<keys, doing, saw>>
=============================================================================
