---------------------------- MODULE Reachability ----------------------------
(***************************************************************************)
(* What a linked structure leads to: f[x] is what x points to, and what is *)
(* not in the domain of f is the end.  The loops of the code that follow a *)
(* list stop because the list is finite; here their result is what is left *)
(* without the sets that nothing leads into, so that facts about it need   *)
(* no induction.                                                           *)
(***************************************************************************)

\* The elements of S and what can be reached from them.
Reach(f, S) ==
    DOMAIN f \ UNION {U \in SUBSET (DOMAIN f \ S) : \A x \in DOMAIN f \ U : f[x] \notin U}
=============================================================================
