----------------------------- MODULE MCRootArray -----------------------------
(* Threads of RootArray as model values.                                    *)
EXTENDS RootArray

CONSTANTS t1, t2, t3
=============================================================================
