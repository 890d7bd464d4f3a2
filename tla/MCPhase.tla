------------------------------ MODULE MCPhase ------------------------------
(* Instances of Phase for TLC; the bounds are in the configurations.        *)
EXTENDS Phase

=============================================================================
