----------------------------- MODULE MCEventTiers -----------------------------
(***************************************************************************)
(* Instances of EventTiers for TLC.                                        *)
(***************************************************************************)
EXTENDS EventTiers, TLC

CONSTANTS t1, t2, t3, h1, h2

HandlerSymmetry == Permutations(Handlers)
=============================================================================
