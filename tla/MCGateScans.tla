----------------------------- MODULE MCGateScans -----------------------------
(***************************************************************************)
(* Instances of GateScans for TLC.                                         *)
(***************************************************************************)
EXTENDS GateScans, TLC

CONSTANTS t1, t2, t3, s1, s2, h1, h2

\* Two tickets of one sale and one of another.
SharedSale == [t \in Tickets |-> IF t = t3 THEN s2 ELSE s1]

HandlerSymmetry == Permutations(Handlers)
=============================================================================
