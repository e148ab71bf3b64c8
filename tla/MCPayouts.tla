------------------------------ MODULE MCPayouts -------------------------------
(***************************************************************************)
(* Instances of Payouts for TLC.                                           *)
(***************************************************************************)
EXTENDS Payouts, TLC

CONSTANTS s1, s2, r1, r2, none, h1, h2

\* Two periods, one in the other.
TwoPeriods == {[from |-> 0, to |-> 1], [from |-> 0, to |-> 0]}

Anyone == Permutations(Sales) \cup Permutations(Requests) \cup Permutations(Handlers)
=============================================================================
