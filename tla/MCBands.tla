------------------------------- MODULE MCBands -------------------------------
(***************************************************************************)
(* Instances of Bands for TLC.                                             *)
(***************************************************************************)
EXTENDS Bands, TLC

CONSTANTS u1, u2, w1, w2, w3, t1, t2, h1, h2, none

Anyone == Permutations(Tags) \cup Permutations(Wallets) \cup Permutations(Tickets)
            \cup Permutations(Handlers)
=============================================================================
