----------------------------- MODULE MCTableTabs ------------------------------
(***************************************************************************)
(* Instances of TableTabs for TLC.                                         *)
(***************************************************************************)
EXTENDS TableTabs, TLC

CONSTANTS x1, x2, s1, s2, l1, l2, l3, w1, w2, u1, u2, i1, i2, h1, h2

\* A tab settled by two guests under one id and by one guest under two, and a
\* second tab with an id that was used before.
Floor == {[x |-> x1, u |-> u1, id |-> i1], [x |-> x1, u |-> u2, id |-> i1],
          [x |-> x1, u |-> u1, id |-> i2], [x |-> x2, u |-> u1, id |-> i1]}

HalfAndNothing == [s \in Stalls |-> IF s = s1 THEN 50 ELSE 0]

HandlerSymmetry == Permutations(Handlers) \cup Permutations(Lines)
=============================================================================
