---------------------------- MODULE MCMenuOrders ----------------------------
(***************************************************************************)
(* An instance of MenuOrders for TLC.                                      *)
(***************************************************************************)
EXTENDS MenuOrders

CONSTANTS o1, o2, h1, h2

\* Two handlers and the kitchen meet on the first order; one of them serves the
\* checkout of the second too.
Servers(o) == IF o = o2 THEN {h1} ELSE Handlers

CounterNext ==
    \/ \E o \in Orders : \E p \in Servers(o) :
         PlaceOrder(p, o) \/ Poll(p, o) \/ Callback(p, o)
    \/ \E p \in Handlers, n \in Stages : ReadOrder(p, o1, n)
    \/ \E p \in Procs : Step(p) \/ Abort(p)
    \/ StartReconcile \/ NextOrder
    \/ \E o \in Orders : Resolve(o)

CounterSpec == Init /\ [][CounterNext]_vars /\ Fairness
=============================================================================
