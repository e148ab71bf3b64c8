----------------------------- MODULE EventDesks -----------------------------
(***************************************************************************)
(* What Bands and GateScans have in common: the tickets of one event, the  *)
(* requests that its desks and gates make at the same time, and the bounds *)
(* on a behaviour.                                                         *)
(***************************************************************************)
EXTENDS Integers

CONSTANTS Tickets,    \* the tickets of the event, all of them minted
          Handlers,   \* requests in progress at the same time
          None,       \* no ticket, no tag, no wallet
          MaxOps,     \* bound: requests begun in a behaviour
          MaxFaults   \* bound: writes and answers lost, processes that die

ASSUME BoundsAssumption == MaxOps \in Nat /\ MaxFaults \in Nat
=============================================================================
