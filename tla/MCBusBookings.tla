---------------------------- MODULE MCBusBookings ----------------------------
(***************************************************************************)
(* Instances of BusBookings for TLC.                                       *)
(***************************************************************************)
EXTENDS BusBookings, TLC

CONSTANTS b1, b2, n1, h1

\* One booking is paid by card, the other in another way.
TripInit == Init /\ rail[b1] = "PEACH_CARD" /\ rail[b2] # "PEACH_CARD"

TripSpec == TripInit /\ [][Next]_vars /\ Fairness
=============================================================================
