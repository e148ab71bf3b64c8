------------------------------ MODULE TicketFate ------------------------------
(***************************************************************************)
(* What the gate and the refund desk of an event promise of its tickets:   *)
(* a ticket is let in or paid back in one instant, never both and never    *)
(* twice, and the figure on its sale moves in that same instant.  There    *)
(* are no transactions, snapshots or conflicts here.                       *)
(***************************************************************************)
EXTENDS Integers

CONSTANTS Tickets,  \* the tickets of the event
          Sales,    \* the sales they were bought in
          SaleOf    \* the sale of each ticket

VARIABLES
    status,    \* what has become of each ticket
    refunded,  \* tickets of a sale paid back
    admitted   \* times a gate was told to let the holder in

Init ==
    /\ status = [t \in Tickets |-> "sold"]
    /\ refunded = [s \in Sales |-> 0]
    /\ admitted = [t \in Tickets |-> 0]

\* The gate may not hear that the ticket was checked in; then it lets nobody in.
CheckIn(t, heard) ==
    /\ status[t] = "sold"
    /\ status' = [status EXCEPT ![t] = "checked_in"]
    /\ admitted' = IF heard THEN [admitted EXCEPT ![t] = @ + 1] ELSE admitted
    /\ UNCHANGED refunded

Refund(t) ==
    /\ status[t] = "sold"
    /\ status' = [status EXCEPT ![t] = "refunded"]
    /\ refunded' = [refunded EXCEPT ![SaleOf[t]] = @ + 1]
    /\ UNCHANGED admitted

Next == \E t \in Tickets : Refund(t) \/ \E heard \in BOOLEAN : CheckIn(t, heard)

Spec == Init /\ [][Next]_<<status, refunded, admitted>>
=============================================================================
