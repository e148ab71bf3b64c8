----------------------------- MODULE SalePromise -----------------------------
(***************************************************************************)
(* What the sale of tickets promises over every payment rail, without      *)
(* handlers, jobs, holds or webhooks: a sale is decided in one instant, a  *)
(* ticket exists only for a payment that was made and for a sale that was  *)
(* completed, and there are never more of them than were asked for.        *)
(***************************************************************************)
EXTENDS Integers

CONSTANTS
    Sales,      \* the purchases
    Qty,        \* tickets asked for by each
    Rails,      \* the payment methods offered
    NoAutoFail  \* the rails whose events are taken at their word

VARIABLES
    rail,      \* how each sale is paid
    status,    \* what has been decided about it
    sent,      \* the sales whose buyer was shown the way to pay
    checkout,  \* what has become of its payment
    minted,    \* its tickets
    refunded   \* those paid back

pvars == <<rail, status, sent, checkout, minted, refunded>>

Init ==
    /\ rail \in [Sales -> Rails]
    /\ status = [s \in Sales |-> "none"]
    /\ sent = {}
    /\ checkout = [s \in Sales |-> "none"]
    /\ minted = [s \in Sales |-> 0]
    /\ refunded = [s \in Sales |-> 0]

Decide(s, from, to) ==
    /\ status[s] = from
    /\ status' = [status EXCEPT ![s] = to]

Turn(s, from, to) ==
    /\ checkout[s] = from
    /\ checkout' = [checkout EXCEPT ![s] = to]
    /\ UNCHANGED <<rail, status, sent, minted, refunded>>

-----------------------------------------------------------------------------
\* Cash over the counter: the sale and all its tickets at once.
Sell(s) ==
    /\ rail[s] = "CASH" /\ Decide(s, "none", "COMPLETED")
    /\ minted' = [minted EXCEPT ![s] = Qty[s]]
    /\ UNCHANGED <<rail, sent, checkout, refunded>>

Open(s) ==
    /\ rail[s] # "CASH" /\ Decide(s, "none", "PENDING")
    /\ UNCHANGED <<rail, sent, checkout, minted, refunded>>

\* The payment page may open after the sale was given up, never after it was
\* completed; the buyer pays there or does not.
Present(s) == status[s] \in {"PENDING", "FAILED"} /\ Turn(s, "none", "open")

\* The way to pay is shown while the sale is not yet completed, or never.
Send(s) ==
    /\ checkout[s] # "none" /\ status[s] \in {"PENDING", "FAILED"}
    /\ sent' = sent \cup {s}
    /\ UNCHANGED <<rail, status, checkout, minted, refunded>>

Settle(s) == \E outcome \in {"paid", "mismatch", "rejected"} : Turn(s, "open", outcome)

Complete(s) ==
    /\ checkout[s] = "paid" /\ Decide(s, "PENDING", "COMPLETED")
    /\ UNCHANGED <<rail, sent, checkout, minted, refunded>>

\* A completed sale is taken back where a later event of its rail says so, or
\* where its buyer was told that it could not be opened.
Retracts(s) == rail[s] \in NoAutoFail \/ (rail[s] # "CASH" /\ s \notin sent)

\* No payment is needed to give a sale up.
Fail(s) ==
    /\ \/ Decide(s, "PENDING", "FAILED")
       \/ Retracts(s) /\ Decide(s, "COMPLETED", "FAILED")
    /\ UNCHANGED <<rail, sent, checkout, minted, refunded>>

\* One ticket more.  The sale is completed, or was when its tickets were begun.
Mint(s) ==
    /\ rail[s] # "CASH" /\ checkout[s] = "paid" /\ minted[s] < Qty[s]
    /\ status[s] = "COMPLETED" \/ (status[s] = "FAILED" /\ Retracts(s))
    /\ minted' = [minted EXCEPT ![s] = @ + 1]
    /\ UNCHANGED <<rail, status, sent, checkout, refunded>>

Refund(s) ==
    /\ refunded[s] < minted[s]
    /\ refunded' = [refunded EXCEPT ![s] = @ + 1]
    /\ UNCHANGED <<rail, status, sent, checkout, minted>>

Next == \E s \in Sales :
    \/ Sell(s) \/ Open(s) \/ Present(s) \/ Send(s) \/ Settle(s)
    \/ Complete(s) \/ Fail(s) \/ Mint(s) \/ Refund(s)

Spec == Init /\ [][Next]_pvars
=============================================================================
