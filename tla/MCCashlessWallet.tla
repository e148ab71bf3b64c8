--------------------------- MODULE MCCashlessWallet ---------------------------
(***************************************************************************)
(* Instances of CashlessWallet for TLC.                                    *)
(***************************************************************************)
EXTENDS CashlessWallet, TLC

CONSTANTS w1, w2, m1, m2, i1, i2, h1, h2

Topup(w, i, n)     == [op |-> "topup", w |-> w, m |-> m1, id |-> i, amt |-> n, qty |-> 0]
Withdraw(w, i, n)  == [op |-> "withdraw", w |-> w, m |-> m1, id |-> i, amt |-> n, qty |-> 0]
Charge(w, m, i, n) == [op |-> "charge", w |-> w, m |-> m, id |-> i, amt |-> n, qty |-> 0]
Basket(w, m, i, n, q) == [Charge(w, m, i, n) EXCEPT !.qty = q]

\* Two tags topped up once, a desk that may pay one of them out, and a till that
\* sends a plain charge of one and a basket of the other under one id.
TillRequests ==
    { Topup(w1, i1, 2), Topup(w2, i1, 2), Withdraw(w1, i1, 2),
      Charge(w1, m1, i2, 2), Basket(w2, m1, i2, 2, 1) }

\* A desk that tops a tag up and pays it out in full.
DeskRequests == { Topup(w1, i1, 2), Topup(w1, i2, 1),
                  Withdraw(w1, i1, 2), Withdraw(w1, i2, 1) }

HandlerSymmetry == Permutations(Handlers)
=============================================================================
