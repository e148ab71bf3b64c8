----------------------------- MODULE CashlessOps -----------------------------
(***************************************************************************)
(* The data of the cashless wallet: the requests a cash desk or a till     *)
(* sends, the key that makes a request idempotent, and what one request    *)
(* does to a balance and to the ledger (wallet.service.ts,                 *)
(* merchant.service.ts, ledger.service.ts).  One event; each stall sells   *)
(* one product.                                                            *)
(***************************************************************************)
EXTENDS Integers, FiniteSets

CONSTANTS Wallets,     \* the wallets of the event
          Merchants,   \* its stalls
          Ids,         \* the clientTxnIds the devices make up
          Requests,    \* the requests the devices may send
          Pct          \* commissionPercent of every stall

Ops == {"topup", "withdraw", "charge"}

\* amt is in cents; qty > 0 makes a charge an itemised one.  A desk request
\* names a stall too, which it never touches.
RequestSpace == [op : Ops, w : Wallets, m : Merchants, id : Ids,
                 amt : Nat \ {0}, qty : Nat]

ASSUME RequestsAssumption ==
    /\ Requests \subseteq RequestSpace
    /\ \A r \in Requests : r.op # "charge" => r.qty = 0
ASSUME PctAssumption == Pct \in 0..100
ASSUME WalletsAssumption == IsFiniteSet(Wallets)

\* What the unique indexes {walletId, clientTxnId} and {merchantId, clientTxnId}
\* of the three collections compare.
Key(r) == <<r.op, IF r.op = "charge" THEN r.m ELSE r.w, r.id>>

\* The committed rows a repeat of r would find.
RowsOf(rows, r) == {x \in rows : Key(x) = Key(r)}

\* A repeat must ask for the same amount, or for the same basket.
Matches(row, r) ==
    IF r.qty > 0 THEN row.qty = r.qty
                 ELSE row.qty = 0 /\ row.amt = r.amt

\* The answer to a repeat of a committed request.
ReplayAnswer(rows, r) ==
    IF \E x \in RowsOf(rows, r) : Matches(x, r) THEN "ok" ELSE "mismatch"

\* The filters of the compare-and-set updates: the guard of the decrement.
Funded(balance, r) == r.op = "topup" \/ balance[r.w] >= r.amt
InStock(stock, r)  == stock[r.m] >= r.qty

Credit(r) == IF r.op = "topup" THEN r.amt ELSE -r.amt

\* Cash is drawn down first and floored at zero.
CashAfter(c, r) ==
    IF r.op = "topup" THEN c + r.amt
    ELSE IF c > r.amt THEN c - r.amt ELSE 0

Fee(r) == (r.amt * Pct) \div 100

-----------------------------------------------------------------------------
(* The ledger: the sum of the posted legs of every account of the event.   *)

FLOAT       == <<"FLOAT", "">>
FEES        == <<"FEES", "">>
WALLET(w)   == <<"WALLET", w>>
MERCHANT(m) == <<"MERCHANT", m>>

Accounts == {FLOAT, FEES} \cup {WALLET(w) : w \in Wallets}
                          \cup {MERCHANT(m) : m \in Merchants}

\* Mutant: the stall is credited the whole amount.
LegGross(r, a) ==
    CASE a = WALLET(r.w)                        -> -Credit(r)
      [] a = FLOAT /\ r.op # "charge"           -> Credit(r)
      [] a = MERCHANT(r.m) /\ r.op = "charge"   -> -r.amt
      [] a = FEES /\ r.op = "charge"            -> -Fee(r)
      [] OTHER                                  -> 0

\* Mutant: a withdrawal is posted to the float alone.
LegFloatOnly(r, a) ==
    CASE a = WALLET(r.w) /\ r.op # "withdraw"   -> -Credit(r)
      [] a = FLOAT /\ r.op # "charge"           -> Credit(r)
      [] a = MERCHANT(r.m) /\ r.op = "charge"   -> Fee(r) - r.amt
      [] a = FEES /\ r.op = "charge"            -> -Fee(r)
      [] OTHER                                  -> 0

\* The leg of request r on account a; a zero fee has no leg.
Leg(r, a) ==
    CASE a = WALLET(r.w)                        -> -Credit(r)
      [] a = FLOAT /\ r.op # "charge"           -> Credit(r)
      [] a = MERCHANT(r.m) /\ r.op = "charge"   -> Fee(r) - r.amt
      [] a = FEES /\ r.op = "charge"            -> -Fee(r)
      [] OTHER                                  -> 0

Posted(ledger, r) == [a \in Accounts |-> ledger[a] + Leg(r, a)]
=============================================================================
