---------------------------- MODULE CashlessWallet ----------------------------
(***************************************************************************)
(* WalletService.topUpCash and withdrawCash, MerchantService.charge and    *)
(* the stock movements of StockService, as the requests of desks and tills *)
(* interleave.  Each runs in a MongoDB transaction: it reads the snapshot  *)
(* taken by its first read, and a write to a document that another         *)
(* transaction has committed since is a write conflict, which              *)
(* withTransaction answers by running the callback again.                  *)
(***************************************************************************)
EXTENDS CashlessOps, FiniteSetsExt

CONSTANTS Handlers,    \* requests in service at the same time
          NoReq,       \* "no request"
          MaxStock     \* bound: the most a stall holds

ASSUME MaxStockAssumption == MaxStock \in Nat

VARIABLES
    balance,   \* Wallet.balance
    cash,      \* Wallet.cashFundedBalance
    stock,     \* ProductStock.onHand of each stall
    supplied,  \* sum of the StockMovement rows that are not sales
    open,      \* the stall is active and so is the operator of its till
    rows,      \* the committed WalletTopup, WalletWithdrawal, MerchantCharge rows
    ledger,    \* sum of the LedgerEntry rows of each account
    pc,        \* per handler: idle, asked, fresh, txn or done
    req,       \* the request it serves
    ans,       \* in txn: what the snapshot leads to; done: the answer
    stale      \* in txn: documents others have committed since the snapshot

moneyVars == <<balance, cash, rows, ledger>>
stockVars == <<stock, supplied>>
jobVars   == <<pc, req, ans, stale>>
vars      == <<moneyVars, stockVars, open, jobVars>>

Init ==
    /\ balance = [w \in Wallets |-> 0]
    /\ cash = [w \in Wallets |-> 0]
    /\ stock = [m \in Merchants |-> 0]
    /\ supplied = [m \in Merchants |-> 0]
    /\ open = [m \in Merchants |-> TRUE]
    /\ rows = {}
    /\ ledger = [a \in Accounts |-> 0]
    /\ pc = [h \in Handlers |-> "idle"]
    /\ req = [h \in Handlers |-> NoReq]
    /\ ans = [h \in Handlers |-> "none"]
    /\ stale = [h \in Handlers |-> {}]

-----------------------------------------------------------------------------
(* Documents and conflicts.                                                *)

WalletDoc(w) == <<"wallet", w>>
StockDoc(m)  == <<"stock", m>>
Docs == {WalletDoc(w) : w \in Wallets} \cup {StockDoc(m) : m \in Merchants}

\* The documents the transaction of r updates; inserts conflict by key only.
Writes(r) ==
    {WalletDoc(r.w)} \cup (IF r.qty > 0 THEN {StockDoc(r.m)} ELSE {})

\* A commit makes the snapshots of the running transactions out of date.
Dirty(docs) == [g \in Handlers |-> IF pc[g] = "txn" THEN stale[g] \cup docs
                                                    ELSE stale[g]]

Go(h, to, a) ==
    /\ pc' = [pc EXCEPT ![h] = to]
    /\ ans' = [ans EXCEPT ![h] = a]

-----------------------------------------------------------------------------
(* A request.                                                              *)

Ask(h, r) ==
    /\ pc[h] = "idle"
    /\ Go(h, "asked", "none")
    /\ req' = [req EXCEPT ![h] = r]
    /\ UNCHANGED <<moneyVars, stockVars, open, stale>>

Known(r) == RowsOf(rows, r) # {}

\* The read before the transaction.
PreCheck(h) ==
    /\ pc[h] = "asked"
    /\ IF Known(req[h]) THEN Go(h, "done", ReplayAnswer(rows, req[h]))
                        ELSE Go(h, "fresh", "none")
    /\ UNCHANGED <<moneyVars, stockVars, open, req, stale>>

\* Mutant: a charge looks for its row before the transaction only.
VerdictWithoutRecheck(r) ==
    IF r.op = "charge" /\ ~open[r.m] THEN "refused"
    ELSE IF ~Funded(balance, r) THEN "declined"
    ELSE IF ~InStock(stock, r) THEN "stockout"
    ELSE "go"

\* What the callback comes to on the snapshot it reads.  A charge looks for its
\* own row first, and then at the stall and the operator; a desk does neither.
Verdict(r) ==
    IF r.op = "charge" /\ Known(r) THEN "replay"
    ELSE IF r.op = "charge" /\ ~open[r.m] THEN "refused"
    ELSE IF ~Funded(balance, r) THEN "declined"
    ELSE IF ~InStock(stock, r) THEN "stockout"
    ELSE "go"

Snapshot(h) ==
    /\ pc[h] = "fresh"
    /\ Go(h, "txn", Verdict(req[h]))
    /\ stale' = [stale EXCEPT ![h] = {}]
    /\ UNCHANGED <<moneyVars, stockVars, open, req>>

\* The updates made before the end: a charge out of stock has debited the wallet.
Attempted(h) ==
    CASE ans[h] = "go"       -> Writes(req[h])
      [] ans[h] = "stockout" -> {WalletDoc(req[h].w)}
      [] OTHER               -> {}

Conflict(h) == Attempted(h) \cap stale[h] # {}

\* A write conflict: the driver runs the callback again, on a new snapshot.
Retry(h) ==
    /\ pc[h] = "txn" /\ Conflict(h)
    /\ Go(h, "fresh", "none")
    /\ stale' = [stale EXCEPT ![h] = {}]
    /\ UNCHANGED <<moneyVars, stockVars, open, req>>

\* Mutant: the balance is checked first and decremented later, without the
\* compare-and-set that makes two decrements conflict.
CommitBlindly(h) ==
    LET r == req[h] IN
    /\ pc[h] = "txn" /\ ans[h] = "go" /\ ~Known(r)
    /\ balance' = [balance EXCEPT ![r.w] = @ + Credit(r)]
    /\ cash' = [cash EXCEPT ![r.w] = CashAfter(@, r)]
    /\ stock' = [stock EXCEPT ![r.m] = @ - r.qty]
    /\ ledger' = Posted(ledger, r)
    /\ rows' = rows \cup {r}
    /\ Go(h, "done", "ok")
    /\ stale' = [Dirty(Writes(r)) EXCEPT ![h] = {}]
    /\ UNCHANGED <<supplied, open, req>>

\* Wallet, stock, ledger legs and the row, in one commit.
Commit(h) ==
    LET r == req[h] IN
    /\ pc[h] = "txn" /\ ans[h] = "go" /\ ~Conflict(h) /\ ~Known(r)
    /\ balance' = [balance EXCEPT ![r.w] = @ + Credit(r)]
    /\ cash' = [cash EXCEPT ![r.w] = CashAfter(@, r)]
    /\ stock' = [stock EXCEPT ![r.m] = @ - r.qty]
    /\ ledger' = Posted(ledger, r)
    /\ rows' = rows \cup {r}
    /\ Go(h, "done", "ok")
    /\ stale' = [Dirty(Writes(r)) EXCEPT ![h] = {}]
    /\ UNCHANGED <<supplied, open, req>>

\* Mutant: the credit is made outside the transaction and stays when the
\* index refuses the row.
DuplicateKeepsCredit(h) ==
    LET r == req[h] IN
    /\ pc[h] = "txn" /\ ans[h] = "go" /\ ~Conflict(h) /\ Known(r)
    /\ balance' = [balance EXCEPT ![r.w] = @ + Credit(r)]
    /\ ledger' = Posted(ledger, r)
    /\ Go(h, "done", ReplayAnswer(rows, r))
    /\ stale' = [Dirty(Writes(r)) EXCEPT ![h] = {}]
    /\ UNCHANGED <<cash, rows, stockVars, open, req>>

\* The unique index refuses the row: the transaction is undone and the request
\* is answered with the committed outcome.
Duplicate(h) ==
    /\ pc[h] = "txn" /\ ans[h] = "go" /\ ~Conflict(h) /\ Known(req[h])
    /\ Go(h, "done", ReplayAnswer(rows, req[h]))
    /\ stale' = [stale EXCEPT ![h] = {}]
    /\ UNCHANGED <<moneyVars, stockVars, open, req>>

\* The callback throws: nothing is written.
Throw(h) ==
    /\ pc[h] = "txn" /\ ans[h] # "go" /\ ~Conflict(h)
    /\ Go(h, "done", IF ans[h] = "replay" THEN ReplayAnswer(rows, req[h]) ELSE ans[h])
    /\ stale' = [stale EXCEPT ![h] = {}]
    /\ UNCHANGED <<moneyVars, stockVars, open, req>>

Clear(h) ==
    /\ Go(h, "idle", "none")
    /\ req' = [req EXCEPT ![h] = NoReq]
    /\ stale' = [stale EXCEPT ![h] = {}]
    /\ UNCHANGED <<moneyVars, stockVars, open>>

\* The device reads its answer, or the answer is lost: it may ask again.
Collect(h) == pc[h] = "done" /\ Clear(h)

\* The process dies or the database is out of reach before the commit.
Crash(h) == pc[h] \in {"asked", "fresh", "txn"} /\ Clear(h)

-----------------------------------------------------------------------------
(* The stock room, and the organizer who opens and closes stalls.  A       *)
(* movement is one compare-and-set on the stock document, in a transaction *)
(* that is retried when it conflicts.                                      *)

Moved(delta) ==
    /\ stock' = [m \in Merchants |-> stock[m] + delta[m]]
    /\ supplied' = [m \in Merchants |-> supplied[m] + delta[m]]
    /\ stale' = Dirty({StockDoc(m) : m \in {n \in Merchants : delta[n] # 0}})
    /\ UNCHANGED <<moneyVars, open, pc, req, ans>>

Only(m, n) == [k \in Merchants |-> IF k = m THEN n ELSE 0]

Receive(m) == stock[m] < MaxStock /\ Moved(Only(m, 1))

WriteOff(m) == stock[m] >= 1 /\ Moved(Only(m, -1))

\* Whatever was counted becomes the stock on hand.
Count(m) == \E n \in 0..MaxStock : n # stock[m] /\ Moved(Only(m, n - stock[m]))

Transfer(m, to) ==
    /\ m # to /\ stock[m] >= 1 /\ stock[to] < MaxStock
    /\ Moved([k \in Merchants |-> IF k = m THEN -1 ELSE IF k = to THEN 1 ELSE 0])

SetOpen(m) ==
    /\ open' = [open EXCEPT ![m] = ~@]
    /\ UNCHANGED <<moneyVars, stockVars, jobVars>>

-----------------------------------------------------------------------------
Serve(h) ==
    PreCheck(h) \/ Snapshot(h) \/ Retry(h) \/ Commit(h) \/ Duplicate(h) \/ Throw(h)

Next ==
    \/ \E h \in Handlers :
         \/ \E r \in Requests : Ask(h, r)
         \/ Serve(h) \/ Collect(h) \/ Crash(h)
    \/ \E m \in Merchants :
         \/ Receive(m) \/ WriteOff(m) \/ Count(m) \/ SetOpen(m)
         \/ \E to \in Merchants : Transfer(m, to)

Spec == Init /\ [][Next]_vars
-----------------------------------------------------------------------------
(* Properties.                                                             *)

TypeOK ==
    /\ balance \in [Wallets -> Int]
    /\ cash \in [Wallets -> Nat]
    /\ stock \in [Merchants -> Nat]
    /\ supplied \in [Merchants -> Int]
    /\ open \in [Merchants -> BOOLEAN]
    /\ rows \subseteq Requests
    /\ ledger \in [Accounts -> Int]
    /\ pc \in [Handlers -> {"idle", "asked", "fresh", "txn", "done"}]
    /\ req \in [Handlers -> Requests \cup {NoReq}]
    /\ ans \in [Handlers -> {"none", "go", "replay", "ok", "mismatch",
                             "refused", "declined", "stockout"}]
    /\ stale \in [Handlers -> SUBSET Docs]
    /\ \A h \in Handlers : pc[h] # "idle" => req[h] \in Requests

\* Two charges or withdrawals that each find the balance sufficient never
\* take it below zero between them, nor below its cash part.
NoOverdraft == \A w \in Wallets : balance[w] >= 0 /\ cash[w] <= balance[w]

\* A clientTxnId moves money once for a wallet or a stall, however often the
\* request is repeated and however the repeats overlap.
OneRowPerKey == \A x, y \in rows : Key(x) = Key(y) => x = y

\* checkWalletBalances: what the journal owes each wallet is what is stored.
JournalMatchesWallets == \A w \in Wallets : ledger[WALLET(w)] = -balance[w]

\* What a row adds to its wallet, to its stall, to the fees and to what left the
\* shelf; all of it is counted from the committed rows, not from the journal.
credits == [r \in Requests |-> Credit(r)]
nets    == [r \in Requests |-> r.amt - Fee(r)]
fees    == [r \in Requests |-> Fee(r)]
qtys    == [r \in Requests |-> r.qty]

Charges      == {r \in rows : r.op = "charge"}
ChargesAt(m) == {r \in Charges : r.m = m}
RowsAt(m)    == {r \in rows : r.m = m}
RowsFor(w)   == {r \in rows : r.w = w}

\* The cash of the desks covers what is owed to the wallets and the stalls and
\* the fees earned.
FloatCoversEverything ==
    /\ ledger[FLOAT] = SumFunctionOnSet(balance, Wallets)
                         + SumFunctionOnSet(nets, Charges) + SumFunctionOnSet(fees, Charges)
    /\ \A m \in Merchants : ledger[MERCHANT(m)] = -SumFunctionOnSet(nets, ChargesAt(m))

\* The statement of a tag: its top-ups, withdrawals and purchases add up to
\* its balance, and the sales of a stall account for what left its shelf.
HistoryExplainsState ==
    /\ \A w \in Wallets : balance[w] = SumFunctionOnSet(credits, RowsFor(w))
    /\ \A m \in Merchants : stock[m] = supplied[m] - SumFunctionOnSet(qtys, RowsAt(m))

\* The cash part of a balance never exceeds the balance: a part of NoOverdraft.
CashWithinBalance == \A w \in Wallets : cash[w] <= balance[w]

\* The transactions implement the promise of CashlessService.
abstractSt == [h \in Handlers |->
    CASE pc[h] = "idle"                    -> "idle"
      [] pc[h] = "done"                    -> "answered"
      [] pc[h] = "txn" /\ ans[h] # "replay" -> "decided"
      [] OTHER                             -> "asked"]

abstractAns == [h \in Handlers |->
    IF pc[h] = "done" \/ (pc[h] = "txn" /\ ans[h] # "replay") THEN ans[h] ELSE "none"]

Service == INSTANCE CashlessService
             WITH st <- abstractSt, ans <- abstractAns, Blind <- {"withdraw"}

AnsweredOnce == Service!Spec

\* The desk is not told "insufficient balance" for a withdrawal that is
\* already committed under the id it sent.
CommittedWithdrawalConfirmed ==
    \A h \in Handlers :
        pc[h] = "done" /\ req[h].op = "withdraw" /\ ans[h] = "declined"
        => ~Known(req[h])
=============================================================================
