---------------------------- MODULE CashlessProofs ----------------------------
(***************************************************************************)
(* Proofs about CashlessWallet, for any number of wallets, stalls, requests *)
(* and handlers: the inductive invariant IInv and the safety invariants     *)
(* that follow from it; the laws of the sums over finite sets, and with     *)
(* them SInv, by which the float covers what is owed and the rows explain   *)
(* balances and stocks; and the implementation of CashlessService.          *)
(***************************************************************************)
EXTENDS CashlessWallet, FiniteSetTheorems, WellFoundedInduction, TLAPS

Verdicts == {"go", "replay", "refused", "declined", "stockout"}

(* What a running transaction knows.  A verdict "replay" rests on a row     *)
(* that stays; a verdict "go" rests on a balance and a stock that hold as   *)
(* long as no other transaction has written to their documents.             *)
TxnOK(h) ==
    pc[h] = "txn" =>
      /\ ans[h] \in Verdicts
      /\ ans[h] = "replay" => Known(req[h])
      /\ ans[h] = "go" /\ ~Conflict(h)
           => Funded(balance, req[h]) /\ InStock(stock, req[h])

TxnsOK == \A h \in Handlers : TxnOK(h)

IInv ==
    /\ TypeOK
    /\ TxnsOK
    /\ OneRowPerKey
    /\ JournalMatchesWallets
    /\ CashWithinBalance

-----------------------------------------------------------------------------
(* Requests and the operators on them.                                     *)

(* The fields of a request, and what it adds to a wallet and pays in fees. *)
LEMMA RequestType ==
    ASSUME NEW r \in Requests
    PROVE  /\ r.op \in Ops /\ r.w \in Wallets /\ r.m \in Merchants
           /\ r.amt \in Nat /\ r.amt > 0 /\ r.qty \in Nat
           /\ r.op # "charge" => r.qty = 0
           /\ Credit(r) \in Int /\ Fee(r) \in Int
<1>1. r \in RequestSpace
  BY RequestsAssumption
<1>2. r.op \in Ops /\ r.w \in Wallets /\ r.m \in Merchants /\ r.amt \in Nat \ {0} /\ r.qty \in Nat
  BY <1>1 DEF RequestSpace
<1>3. r.op # "charge" => r.qty = 0
  BY RequestsAssumption
<1>4. Credit(r) \in Int
  BY <1>2 DEF Credit
<1>5. Fee(r) \in Int
  BY <1>2, PctAssumption DEF Fee
<1> QED BY <1>2, <1>3, <1>4, <1>5

(* A debit that the balance covers keeps the cash part within it.           *)
LEMMA CashAfterBounds ==
    ASSUME NEW r \in Requests, NEW c \in Nat, NEW b \in Int,
           c <= b, r.op = "topup" \/ b >= r.amt
    PROVE  CashAfter(c, r) \in Nat /\ CashAfter(c, r) <= b + Credit(r)
BY RequestType DEF CashAfter, Credit

(* The legs are integers, and the one on a wallet is what the wallet gains. *)
LEMMA LegType ==
    ASSUME NEW r \in Requests, NEW a \in Accounts
    PROVE  Leg(r, a) \in Int
<1>1. Credit(r) \in Int /\ Fee(r) \in Int /\ r.amt \in Nat
  BY RequestType
<1> QED BY <1>1 DEF Leg

LEMMA WalletLeg ==
    ASSUME NEW r \in Requests, NEW w \in Wallets
    PROVE  Leg(r, WALLET(w)) = IF w = r.w THEN -Credit(r) ELSE 0
<1>1. WALLET(w) # FLOAT /\ WALLET(w) # FEES /\ WALLET(w) # MERCHANT(r.m)
  BY DEF WALLET, FLOAT, FEES, MERCHANT
<1>2. WALLET(w) = WALLET(r.w) <=> w = r.w
  BY DEF WALLET
<1> QED BY <1>1, <1>2 DEF Leg

(* A transaction writes to documents, a repeat has one of two answers.      *)
LEMMA WritesType == ASSUME NEW r \in Requests PROVE Writes(r) \in SUBSET Docs
<1>1. r.w \in Wallets /\ r.m \in Merchants
  BY RequestType
<1> QED BY <1>1 DEF Writes, Docs

LEMMA DirtyType ==
    ASSUME TypeOK, NEW D \in SUBSET Docs
    PROVE  Dirty(D) \in [Handlers -> SUBSET Docs]
BY DEF TypeOK, Dirty

LEMMA ReplayAnswerType ==
    ASSUME NEW r PROVE ReplayAnswer(rows, r) \in {"ok", "mismatch"}
BY DEF ReplayAnswer

-----------------------------------------------------------------------------
(* Types.                                                                  *)

Answers == {"none", "go", "replay", "ok", "mismatch", "refused", "declined", "stockout"}
Labels == {"idle", "asked", "fresh", "txn", "done"}

(* The part of TypeOK about the handlers.                                  *)
JobsTyped ==
    /\ pc \in [Handlers -> Labels]
    /\ req \in [Handlers -> Requests \cup {NoReq}]
    /\ ans \in [Handlers -> Answers]
    /\ stale \in [Handlers -> SUBSET Docs]
    /\ \A h \in Handlers : pc[h] # "idle" => req[h] \in Requests

(* The part of TypeOK about the shared documents.                          *)
DataTyped ==
    /\ balance \in [Wallets -> Int]
    /\ cash \in [Wallets -> Nat]
    /\ stock \in [Merchants -> Nat]
    /\ supplied \in [Merchants -> Int]
    /\ open \in [Merchants -> BOOLEAN]
    /\ rows \subseteq Requests
    /\ ledger \in [Accounts -> Int]

LEMMA TypeParts == TypeOK <=> JobsTyped /\ DataTyped
BY DEF TypeOK, JobsTyped, DataTyped, Answers, Labels

(* A handler that moves on with the request it has keeps the types.        *)
LEMMA GoTyped ==
    ASSUME JobsTyped, NEW h \in Handlers, NEW to \in Labels, NEW a \in Answers,
           Go(h, to, a), pc[h] # "idle", req' = req,
           stale' \in [Handlers -> SUBSET Docs]
    PROVE  JobsTyped'
BY DEF JobsTyped, Go

(* One that drops its request does too.                                    *)
LEMMA ClearTyped ==
    ASSUME JobsTyped, NEW h \in Handlers, Clear(h)
    PROVE  JobsTyped'
BY DEF JobsTyped, Go, Clear, Labels, Answers

LEMMA DataKept ==
    ASSUME DataTyped, UNCHANGED <<moneyVars, stockVars, open>>
    PROVE  DataTyped'
BY DEF DataTyped, moneyVars, stockVars

(* A commit finds the balance and the stock it was promised.               *)
LEMMA CommitFunded ==
    ASSUME TypeOK, TxnsOK, NEW h \in Handlers, Commit(h)
    PROVE  /\ req[h] \in Requests
           /\ Funded(balance, req[h]) /\ InStock(stock, req[h])
<1>1. pc[h] = "txn" /\ ans[h] = "go" /\ ~Conflict(h)
  BY DEF Commit
<1>2. TxnOK(h)
  BY DEF TxnsOK
<1>3. req[h] \in Requests
  BY <1>1 DEF TypeOK
<1> QED BY <1>1, <1>2, <1>3 DEF TxnOK

LEMMA CommitTyped ==
    ASSUME TypeOK, TxnsOK, NEW h \in Handlers, Commit(h)
    PROVE  TypeOK'
<1> DEFINE r == req[h]
<1>1. /\ r \in Requests
      /\ Funded(balance, r) /\ InStock(stock, r)
  BY CommitFunded
<1>2. /\ r.w \in Wallets /\ r.m \in Merchants
      /\ r.amt \in Nat /\ r.qty \in Nat /\ Credit(r) \in Int
  BY <1>1, RequestType
<1>3. /\ balance' = [balance EXCEPT ![r.w] = @ + Credit(r)]
      /\ cash' = [cash EXCEPT ![r.w] = CashAfter(@, r)]
      /\ stock' = [stock EXCEPT ![r.m] = @ - r.qty]
      /\ ledger' = Posted(ledger, r)
      /\ rows' = rows \cup {r}
      /\ Go(h, "done", "ok")
      /\ stale' = [Dirty(Writes(r)) EXCEPT ![h] = {}]
      /\ supplied' = supplied /\ open' = open /\ req' = req
      /\ pc[h] = "txn"
  BY DEF Commit
<1>4. JobsTyped /\ DataTyped
  BY TypeParts
<1> HIDE DEF r
<1>5. DataTyped'
  <2>1. balance' \in [Wallets -> Int]
    BY <1>2, <1>3, <1>4 DEF DataTyped
  <2>2. cash' \in [Wallets -> Nat]
    <3>1. \A c \in Nat : CashAfter(c, r) \in Nat
      BY <1>2 DEF CashAfter
    <3> QED BY <3>1, <1>2, <1>3, <1>4 DEF DataTyped
  <2>3. stock' \in [Merchants -> Nat]
    <3>1. stock[r.m] >= r.qty /\ stock \in [Merchants -> Nat]
      BY <1>1, <1>4 DEF InStock, DataTyped
    <3>2. stock[r.m] - r.qty \in Nat
      BY <3>1, <1>2
    <3> QED BY <3>1, <3>2, <1>2, <1>3
  <2>4. ledger' \in [Accounts -> Int]
    <3>1. \A a \in Accounts : Leg(r, a) \in Int
      BY <1>1, LegType
    <3> QED BY <3>1, <1>3, <1>4 DEF DataTyped, Posted
  <2>5. rows' \subseteq Requests
    BY <1>1, <1>3, <1>4 DEF DataTyped
  <2> QED BY <2>1, <2>2, <2>3, <2>4, <2>5, <1>3, <1>4 DEF DataTyped
<1>6. JobsTyped'
  <2>1. Dirty(Writes(r)) \in [Handlers -> SUBSET Docs]
    BY <1>1, WritesType, DirtyType
  <2>2. stale' \in [Handlers -> SUBSET Docs]
    BY <2>1, <1>3
  <2> QED BY <2>2, <1>3, <1>4, GoTyped DEF Labels, Answers
<1> QED BY <1>5, <1>6, TypeParts, PTL

(* A movement of the stock that leaves no stall below zero.                *)
LEMMA MovedTyped ==
    ASSUME TypeOK, NEW delta \in [Merchants -> Int], Moved(delta),
           \A m \in Merchants : stock[m] + delta[m] >= 0
    PROVE  TypeOK'
<1>1. JobsTyped /\ DataTyped
  BY TypeParts
<1>2. DataTyped'
  BY <1>1 DEF DataTyped, Moved, moneyVars
<1>3. JobsTyped'
  <2>1. {StockDoc(m) : m \in {n \in Merchants : delta[n] # 0}} \in SUBSET Docs
    BY DEF Docs
  <2>2. stale' \in [Handlers -> SUBSET Docs]
    BY <2>1, DirtyType DEF Moved
  <2> QED BY <2>2, <1>1 DEF Moved, JobsTyped
<1> QED BY <1>2, <1>3, TypeParts, PTL

(* Deliveries, write-offs, counts and transfers are such movements.        *)
LEMMA Movement ==
    ASSUME TypeOK, NEW m \in Merchants,
           Receive(m) \/ WriteOff(m) \/ Count(m) \/ \E to \in Merchants : Transfer(m, to)
    PROVE  \E delta \in [Merchants -> Int] :
             Moved(delta) /\ \A n \in Merchants : stock[n] + delta[n] >= 0
<1>1. stock \in [Merchants -> Nat]
  BY DEF TypeOK
<1>2. \A n \in Int : /\ Only(m, n) \in [Merchants -> Int]
                     /\ \A k \in Merchants : Only(m, n)[k] = IF k = m THEN n ELSE 0
  BY DEF Only
<1>3. CASE Receive(m)
  <2>1. \A n \in Merchants : stock[n] + Only(m, 1)[n] >= 0
    BY <1>1, <1>2
  <2> QED BY <2>1, <1>2, <1>3 DEF Receive
<1>4. CASE WriteOff(m)
  <2>1. \A n \in Merchants : stock[n] + Only(m, -1)[n] >= 0
    BY <1>1, <1>2, <1>4 DEF WriteOff
  <2> QED BY <2>1, <1>2, <1>4 DEF WriteOff
<1>5. CASE Count(m)
  <2>1. PICK c \in 0..MaxStock : Moved(Only(m, c - stock[m]))
    BY <1>5 DEF Count
  <2>2. c \in Nat /\ c - stock[m] \in Int
    BY <2>1, <1>1, MaxStockAssumption
  <2>3. \A n \in Merchants : stock[n] + Only(m, c - stock[m])[n] >= 0
    BY <1>1, <1>2, <2>2
  <2> QED BY <2>1, <2>2, <2>3, <1>2
<1>6. ASSUME NEW to \in Merchants, Transfer(m, to)
      PROVE  \E delta \in [Merchants -> Int] :
               Moved(delta) /\ \A n \in Merchants : stock[n] + delta[n] >= 0
  <2> DEFINE d == [k \in Merchants |-> IF k = m THEN -1 ELSE IF k = to THEN 1 ELSE 0]
  <2>1. Moved(d) /\ stock[m] >= 1
    BY <1>6 DEF Transfer
  <2>2. d \in [Merchants -> Int]
    OBVIOUS
  <2>3. \A n \in Merchants : stock[n] + d[n] >= 0
    BY <1>1, <2>1
  <2> HIDE DEF d
  <2> QED BY <2>1, <2>2, <2>3
<1> QED BY <1>3, <1>4, <1>5, <1>6

-----------------------------------------------------------------------------
(* The verdicts of running transactions.                                   *)

(* A transaction keeps its verdict through a step of another that only adds *)
(* rows, and that marks as stale whatever it takes away from.               *)
LEMMA TxnKept ==
    ASSUME NEW g \in Handlers, TxnOK(g),
           pc'[g] = pc[g], ans'[g] = ans[g], req'[g] = req[g],
           rows \subseteq rows', stale[g] \subseteq stale'[g],
           /\ pc[g] = "txn"
           /\ Writes(req[g]) \cap stale'[g] = {}
           /\ Funded(balance, req[g]) /\ InStock(stock, req[g])
           => Funded(balance', req[g]) /\ InStock(stock', req[g])
    PROVE  TxnOK(g)'
<1>1. Attempted(g)' = Attempted(g)
  BY DEF Attempted
<1>2. Conflict(g) => Conflict(g)'
  BY <1>1 DEF Conflict
<1>3. ans[g] = "go" => Attempted(g) = Writes(req[g])
  BY DEF Attempted
<1>4. ans[g] = "go" /\ ~Conflict(g)' => Writes(req[g]) \cap stale'[g] = {}
  BY <1>1, <1>3 DEF Conflict
<1>5. RowsOf(rows, req[g]) # {} => RowsOf(rows', req'[g]) # {}
  BY DEF RowsOf
<1>6. CASE pc[g] = "txn"
  <2>1. ans[g] \in Verdicts /\ (ans[g] = "replay" => RowsOf(rows', req'[g]) # {})
    BY <1>5, <1>6 DEF TxnOK, Known
  <2>2. ASSUME ans[g] = "go", ~Conflict(g)'
        PROVE  Funded(balance', req[g]) /\ InStock(stock', req[g])
    BY <1>2, <1>4, <1>6, <2>2 DEF TxnOK
  <2> QED BY <2>1, <2>2 DEF TxnOK, Known
<1> QED BY <1>6 DEF TxnOK

(* It keeps it through every step that leaves the documents alone.         *)
LEMMA TxnsKept ==
    ASSUME TypeOK, TxnsOK, NEW h \in Handlers, NEW to, NEW a, NEW z,
           Go(h, to, a), to # "txn",
           \A g \in Handlers \ {h} : req'[g] = req[g] /\ stale'[g] = stale[g],
           UNCHANGED <<moneyVars, stockVars, open>>
    PROVE  TxnsOK'
<1> SUFFICES ASSUME NEW g \in Handlers PROVE TxnOK(g)'
  BY DEF TxnsOK
<1>1. CASE g = h
  <2>1. pc'[g] = to
    BY <1>1 DEF Go, TypeOK
  <2> QED BY <2>1 DEF TxnOK
<1>2. CASE g # h
  <2>1. pc'[g] = pc[g] /\ ans'[g] = ans[g]
    BY <1>2 DEF Go, TypeOK
  <2>2. TxnOK(g)
    BY DEF TxnsOK
  <2>3. balance' = balance /\ stock' = stock /\ rows' = rows
    BY DEF moneyVars, stockVars
  <2> QED BY <1>2, <2>1, <2>2, <2>3, TxnKept
<1> QED BY <1>1, <1>2

LEMMA SnapshotTxns ==
    ASSUME TypeOK, TxnsOK, NEW h \in Handlers, Snapshot(h)
    PROVE  TxnsOK'
<1> SUFFICES ASSUME NEW g \in Handlers PROVE TxnOK(g)'
  BY DEF TxnsOK
<1>1. /\ balance' = balance /\ stock' = stock /\ rows' = rows /\ req' = req
      /\ pc' = [pc EXCEPT ![h] = "txn"]
      /\ ans' = [ans EXCEPT ![h] = Verdict(req[h])]
      /\ stale' = [stale EXCEPT ![h] = {}]
  BY DEF Snapshot, Go, moneyVars, stockVars
<1>2. CASE g = h
  <2>1. ans'[h] = Verdict(req[h])
    BY <1>1 DEF TypeOK
  <2>2. Verdict(req[h]) \in Verdicts
    BY DEF Verdict, Verdicts
  <2>3. Verdict(req[h]) = "replay" => Known(req[h])
    BY DEF Verdict
  <2>4. Verdict(req[h]) = "go" => Funded(balance, req[h]) /\ InStock(stock, req[h])
    BY DEF Verdict
  <2>5. Known(req[h]) => Known(req[h])'
    BY <1>1 DEF Known
  <2> QED BY <1>1, <1>2, <2>1, <2>2, <2>3, <2>4, <2>5 DEF TxnOK, Known
<1>3. CASE g # h
  <2>1. pc'[g] = pc[g] /\ ans'[g] = ans[g] /\ stale'[g] = stale[g]
    BY <1>1, <1>3 DEF TypeOK
  <2>2. TxnOK(g)
    BY DEF TxnsOK
  <2> QED BY <1>1, <2>1, <2>2, TxnKept
<1> QED BY <1>2, <1>3

LEMMA CommitTxns ==
    ASSUME TypeOK, TxnsOK, NEW h \in Handlers, Commit(h)
    PROVE  TxnsOK'
<1> DEFINE r == req[h]
<1>1. r \in Requests /\ InStock(stock, r)
  BY CommitFunded
<1>2. /\ balance' = [balance EXCEPT ![r.w] = @ + Credit(r)]
      /\ stock' = [stock EXCEPT ![r.m] = @ - r.qty]
      /\ rows' = rows \cup {r}
      /\ pc' = [pc EXCEPT ![h] = "done"]
      /\ ans' = [ans EXCEPT ![h] = "ok"]
      /\ stale' = [Dirty(Writes(r)) EXCEPT ![h] = {}]
      /\ req' = req
  BY DEF Commit, Go
<1> SUFFICES ASSUME NEW g \in Handlers PROVE TxnOK(g)'
  BY DEF TxnsOK
<1>3. CASE g = h
  BY <1>2, <1>3 DEF TxnOK, TypeOK
<1>4. CASE g # h
  <2> DEFINE q == req[g]
  <2>1. pc'[g] = pc[g] /\ ans'[g] = ans[g] /\ q = req'[g] /\ rows \subseteq rows'
    BY <1>2, <1>4 DEF TypeOK
  <2>2. stale'[g] = IF pc[g] = "txn" THEN stale[g] \cup Writes(r) ELSE stale[g]
    BY <1>2, <1>4 DEF Dirty
  <2>3. ASSUME pc[g] = "txn", Writes(q) \cap stale'[g] = {},
               Funded(balance, q), InStock(stock, q)
        PROVE  Funded(balance', q) /\ InStock(stock', q)
    <3>1. Writes(q) \cap Writes(r) = {}
      BY <2>2, <2>3
    <3>2. q \in Requests
      BY <2>3 DEF TypeOK
    <3>3. /\ q.w \in Wallets /\ q.m \in Merchants /\ q.qty \in Nat
          /\ r.w \in Wallets /\ r.m \in Merchants /\ r.qty \in Nat
      BY <1>1, <3>2, RequestType
    <3>4. q.w # r.w
      BY <3>1 DEF Writes
    <3>5. balance'[q.w] = balance[q.w]
      BY <1>2, <3>3, <3>4 DEF TypeOK
    <3>6. q.qty > 0 /\ r.qty > 0 => q.m # r.m
      BY <3>1 DEF Writes
    <3>7. stock \in [Merchants -> Nat]
      BY DEF TypeOK
    <3>8. stock[r.m] >= r.qty /\ stock[q.m] >= q.qty
      BY <1>1, <2>3 DEF InStock
    <3>9. stock'[q.m] = IF q.m = r.m THEN stock[r.m] - r.qty ELSE stock[q.m]
      BY <1>2, <3>3, <3>7
    <3>10. stock'[q.m] >= q.qty
      <4>1. CASE q.qty = 0
        BY <4>1, <3>3, <3>7, <3>8, <3>9
      <4>2. CASE q.qty > 0 /\ r.qty > 0
        BY <4>2, <3>6, <3>8, <3>9
      <4>3. CASE q.qty > 0 /\ r.qty = 0
        BY <4>3, <3>3, <3>7, <3>8, <3>9
      <4> QED BY <4>1, <4>2, <4>3, <3>3
    <3> QED BY <3>5, <3>10, <2>3 DEF Funded, InStock
  <2>4. TxnOK(g)
    BY DEF TxnsOK
  <2>5. stale[g] \subseteq stale'[g]
    BY <2>2
  <2> HIDE DEF r
  <2> QED BY <2>1, <2>3, <2>4, <2>5, TxnKept
<1> QED BY <1>3, <1>4

LEMMA MovedTxns ==
    ASSUME TypeOK, TxnsOK, NEW delta \in [Merchants -> Int], Moved(delta),
           \A m \in Merchants : stock[m] + delta[m] >= 0
    PROVE  TxnsOK'
<1> DEFINE D == {StockDoc(m) : m \in {n \in Merchants : delta[n] # 0}}
<1>1. /\ stock' = [m \in Merchants |-> stock[m] + delta[m]]
      /\ stale' = Dirty(D)
      /\ balance' = balance /\ rows' = rows
      /\ pc' = pc /\ ans' = ans /\ req' = req
  BY DEF Moved, moneyVars
<1> SUFFICES ASSUME NEW g \in Handlers PROVE TxnOK(g)'
  BY DEF TxnsOK
<1> DEFINE q == req[g]
<1>2. stale'[g] = IF pc[g] = "txn" THEN stale[g] \cup D ELSE stale[g]
  BY <1>1 DEF Dirty
<1>3. ASSUME pc[g] = "txn", Writes(q) \cap stale'[g] = {}, InStock(stock, q)
      PROVE  InStock(stock', q)
  <2>1. q \in Requests
    BY <1>3 DEF TypeOK
  <2>2. q.m \in Merchants /\ q.qty \in Nat
    BY <2>1, RequestType
  <2>3. stock'[q.m] = stock[q.m] + delta[q.m]
    BY <1>1, <2>2
  <2>4. CASE q.qty = 0
    BY <2>2, <2>3, <2>4 DEF InStock
  <2>5. CASE q.qty > 0
    <3>1. StockDoc(q.m) \in Writes(q)
      BY <2>5 DEF Writes
    <3>2. delta[q.m] # 0 => StockDoc(q.m) \in D
      BY <2>2
    <3>3. delta[q.m] = 0
      BY <1>2, <1>3, <3>1, <3>2
    <3>4. stock[q.m] \in Nat
      BY <2>2 DEF TypeOK
    <3> QED BY <1>3, <2>3, <3>3, <3>4 DEF InStock
  <2> QED BY <2>2, <2>4, <2>5
<1>4. TxnOK(g)
  BY DEF TxnsOK
<1>5. stale[g] \subseteq stale'[g]
  BY <1>2
<1> HIDE DEF D
<1> QED BY <1>1, <1>3, <1>4, <1>5, TxnKept

-----------------------------------------------------------------------------
(* The books.                                                              *)

Books == OneRowPerKey /\ JournalMatchesWallets /\ CashWithinBalance

LEMMA BooksKept ==
    ASSUME Books, UNCHANGED moneyVars
    PROVE  Books'
BY DEF Books, OneRowPerKey, JournalMatchesWallets, CashWithinBalance, moneyVars

LEMMA CommitBooks ==
    ASSUME TypeOK, TxnsOK, Books, NEW h \in Handlers, Commit(h)
    PROVE  Books'
<1> DEFINE r == req[h]
<1>1. r \in Requests /\ Funded(balance, r)
  BY CommitFunded
<1>2. r.w \in Wallets /\ r.amt \in Nat /\ Credit(r) \in Int
  BY <1>1, RequestType
<1>3. /\ balance' = [balance EXCEPT ![r.w] = @ + Credit(r)]
      /\ cash' = [cash EXCEPT ![r.w] = CashAfter(@, r)]
      /\ ledger' = Posted(ledger, r)
      /\ rows' = rows \cup {r}
      /\ ~Known(r)
  BY DEF Commit
<1>4. /\ balance \in [Wallets -> Int] /\ cash \in [Wallets -> Nat]
      /\ ledger \in [Accounts -> Int]
  BY DEF TypeOK
<1> HIDE DEF r
<1>5. OneRowPerKey'
  <2>1. \A x \in rows : Key(x) # Key(r)
    BY <1>3 DEF Known, RowsOf
  <2>2. \A x, y \in rows \cup {r} : Key(x) = Key(y) => x = y
    BY <2>1 DEF Books, OneRowPerKey
  <2> QED BY <2>2, <1>3 DEF OneRowPerKey
<1>6. JournalMatchesWallets'
  <2> SUFFICES ASSUME NEW w \in Wallets PROVE ledger'[WALLET(w)] = -balance'[w]
    BY DEF JournalMatchesWallets
  <2>1. WALLET(w) \in Accounts
    BY DEF Accounts
  <2>2. ledger'[WALLET(w)] = ledger[WALLET(w)] + Leg(r, WALLET(w))
    BY <1>3, <2>1 DEF Posted
  <2>3. Leg(r, WALLET(w)) = IF w = r.w THEN -Credit(r) ELSE 0
    BY <1>1, WalletLeg
  <2>4. ledger[WALLET(w)] = -balance[w] /\ ledger[WALLET(w)] \in Int /\ balance[w] \in Int
    BY <1>4, <2>1 DEF Books, JournalMatchesWallets
  <2>5. balance'[w] = IF w = r.w THEN balance[w] + Credit(r) ELSE balance[w]
    BY <1>2, <1>3, <1>4
  <2> QED BY <2>2, <2>3, <2>4, <2>5, <1>2
<1>7. CashWithinBalance'
  <2>1. cash[r.w] \in Nat /\ balance[r.w] \in Int /\ cash[r.w] <= balance[r.w]
    BY <1>2, <1>4 DEF Books, CashWithinBalance
  <2>2. r.op = "topup" \/ balance[r.w] >= r.amt
    BY <1>1 DEF Funded
  <2>3. CashAfter(cash[r.w], r) <= balance[r.w] + Credit(r)
    BY <1>1, <2>1, <2>2, CashAfterBounds
  <2> QED BY <2>3, <1>2, <1>3, <1>4 DEF Books, CashWithinBalance
<1> QED BY <1>5, <1>6, <1>7 DEF Books

-----------------------------------------------------------------------------
(* The invariant.                                                          *)

LEMMA InitIInv == Init => IInv
<1> SUFFICES ASSUME Init PROVE IInv
  OBVIOUS
<1>1. TypeOK
  <2>1. DataTyped
    BY DEF Init, DataTyped
  <2>2. JobsTyped
    BY DEF Init, JobsTyped, Labels, Answers
  <2> QED BY <2>1, <2>2, TypeParts
<1>2. TxnsOK
  BY DEF Init, TxnsOK, TxnOK
<1>3. OneRowPerKey
  BY DEF Init, OneRowPerKey
<1>4. JournalMatchesWallets
  <2>1. \A w \in Wallets : WALLET(w) \in Accounts
    BY DEF Accounts
  <2>2. \A w \in Wallets : ledger[WALLET(w)] = 0 /\ balance[w] = 0
    BY <2>1 DEF Init
  <2>3. \A a, b \in Int : a + b = 0 => a = -b
    OBVIOUS
  <2> QED BY <2>2, <2>3 DEF JournalMatchesWallets
<1>5. CashWithinBalance
  BY DEF Init, CashWithinBalance
<1> QED BY <1>1, <1>2, <1>3, <1>4, <1>5 DEF IInv

(* Every step of a handler but Commit and Snapshot moves it to a label     *)
(* outside the transaction and leaves the documents alone.                 *)
LEMMA QuietStep ==
    ASSUME IInv, NEW h \in Handlers, NEW to \in Labels, NEW a \in Answers,
           Go(h, to, a), to # "txn", pc[h] # "idle", req' = req,
           stale' = stale \/ stale' = [stale EXCEPT ![h] = {}],
           UNCHANGED <<moneyVars, stockVars, open>>
    PROVE  IInv'
<1>1. TypeOK /\ TxnsOK /\ Books /\ JobsTyped /\ DataTyped
  BY TypeParts DEF IInv, Books
<1>2. stale' \in [Handlers -> SUBSET Docs]
  BY <1>1 DEF TypeOK
<1>3. JobsTyped'
  BY <1>1, <1>2, GoTyped
<1>4. DataTyped'
  BY <1>1, DataKept
<1>5. \A g \in Handlers \ {h} : req'[g] = req[g] /\ stale'[g] = stale[g]
  BY <1>1 DEF TypeOK
<1>6. TxnsOK'
  BY <1>1, <1>5, TxnsKept
<1>7. Books'
  BY <1>1, BooksKept
<1>8. TypeOK'
  BY <1>3, <1>4, TypeParts, PTL
<1> QED BY <1>6, <1>7, <1>8 DEF IInv, Books

LEMMA ClearStep ==
    ASSUME IInv, NEW h \in Handlers, Clear(h)
    PROVE  IInv'
<1>1. TypeOK /\ TxnsOK /\ Books /\ JobsTyped /\ DataTyped
  BY TypeParts DEF IInv, Books
<1>2. /\ Go(h, "idle", "none")
      /\ req' = [req EXCEPT ![h] = NoReq]
      /\ stale' = [stale EXCEPT ![h] = {}]
      /\ UNCHANGED <<moneyVars, stockVars, open>>
  BY DEF Clear
<1>3. JobsTyped'
  BY <1>1, ClearTyped
<1>4. DataTyped'
  BY <1>1, <1>2, DataKept
<1>5. \A g \in Handlers \ {h} : req'[g] = req[g] /\ stale'[g] = stale[g]
  BY <1>1, <1>2 DEF TypeOK
<1>6. TxnsOK'
  BY <1>1, <1>2, <1>5, TxnsKept
<1>7. Books'
  BY <1>1, <1>2, BooksKept
<1>8. TypeOK'
  BY <1>3, <1>4, TypeParts, PTL
<1> QED BY <1>6, <1>7, <1>8 DEF IInv, Books

LEMMA AskStep ==
    ASSUME IInv, NEW h \in Handlers, NEW r \in Requests, Ask(h, r)
    PROVE  IInv'
<1>1. TypeOK /\ TxnsOK /\ Books /\ JobsTyped /\ DataTyped
  BY TypeParts DEF IInv, Books
<1>2. /\ Go(h, "asked", "none")
      /\ req' = [req EXCEPT ![h] = r]
      /\ stale' = stale
      /\ UNCHANGED <<moneyVars, stockVars, open>>
  BY DEF Ask
<1>3. JobsTyped'
  BY <1>1, <1>2 DEF JobsTyped, Go, Labels, Answers
<1>4. DataTyped'
  BY <1>1, <1>2, DataKept
<1>5. \A g \in Handlers \ {h} : req'[g] = req[g] /\ stale'[g] = stale[g]
  BY <1>1, <1>2 DEF TypeOK
<1>6. TxnsOK'
  BY <1>1, <1>2, <1>5, TxnsKept
<1>7. Books'
  BY <1>1, <1>2, BooksKept
<1>8. TypeOK'
  BY <1>3, <1>4, TypeParts, PTL
<1> QED BY <1>6, <1>7, <1>8 DEF IInv, Books

LEMMA SnapshotStep ==
    ASSUME IInv, NEW h \in Handlers, Snapshot(h)
    PROVE  IInv'
<1>1. TypeOK /\ TxnsOK /\ Books /\ JobsTyped /\ DataTyped
  BY TypeParts DEF IInv, Books
<1>2. /\ Go(h, "txn", Verdict(req[h])) /\ pc[h] # "idle" /\ req' = req
      /\ stale' = [stale EXCEPT ![h] = {}]
      /\ UNCHANGED <<moneyVars, stockVars, open>>
  BY DEF Snapshot
<1>3. JobsTyped'
  <2>1. Verdict(req[h]) \in Answers /\ "txn" \in Labels
    BY DEF Verdict, Answers, Labels
  <2>2. stale' \in [Handlers -> SUBSET Docs]
    BY <1>1, <1>2 DEF TypeOK
  <2> QED BY <1>1, <1>2, <2>1, <2>2, GoTyped
<1>4. DataTyped'
  BY <1>1, <1>2, DataKept
<1>5. TxnsOK'
  BY <1>1, SnapshotTxns
<1>6. Books'
  BY <1>1, <1>2, BooksKept
<1>7. TypeOK'
  BY <1>3, <1>4, TypeParts, PTL
<1> QED BY <1>5, <1>6, <1>7 DEF IInv, Books

LEMMA CommitStep ==
    ASSUME IInv, NEW h \in Handlers, Commit(h)
    PROVE  IInv'
<1>1. TypeOK /\ TxnsOK /\ Books
  BY DEF IInv, Books
<1> QED BY <1>1, CommitTyped, CommitTxns, CommitBooks DEF IInv, Books

LEMMA MovementStep ==
    ASSUME IInv, NEW m \in Merchants,
           Receive(m) \/ WriteOff(m) \/ Count(m) \/ \E to \in Merchants : Transfer(m, to)
    PROVE  IInv'
<1>1. TypeOK /\ TxnsOK /\ Books
  BY DEF IInv, Books
<1>2. PICK delta \in [Merchants -> Int] :
        Moved(delta) /\ \A n \in Merchants : stock[n] + delta[n] >= 0
  BY <1>1, Movement
<1>3. UNCHANGED moneyVars
  BY <1>2 DEF Moved
<1> QED BY <1>1, <1>2, <1>3, MovedTyped, MovedTxns, BooksKept DEF IInv, Books

LEMMA SetOpenStep ==
    ASSUME IInv, NEW m \in Merchants, SetOpen(m)
    PROVE  IInv'
<1>1. TypeOK /\ TxnsOK /\ Books /\ JobsTyped /\ DataTyped
  BY TypeParts DEF IInv, Books
<1>2. open' = [open EXCEPT ![m] = ~@] /\ UNCHANGED <<moneyVars, stockVars, jobVars>>
  BY DEF SetOpen
<1>3. DataTyped'
  BY <1>1, <1>2 DEF DataTyped, moneyVars, stockVars
<1>4. JobsTyped'
  BY <1>1, <1>2 DEF JobsTyped, jobVars
<1>5. TxnsOK'
  BY <1>1, <1>2, TxnKept DEF TxnsOK, moneyVars, stockVars, jobVars
<1>6. Books'
  BY <1>1, <1>2, BooksKept
<1>7. TypeOK'
  BY <1>3, <1>4, TypeParts, PTL
<1> QED BY <1>5, <1>6, <1>7 DEF IInv, Books

LEMMA StutterStep == IInv /\ UNCHANGED vars => IInv'
<1> SUFFICES ASSUME IInv, UNCHANGED vars PROVE IInv'
  OBVIOUS
<1>1. TypeOK /\ TxnsOK /\ Books /\ JobsTyped /\ DataTyped
  BY TypeParts DEF IInv, Books
<1>2. UNCHANGED <<moneyVars, stockVars, open, jobVars>>
  BY DEF vars
<1>3. DataTyped'
  BY <1>1, <1>2, DataKept
<1>4. JobsTyped'
  BY <1>1, <1>2 DEF JobsTyped, jobVars
<1>5. TxnsOK'
  BY <1>1, <1>2, TxnKept DEF TxnsOK, moneyVars, stockVars, jobVars
<1>6. Books'
  BY <1>1, <1>2, BooksKept
<1>7. TypeOK'
  BY <1>3, <1>4, TypeParts, PTL
<1> QED BY <1>5, <1>6, <1>7 DEF IInv, Books

LEMMA NextIInv == IInv /\ [Next]_vars => IInv'
<1> SUFFICES ASSUME IInv, [Next]_vars PROVE IInv'
  OBVIOUS
<1>1. CASE UNCHANGED vars
  BY <1>1, StutterStep
<1>2. ASSUME NEW h \in Handlers, NEW r \in Requests, Ask(h, r) PROVE IInv'
  BY <1>2, AskStep
<1>3. ASSUME NEW h \in Handlers, PreCheck(h) PROVE IInv'
  <2>1. pc[h] # "idle" /\ req' = req /\ stale' = stale
        /\ UNCHANGED <<moneyVars, stockVars, open>>
    BY <1>3 DEF PreCheck
  <2>2. CASE Known(req[h])
    <3>1. Go(h, "done", ReplayAnswer(rows, req[h]))
      BY <1>3, <2>2 DEF PreCheck
    <3>2. ReplayAnswer(rows, req[h]) \in Answers /\ "done" \in Labels
      BY ReplayAnswerType DEF Answers, Labels
    <3> QED BY <2>1, <3>1, <3>2, QuietStep
  <2>3. CASE ~Known(req[h])
    <3>1. Go(h, "fresh", "none")
      BY <1>3, <2>3 DEF PreCheck
    <3>2. "none" \in Answers /\ "fresh" \in Labels
      BY DEF Answers, Labels
    <3> QED BY <2>1, <3>1, <3>2, QuietStep
  <2> QED BY <2>2, <2>3
<1>4. ASSUME NEW h \in Handlers, Snapshot(h) PROVE IInv'
  BY <1>4, SnapshotStep
<1>5. ASSUME NEW h \in Handlers, Retry(h) PROVE IInv'
  <2>1. /\ Go(h, "fresh", "none") /\ pc[h] # "idle" /\ req' = req
        /\ stale' = [stale EXCEPT ![h] = {}]
        /\ UNCHANGED <<moneyVars, stockVars, open>>
    BY <1>5 DEF Retry
  <2>2. "none" \in Answers /\ "fresh" \in Labels
    BY DEF Answers, Labels
  <2> QED BY <2>1, <2>2, QuietStep
<1>6. ASSUME NEW h \in Handlers, Commit(h) PROVE IInv'
  BY <1>6, CommitStep
<1>7. ASSUME NEW h \in Handlers, Duplicate(h) PROVE IInv'
  <2>1. /\ Go(h, "done", ReplayAnswer(rows, req[h])) /\ pc[h] # "idle" /\ req' = req
        /\ stale' = [stale EXCEPT ![h] = {}]
        /\ UNCHANGED <<moneyVars, stockVars, open>>
    BY <1>7 DEF Duplicate
  <2>2. ReplayAnswer(rows, req[h]) \in Answers /\ "done" \in Labels
    BY ReplayAnswerType DEF Answers, Labels
  <2> QED BY <2>1, <2>2, QuietStep
<1>8. ASSUME NEW h \in Handlers, Throw(h) PROVE IInv'
  <2> DEFINE a == IF ans[h] = "replay" THEN ReplayAnswer(rows, req[h]) ELSE ans[h]
  <2>1. /\ Go(h, "done", a) /\ pc[h] = "txn" /\ req' = req
        /\ stale' = [stale EXCEPT ![h] = {}]
        /\ UNCHANGED <<moneyVars, stockVars, open>>
    BY <1>8 DEF Throw
  <2>2. TxnOK(h)
    BY DEF IInv, TxnsOK
  <2>3. ans[h] \in Verdicts
    BY <2>1, <2>2 DEF TxnOK
  <2>4. a \in Answers /\ "done" \in Labels
    BY <2>3, ReplayAnswerType DEF Answers, Labels, Verdicts
  <2> HIDE DEF a
  <2> QED BY <2>1, <2>4, QuietStep
<1>9. ASSUME NEW h \in Handlers, Collect(h) \/ Crash(h) PROVE IInv'
  BY <1>9, ClearStep DEF Collect, Crash
<1>10. ASSUME NEW m \in Merchants,
              Receive(m) \/ WriteOff(m) \/ Count(m) \/ \E to \in Merchants : Transfer(m, to)
       PROVE  IInv'
  BY <1>10, MovementStep
<1>11. ASSUME NEW m \in Merchants, SetOpen(m) PROVE IInv'
  BY <1>11, SetOpenStep
<1> QED
  BY <1>1, <1>2, <1>3, <1>4, <1>5, <1>6, <1>7, <1>8, <1>9, <1>10, <1>11 DEF Next, Serve

(* In every reachable state the invariant holds.                           *)
THEOREM Invariance == Spec => []IInv
BY InitIInv, NextIInv, PTL DEF Spec

(* Balances, rows, journal, stock and handlers keep their types; the stock  *)
(* of a stall in particular is never below zero.                            *)
THEOREM TypeCorrect == Spec => []TypeOK
<1>1. IInv => TypeOK
  BY DEF IInv
<1> QED BY <1>1, Invariance, PTL

(* No wallet goes below zero, or below the cash part of its balance,        *)
(* whatever charges and withdrawals overlap.                                *)
THEOREM NeverOverdrawn == Spec => []NoOverdraft
<1>1. IInv => NoOverdraft
  <2> SUFFICES ASSUME IInv, NEW w \in Wallets
                PROVE  balance[w] >= 0 /\ cash[w] <= balance[w]
    BY DEF NoOverdraft
  <2>1. cash[w] \in Nat /\ balance[w] \in Int /\ cash[w] <= balance[w]
    BY DEF IInv, TypeOK, CashWithinBalance
  <2> QED BY <2>1
<1> QED BY <1>1, Invariance, PTL

(* A clientTxnId moves money at most once for a wallet or a stall.          *)
THEOREM MovedOnce == Spec => []OneRowPerKey
<1>1. IInv => OneRowPerKey
  BY DEF IInv
<1> QED BY <1>1, Invariance, PTL

(* The journal's account of a wallet always mirrors its stored balance.     *)
THEOREM JournalAgrees == Spec => []JournalMatchesWallets
<1>1. IInv => JournalMatchesWallets
  BY DEF IInv
<1> QED BY <1>1, Invariance, PTL

-----------------------------------------------------------------------------
(* Sums.  The library folds + over a set by picking an element and going on *)
(* with the rest.  No induction over sets is at hand: what is said of every *)
(* finite set is said of a smallest one that would break it.                *)

(* Among sets that are all finite, some set has the fewest elements.       *)
LEMMA SmallestSet ==
    ASSUME NEW C, C # {}, \A T \in C : IsFiniteSet(T)
    PROVE  \E T \in C : \A U \in C : Cardinality(T) <= Cardinality(U)
<1> DEFINE R == {ss \in Nat \X Nat : ss[1] < ss[2]}
           N == {Cardinality(T) : T \in C}
<1>1. IsWellFoundedOn(R, Nat)
  BY NatLessThanWellFounded DEF OpToRel
<1>2. \A T \in C : Cardinality(T) \in Nat
  BY FS_CardinalityType
<1>3. N # {} /\ N \subseteq Nat
  BY <1>2
<1>4. PICK n \in N : \A m \in N : ~ (<<m, n>> \in R)
  <2> HIDE DEF R, N
  <2> QED BY <1>1, <1>3, WFMin
<1>5. PICK T \in C : n = Cardinality(T)
  BY <1>4
<1>6. ASSUME NEW U \in C PROVE Cardinality(T) <= Cardinality(U)
  <2>1. Cardinality(U) \in N
    OBVIOUS
  <2>2. ~ (Cardinality(U) < Cardinality(T))
    BY <1>2, <1>4, <1>5, <2>1
  <2> QED BY <1>2, <2>2
<1> QED BY <1>6

Pick(S) == CHOOSE x \in S : TRUE

(* What the library's sum of f over the subsets of S solves.               *)
FromRest(g, f, X) == IF X = {} THEN 0 ELSE f[Pick(X)] + g[X \ {Pick(X)}]

SumsUp(g, f, S) == g = [X \in SUBSET S |-> FromRest(g, f, X)]

(* The library's sum is the value of such a function at S.                 *)
LEMMA SumIsSolution ==
    ASSUME NEW f, NEW S
    PROVE  SumFunctionOnSet(f, S) = (CHOOSE g : SumsUp(g, f, S))[S]
BY DEF SumFunctionOnSet, FoldFunctionOnSet, MapThenFoldSet, SumsUp, FromRest, Pick

(* A solution satisfies its equation at every subset.                      *)
LEMMA SolutionAt ==
    ASSUME NEW f, NEW S, NEW g, SumsUp(g, f, S)
    PROVE  \A X \in SUBSET S : g[X] = FromRest(g, f, X)
BY DEF SumsUp

(* What is picked from a set is in it.                                     *)
LEMMA PickIn ==
    ASSUME NEW S, S # {}
    PROVE  Pick(S) \in S
BY DEF Pick

(* A set without the element picked from it is a smaller one.              *)
LEMMA Smaller ==
    ASSUME NEW S, IsFiniteSet(S), S # {}
    PROVE  /\ IsFiniteSet(S \ {Pick(S)})
           /\ Cardinality(S \ {Pick(S)}) < Cardinality(S)
<1>1. Pick(S) \in S
  BY PickIn
<1>2. Cardinality(S) \in Nat /\ Cardinality(S \ {Pick(S)}) = Cardinality(S) - 1
  BY <1>1, FS_CardinalityType, FS_RemoveElement
<1> QED BY <1>2, FS_RemoveElement

(* Two solutions agree where both are defined.                             *)
LEMMA SolutionsAgree ==
    ASSUME NEW f, NEW S, IsFiniteSet(S), NEW g, SumsUp(g, f, S),
           NEW T, NEW h, SumsUp(h, f, T)
    PROVE  \A U : U \subseteq S /\ U \subseteq T => g[U] = h[U]
<1> DEFINE C == {U \in SUBSET S : U \subseteq T /\ g[U] # h[U]}
<1>1. \A U \in C : IsFiniteSet(U)
  BY FS_Subset
<1>2. SUFFICES ASSUME C # {} PROVE FALSE
  OBVIOUS
<1>3. PICK U \in C : \A V \in C : Cardinality(U) <= Cardinality(V)
  <2> HIDE DEF C
  <2> QED BY <1>1, <1>2, SmallestSet
<1>4. /\ g[U] = IF U = {} THEN 0 ELSE f[Pick(U)] + g[U \ {Pick(U)}]
      /\ h[U] = IF U = {} THEN 0 ELSE f[Pick(U)] + h[U \ {Pick(U)}]
  <2>1. \A X \in SUBSET S : g[X] = FromRest(g, f, X)
    BY SolutionAt
  <2>2. \A X \in SUBSET T : h[X] = FromRest(h, f, X)
    BY SolutionAt
  <2> QED BY <2>1, <2>2 DEF FromRest
<1>5. U # {}
  BY <1>4
<1>6. /\ IsFiniteSet(U \ {Pick(U)})
      /\ Cardinality(U \ {Pick(U)}) < Cardinality(U)
  BY <1>1, <1>5, Smaller
<1>7. Cardinality(U) \in Nat /\ Cardinality(U \ {Pick(U)}) \in Nat
  BY <1>1, <1>6, FS_CardinalityType
<1>8. U \ {Pick(U)} \notin C
  BY <1>3, <1>6, <1>7
<1>9. g[U \ {Pick(U)}] = h[U \ {Pick(U)}]
  BY <1>8
<1> QED BY <1>4, <1>9

(* There is one for every finite set.                                      *)
LEMMA SolutionExists ==
    ASSUME NEW f, NEW S, IsFiniteSet(S)
    PROVE  \E g : SumsUp(g, f, S)
<1> DEFINE C == {U \in SUBSET S : ~ \E g : SumsUp(g, f, U)}
<1>1. \A U \in C : IsFiniteSet(U)
  BY FS_Subset
<1>2. SUFFICES ASSUME C # {} PROVE FALSE
  OBVIOUS
<1>3. PICK U \in C : \A V \in C : Cardinality(U) <= Cardinality(V)
  <2> HIDE DEF C
  <2> QED BY <1>1, <1>2, SmallestSet
<1>4. IsFiniteSet(U) /\ ~ \E g : SumsUp(g, f, U)
  BY <1>1
<1> DEFINE W == U \ {Pick(U)}
           Sol(V) == CHOOSE g : SumsUp(g, f, V)
           s == [V \in SUBSET U |-> IF V = U THEN IF U = {} THEN 0 ELSE f[Pick(U)] + Sol(W)[W]
                                    ELSE Sol(V)[V]]
<1>5. ASSUME NEW V \in SUBSET U, V # U
      PROVE  IsFiniteSet(V) /\ SumsUp(Sol(V), f, V)
  <2>1. IsFiniteSet(V) /\ Cardinality(V) <= Cardinality(U) /\ Cardinality(V) # Cardinality(U)
    BY <1>4, <1>5, FS_Subset
  <2>2. Cardinality(V) \in Nat /\ Cardinality(U) \in Nat
    BY <1>4, <2>1, FS_CardinalityType
  <2>3. V \notin C
    BY <1>3, <2>1, <2>2
  <2>4. \E g : SumsUp(g, f, V)
    BY <2>3
  <2> QED BY <2>1, <2>4
<1>6. ASSUME NEW V \in SUBSET U
      PROVE  s[V] = FromRest(s, f, V)
  <2>1. CASE V = U
    <3>1. U # {} => W # U
      BY PickIn
    <3> QED BY <2>1, <3>1 DEF FromRest
  <2>2. CASE V # U
    <3>1. s[V] = Sol(V)[V] /\ SumsUp(Sol(V), f, V) /\ IsFiniteSet(V)
      BY <1>5, <2>2
    <3>2. CASE V = {}
      <4>1. Sol(V)[V] = 0
        BY <3>1, <3>2, SolutionAt DEF FromRest
      <4> QED BY <3>1, <3>2, <4>1 DEF FromRest
    <3>3. CASE V # {}
      <4> DEFINE X == V \ {Pick(V)}
      <4>1. X \subseteq V /\ X # V
        BY <3>3, PickIn
      <4>2. X \in SUBSET U /\ X # U
        BY <2>2, <4>1
      <4>3. s[X] = Sol(X)[X] /\ SumsUp(Sol(X), f, X)
        BY <1>5, <4>2
      <4>4. Sol(V)[V] = f[Pick(V)] + Sol(V)[X]
        <5> HIDE DEF Sol
        <5> QED BY <3>1, <3>3, SolutionAt DEF FromRest
      <4>5. Sol(V)[X] = Sol(X)[X]
        <5> HIDE DEF Sol, X
        <5>1. \A Y : Y \subseteq V /\ Y \subseteq X => Sol(V)[Y] = Sol(X)[Y]
          BY <3>1, <4>3, SolutionsAgree
        <5> QED BY <4>1, <5>1
      <4> QED BY <3>1, <3>3, <4>3, <4>4, <4>5 DEF FromRest
    <3> QED BY <3>2, <3>3
  <2> QED BY <2>1, <2>2 DEF FromRest
<1>7. s = [V \in SUBSET U |-> s[V]]
  OBVIOUS
<1>8. s = [V \in SUBSET U |-> FromRest(s, f, V)]
  <2> HIDE DEF s
  <2> QED BY <1>6, <1>7
<1>9. SumsUp(s, f, U)
  <2> HIDE DEF s
  <2> QED BY <1>8 DEF SumsUp
<1> HIDE DEF s
<1> QED BY <1>4, <1>9

(* The sum over nothing is 0, and over a set, what is picked first and the *)
(* sum over the rest.                                                      *)
LEMMA SumOfNone ==
    ASSUME NEW f PROVE SumFunctionOnSet(f, {}) = 0
<1> DEFINE g == CHOOSE g : SumsUp(g, f, {})
<1>1. SumsUp(g, f, {})
  BY SolutionExists, FS_EmptySet
<1>2. g[{}] = 0
  <2> HIDE DEF g
  <2> QED BY <1>1, SolutionAt DEF FromRest
<1> QED BY <1>2, SumIsSolution

LEMMA SumByPick ==
    ASSUME NEW f, NEW S, IsFiniteSet(S), S # {}
    PROVE  SumFunctionOnSet(f, S)
             = f[Pick(S)] + SumFunctionOnSet(f, S \ {Pick(S)})
<1> DEFINE Sol(V) == CHOOSE g : SumsUp(g, f, V)
           W == S \ {Pick(S)}
<1>1. IsFiniteSet(W)
  BY FS_Subset
<1>2. SumsUp(Sol(S), f, S) /\ SumsUp(Sol(W), f, W)
  <2>1. (\E g : SumsUp(g, f, S)) /\ (\E g : SumsUp(g, f, W))
    BY <1>1, SolutionExists
  <2> QED BY <2>1
<1>3. SumFunctionOnSet(f, S) = Sol(S)[S] /\ SumFunctionOnSet(f, W) = Sol(W)[W]
  BY SumIsSolution
<1>4. Sol(S)[W] = Sol(W)[W]
  <2>1. W \subseteq S
    OBVIOUS
  <2> HIDE DEF Sol, W
  <2>2. \A U : U \subseteq S /\ U \subseteq W => Sol(S)[U] = Sol(W)[U]
    BY <1>2, SolutionsAgree
  <2> QED BY <2>1, <2>2
<1>5. Sol(S)[S] = f[Pick(S)] + Sol(S)[W]
  <2> HIDE DEF Sol
  <2> QED BY <1>2, SolutionAt DEF FromRest
<1> QED BY <1>3, <1>4, <1>5

(* Sums of integers are integers, and depend only on the terms.            *)
LEMMA SumType ==
    ASSUME NEW f, NEW S, IsFiniteSet(S), \A x \in S : f[x] \in Int
    PROVE  SumFunctionOnSet(f, S) \in Int
<1> DEFINE C == {U \in SUBSET S : SumFunctionOnSet(f, U) \notin Int}
<1>1. \A U \in C : IsFiniteSet(U)
  BY FS_Subset
<1>2. SUFFICES ASSUME C # {} PROVE FALSE
  OBVIOUS
<1>3. PICK U \in C : \A V \in C : Cardinality(U) <= Cardinality(V)
  <2> HIDE DEF C
  <2> QED BY <1>1, <1>2, SmallestSet
<1>4. U # {}
  BY SumOfNone
<1> DEFINE W == U \ {Pick(U)}
<1>5. IsFiniteSet(W) /\ Cardinality(W) < Cardinality(U)
  BY <1>1, <1>4, Smaller
<1>6. Cardinality(U) \in Nat /\ Cardinality(W) \in Nat
  BY <1>1, <1>5, FS_CardinalityType
<1>7. W \notin C
  <2> HIDE DEF C
  <2> QED BY <1>3, <1>5, <1>6
<1>8. SumFunctionOnSet(f, W) \in Int
  BY <1>7
<1>9. SumFunctionOnSet(f, U) = f[Pick(U)] + SumFunctionOnSet(f, W)
  BY <1>1, <1>4, SumByPick
<1>10. f[Pick(U)] \in Int
  BY <1>4, PickIn
<1> QED BY <1>8, <1>9, <1>10

LEMMA SumSame ==
    ASSUME NEW f, NEW g, NEW S, IsFiniteSet(S), \A x \in S : f[x] = g[x]
    PROVE  SumFunctionOnSet(f, S) = SumFunctionOnSet(g, S)
<1> DEFINE C == {U \in SUBSET S : SumFunctionOnSet(f, U) # SumFunctionOnSet(g, U)}
<1>1. \A U \in C : IsFiniteSet(U)
  BY FS_Subset
<1>2. SUFFICES ASSUME C # {} PROVE FALSE
  OBVIOUS
<1>3. PICK U \in C : \A V \in C : Cardinality(U) <= Cardinality(V)
  <2> HIDE DEF C
  <2> QED BY <1>1, <1>2, SmallestSet
<1>4. U # {}
  BY SumOfNone
<1> DEFINE W == U \ {Pick(U)}
<1>5. IsFiniteSet(W) /\ Cardinality(W) < Cardinality(U)
  BY <1>1, <1>4, Smaller
<1>6. Cardinality(U) \in Nat /\ Cardinality(W) \in Nat
  BY <1>1, <1>5, FS_CardinalityType
<1>7. W \notin C
  <2> HIDE DEF C
  <2> QED BY <1>3, <1>5, <1>6
<1>8. SumFunctionOnSet(f, W) = SumFunctionOnSet(g, W)
  BY <1>7
<1>9. /\ SumFunctionOnSet(f, U) = f[Pick(U)] + SumFunctionOnSet(f, W)
      /\ SumFunctionOnSet(g, U) = g[Pick(U)] + SumFunctionOnSet(g, W)
  BY <1>1, <1>4, SumByPick
<1>10. f[Pick(U)] = g[Pick(U)]
  BY <1>4, PickIn
<1> QED BY <1>8, <1>9, <1>10

(* Any element can be taken out of the sum, not only the one picked first. *)
LEMMA SumWithout ==
    ASSUME NEW f, NEW S, IsFiniteSet(S), \A x \in S : f[x] \in Int
    PROVE  \A x \in S : SumFunctionOnSet(f, S) = f[x] + SumFunctionOnSet(f, S \ {x})
<1> DEFINE Bad(U) == \E x \in U : SumFunctionOnSet(f, U) # f[x] + SumFunctionOnSet(f, U \ {x})
           C == {U \in SUBSET S : Bad(U)}
<1>1. \A U \in C : IsFiniteSet(U)
  BY FS_Subset
<1>2. SUFFICES ASSUME C # {} PROVE FALSE
  OBVIOUS
<1>3. PICK U \in C : \A V \in C : Cardinality(U) <= Cardinality(V)
  <2> HIDE DEF C
  <2> QED BY <1>1, <1>2, SmallestSet
<1>4. PICK x \in U : SumFunctionOnSet(f, U) # f[x] + SumFunctionOnSet(f, U \ {x})
  OBVIOUS
<1>5. U \in SUBSET S /\ IsFiniteSet(U) /\ U # {}
  BY <1>1
<1> DEFINE y == Pick(U)
           W == U \ {y}
<1>6. y \in U
  BY <1>5, PickIn
<1>7. SumFunctionOnSet(f, U) = f[y] + SumFunctionOnSet(f, W)
  BY <1>5, SumByPick
<1>8. x # y
  BY <1>4, <1>7
<1>9. \A V : V \subseteq U /\ V # U => ~Bad(V)
  <2> SUFFICES ASSUME NEW V, V \subseteq U, V # U, Bad(V) PROVE FALSE
    OBVIOUS
  <2>1. V \in C /\ V \in SUBSET U
    BY <1>5
  <2>2. Cardinality(V) <= Cardinality(U) /\ Cardinality(V) # Cardinality(U) /\ IsFiniteSet(V)
    BY <1>5, <2>1, FS_Subset
  <2>3. Cardinality(V) \in Nat /\ Cardinality(U) \in Nat
    BY <1>5, <2>2, FS_CardinalityType
  <2> HIDE DEF C
  <2> QED BY <1>3, <2>1, <2>2, <2>3
<1>10. SumFunctionOnSet(f, W) = f[x] + SumFunctionOnSet(f, W \ {x})
  <2>1. x \in W /\ W \subseteq U /\ W # U
    BY <1>6, <1>8
  <2>2. ~Bad(W)
    <3> HIDE DEF Bad, W
    <3> QED BY <1>9, <2>1
  <2> HIDE DEF W
  <2> QED BY <2>1, <2>2
<1> DEFINE X == U \ {x}
<1>11. SumFunctionOnSet(f, X) = f[y] + SumFunctionOnSet(f, X \ {y})
  <2>1. y \in X /\ X \subseteq U /\ X # U
    BY <1>6, <1>8
  <2>2. ~Bad(X)
    <3> HIDE DEF Bad, X
    <3> QED BY <1>9, <2>1
  <2> HIDE DEF X, y
  <2> QED BY <2>1, <2>2
<1>12. W \ {x} = X \ {y}
  OBVIOUS
<1>13. f[x] \in Int /\ f[y] \in Int /\ SumFunctionOnSet(f, W \ {x}) \in Int
  <2>1. W \ {x} \in SUBSET S /\ IsFiniteSet(W \ {x})
    BY <1>5, FS_Subset
  <2>2. SumFunctionOnSet(f, W \ {x}) \in Int
    <3> DEFINE Z == W \ {x}
    <3>1. Z \in SUBSET S /\ IsFiniteSet(Z)
      BY <2>1
    <3> HIDE DEF Z
    <3>2. SumFunctionOnSet(f, Z) \in Int
      BY <3>1, SumType
    <3> QED BY <3>2 DEF Z
  <2> HIDE DEF y
  <2> QED BY <1>5, <1>6, <2>2
<1>14. SumFunctionOnSet(f, U) # f[x] + SumFunctionOnSet(f, X)
  BY <1>4
<1> DEFINE Z == SumFunctionOnSet(f, W \ {x})
<1>15. SumFunctionOnSet(f, W) = f[x] + Z /\ SumFunctionOnSet(f, X) = f[y] + Z /\ Z \in Int
  BY <1>10, <1>11, <1>12, <1>13
<1> HIDE DEF W, X, y, Z
<1>16. SumFunctionOnSet(f, U) = f[y] + (f[x] + Z)
  BY <1>7, <1>15
<1>17. SumFunctionOnSet(f, U) # f[x] + (f[y] + Z)
  BY <1>14, <1>15
<1> QED BY <1>13, <1>15, <1>16, <1>17

(* An element more: its term more.                                         *)
LEMMA SumWith ==
    ASSUME NEW f, NEW S, IsFiniteSet(S), NEW x, x \notin S,
           \A z \in S \cup {x} : f[z] \in Int
    PROVE  SumFunctionOnSet(f, S \cup {x}) = SumFunctionOnSet(f, S) + f[x]
<1> DEFINE U == S \cup {x}
<1>1. IsFiniteSet(U) /\ x \in U /\ U \ {x} = S
  BY FS_AddElement
<1>2. SumFunctionOnSet(f, U) = f[x] + SumFunctionOnSet(f, S)
  <2>1. \A z \in U : f[z] \in Int
    OBVIOUS
  <2> HIDE DEF U
  <2>2. SumFunctionOnSet(f, U) = f[x] + SumFunctionOnSet(f, U \ {x})
    BY <1>1, <2>1, SumWithout
  <2> QED BY <1>1, <2>2
<1>3. SumFunctionOnSet(f, S) \in Int /\ f[x] \in Int
  BY SumType
<1> HIDE DEF U
<1>4. SumFunctionOnSet(f, U) = SumFunctionOnSet(f, S) + f[x]
  BY <1>2, <1>3
<1> QED BY <1>4 DEF U

(* One term changes: so much does the sum.                                 *)
LEMMA SumChanged ==
    ASSUME NEW f, NEW g, NEW S, IsFiniteSet(S), NEW x \in S, NEW d \in Int,
           \A z \in S : f[z] \in Int /\ g[z] = IF z = x THEN f[x] + d ELSE f[z]
    PROVE  SumFunctionOnSet(g, S) = SumFunctionOnSet(f, S) + d
<1> DEFINE W == S \ {x}
<1>1. IsFiniteSet(W) /\ W \subseteq S
  BY FS_Subset
<1>2. \A z \in S : g[z] \in Int
  OBVIOUS
<1>3. SumFunctionOnSet(g, S) = g[x] + SumFunctionOnSet(g, W)
  BY <1>2, SumWithout
<1>4. SumFunctionOnSet(f, S) = f[x] + SumFunctionOnSet(f, W)
  BY SumWithout
<1>5. SumFunctionOnSet(g, W) = SumFunctionOnSet(f, W)
  <2>1. \A z \in W : g[z] = f[z]
    OBVIOUS
  <2> HIDE DEF W
  <2> QED BY <1>1, <2>1, SumSame
<1>6. SumFunctionOnSet(f, W) \in Int
  <2> HIDE DEF W
  <2> QED BY <1>1, SumType
<1> QED BY <1>3, <1>4, <1>5, <1>6

-----------------------------------------------------------------------------
(* The money in the books, added up.                                       *)

SInv == IsFiniteSet(rows) /\ FloatCoversEverything /\ HistoryExplainsState

(* The terms of the sums are integers.                                     *)
LEMMA TermsTyped ==
    ASSUME NEW r \in Requests
    PROVE  /\ credits[r] = Credit(r) /\ credits[r] \in Int
           /\ nets[r] = r.amt - Fee(r) /\ nets[r] \in Int
           /\ fees[r] = Fee(r) /\ fees[r] \in Int
           /\ qtys[r] = r.qty /\ qtys[r] \in Int
BY RequestType DEF credits, nets, fees, qtys

LEMMA InitSInv == Init => SInv
<1> SUFFICES ASSUME Init PROVE SInv
  OBVIOUS
<1>1. rows = {} /\ IsFiniteSet(rows)
  BY FS_EmptySet DEF Init
<1>2. \A f : SumFunctionOnSet(f, {}) = 0
  BY SumOfNone
<1>3. Charges = {} /\ \A x : ChargesAt(x) = {} /\ RowsAt(x) = {} /\ RowsFor(x) = {}
  BY <1>1 DEF Charges, ChargesAt, RowsAt, RowsFor
<1>4. SumFunctionOnSet(balance, Wallets) = 0
  <2> DEFINE z == [w \in Wallets |-> 0]
             B == {U \in SUBSET Wallets : SumFunctionOnSet(z, U) # 0}
  <2>1. SUFFICES ASSUME B # {} PROVE FALSE
    <3>1. balance = z
      BY DEF Init
    <3> QED BY <3>1
  <2>2. \A U \in B : IsFiniteSet(U)
    BY WalletsAssumption, FS_Subset
  <2>3. PICK U \in B : \A V \in B : Cardinality(U) <= Cardinality(V)
    <3> HIDE DEF B
    <3> QED BY <2>1, <2>2, SmallestSet
  <2>4. U # {}
    BY <1>2
  <2>5. IsFiniteSet(U \ {Pick(U)}) /\ Cardinality(U \ {Pick(U)}) < Cardinality(U)
    BY <2>2, <2>4, Smaller
  <2>6. Cardinality(U) \in Nat /\ Cardinality(U \ {Pick(U)}) \in Nat
    BY <2>2, <2>5, FS_CardinalityType
  <2>7. U \ {Pick(U)} \notin B
    <3> HIDE DEF B
    <3> QED BY <2>3, <2>5, <2>6
  <2>8. SumFunctionOnSet(z, U \ {Pick(U)}) = 0
    BY <2>7
  <2>9. SumFunctionOnSet(z, U) = z[Pick(U)] + SumFunctionOnSet(z, U \ {Pick(U)})
    <3> HIDE DEF z
    <3> QED BY <2>2, <2>4, SumByPick
  <2>10. z[Pick(U)] = 0
    BY <2>4, PickIn
  <2> QED BY <2>8, <2>9, <2>10
<1>5. FloatCoversEverything
  <2>1. FLOAT \in Accounts /\ \A m \in Merchants : MERCHANT(m) \in Accounts
    BY DEF Accounts
  <2>2. ledger[FLOAT] = 0 /\ \A m \in Merchants : ledger[MERCHANT(m)] = 0
    BY <2>1 DEF Init
  <2> QED BY <1>2, <1>3, <1>4, <2>2 DEF FloatCoversEverything
<1>6. HistoryExplainsState
  BY <1>2, <1>3, SMTT(30) DEF Init, HistoryExplainsState
<1> QED BY <1>1, <1>5, <1>6 DEF SInv

(* A step that leaves money and rows alone, and moves the shelf and what   *)
(* was supplied to it by as much.                                          *)
LEMMA SInvKept ==
    ASSUME SInv, UNCHANGED moneyVars, TypeOK, TypeOK',
           \A m \in Merchants : stock'[m] - stock[m] = supplied'[m] - supplied[m]
    PROVE  SInv'
<1>1. balance' = balance /\ rows' = rows /\ ledger' = ledger
  BY DEF moneyVars
<1>2. FloatCoversEverything'
  BY <1>1 DEF SInv, FloatCoversEverything, Charges, ChargesAt, nets, fees
<1>3. HistoryExplainsState'
  <2>1. \A w \in Wallets : balance'[w] = SumFunctionOnSet(credits, RowsFor(w))'
    BY <1>1 DEF SInv, HistoryExplainsState, RowsFor, credits
  <2>2. ASSUME NEW m \in Merchants
        PROVE  stock'[m] = supplied'[m] - SumFunctionOnSet(qtys, RowsAt(m))'
    <3>1. SumFunctionOnSet(qtys, RowsAt(m))' = SumFunctionOnSet(qtys, RowsAt(m))
      BY <1>1 DEF RowsAt, qtys
    <3>2. stock[m] = supplied[m] - SumFunctionOnSet(qtys, RowsAt(m))
      BY DEF SInv, HistoryExplainsState
    <3>3. SumFunctionOnSet(qtys, RowsAt(m)) \in Int
      <4>1. IsFiniteSet(RowsAt(m)) /\ RowsAt(m) \subseteq Requests
        BY FS_Subset DEF RowsAt, SInv, TypeOK
      <4> QED BY <4>1, TermsTyped, SumType
    <3>4. stock[m] \in Int /\ supplied[m] \in Int /\ stock'[m] \in Int /\ supplied'[m] \in Int
      BY DEF TypeOK
    <3> QED BY <3>1, <3>2, <3>3, <3>4
  <2> QED BY <2>1, <2>2 DEF HistoryExplainsState
<1> QED BY <1>1, <1>2, <1>3 DEF SInv

(* A row more in a set of rows that asks for its operation, stall or wallet. *)
LEMMA RowAdded ==
    ASSUME NEW f, NEW R, NEW r \in Requests, R \subseteq Requests, IsFiniteSet(R), r \notin R,
           \A q \in Requests : f[q] \in Int
    PROVE  /\ SumFunctionOnSet(f, R) \in Int
           /\ SumFunctionOnSet(f, R \cup {r}) = SumFunctionOnSet(f, R) + f[r]
<1>1. SumFunctionOnSet(f, R) \in Int
  BY SumType
<1>2. SumFunctionOnSet(f, R \cup {r}) = SumFunctionOnSet(f, R) + f[r]
  BY SumWith
<1> QED BY <1>1, <1>2

LEMMA CommitSInv ==
    ASSUME IInv, SInv, NEW h \in Handlers, Commit(h)
    PROVE  SInv'
<1> DEFINE r == req[h]
<1>1. TypeOK /\ TxnsOK
  BY DEF IInv
<1>2. r \in Requests
  BY <1>1, CommitFunded
<1>3. /\ balance' = [balance EXCEPT ![r.w] = @ + Credit(r)]
      /\ stock' = [stock EXCEPT ![r.m] = @ - r.qty]
      /\ ledger' = Posted(ledger, r)
      /\ rows' = rows \cup {r}
      /\ supplied' = supplied
      /\ ~Known(r)
  BY DEF Commit
<1> HIDE DEF r
<1>4. /\ r.op \in Ops /\ r.w \in Wallets /\ r.m \in Merchants
      /\ r.amt \in Nat /\ r.qty \in Nat /\ Credit(r) \in Int /\ Fee(r) \in Int
      /\ r.op # "charge" => r.qty = 0
  BY <1>2, RequestType
<1>5. /\ balance \in [Wallets -> Int] /\ stock \in [Merchants -> Nat]
      /\ supplied \in [Merchants -> Int] /\ ledger \in [Accounts -> Int]
      /\ rows \subseteq Requests /\ IsFiniteSet(rows)
  BY <1>1 DEF TypeOK, SInv
<1>6. r \notin rows
  BY <1>3 DEF Known, RowsOf
<1>7. IsFiniteSet(rows')
  BY <1>3, <1>5, FS_AddElement
<1>8. \A q \in Requests : /\ credits[q] \in Int /\ nets[q] \in Int
                          /\ fees[q] \in Int /\ qtys[q] \in Int
  BY TermsTyped
<1>9. FLOAT \in Accounts /\ \A m \in Merchants : MERCHANT(m) \in Accounts
  BY DEF Accounts
<1>10. \A a \in Accounts : ledger'[a] = ledger[a] + Leg(r, a) /\ ledger[a] \in Int
  BY <1>3, <1>5 DEF Posted
<1>11. FloatCoversEverything'
  <2>1. SumFunctionOnSet(balance, Wallets)' = SumFunctionOnSet(balance, Wallets) + Credit(r)
    <3>1. \A w \in Wallets : /\ balance[w] \in Int
                             /\ balance'[w] = IF w = r.w THEN balance[r.w] + Credit(r) ELSE balance[w]
      BY <1>3, <1>4, <1>5
    <3>2. SumFunctionOnSet(balance', Wallets) = SumFunctionOnSet(balance, Wallets) + Credit(r)
      BY <1>4, <3>1, WalletsAssumption, SumChanged
    <3> QED BY <3>2
  <2>2. SumFunctionOnSet(balance, Wallets) \in Int
    BY <1>5, WalletsAssumption, SumType
  <2>3. /\ IsFiniteSet(Charges) /\ Charges \subseteq Requests /\ r \notin Charges
        /\ SumFunctionOnSet(nets, Charges) \in Int /\ SumFunctionOnSet(fees, Charges) \in Int
        /\ SumFunctionOnSet(nets, Charges \cup {r}) = SumFunctionOnSet(nets, Charges) + nets[r]
        /\ SumFunctionOnSet(fees, Charges \cup {r}) = SumFunctionOnSet(fees, Charges) + fees[r]
    <3>1. IsFiniteSet(Charges) /\ Charges \subseteq Requests /\ r \notin Charges
      BY <1>5, <1>6, FS_Subset DEF Charges
    <3> QED BY <1>2, <1>8, <3>1, RowAdded
  <2>4. Charges' = IF r.op = "charge" THEN Charges \cup {r} ELSE Charges
    BY <1>3 DEF Charges
  <2>5. Leg(r, FLOAT) = IF r.op = "charge" THEN 0 ELSE Credit(r)
    <3>1. FLOAT # WALLET(r.w) /\ FLOAT # MERCHANT(r.m) /\ FLOAT # FEES
      BY DEF FLOAT, WALLET, MERCHANT, FEES
    <3> QED BY <3>1 DEF Leg
  <2>6. ledger[FLOAT] = SumFunctionOnSet(balance, Wallets)
                          + SumFunctionOnSet(nets, Charges) + SumFunctionOnSet(fees, Charges)
    BY DEF SInv, FloatCoversEverything
  <2>7. ledger'[FLOAT] = ledger[FLOAT] + (IF r.op = "charge" THEN 0 ELSE Credit(r))
    BY <1>9, <1>10, <2>5
  <2>8. nets[r] + fees[r] = r.amt /\ nets[r] \in Int /\ fees[r] \in Int
    BY <1>2, <1>4, TermsTyped
  <2>9. r.op = "charge" => Credit(r) = -r.amt
    BY <1>4 DEF Credit
  <2>10. /\ SumFunctionOnSet(nets, Charges)'
              = SumFunctionOnSet(nets, Charges) + (IF r.op = "charge" THEN nets[r] ELSE 0)
         /\ SumFunctionOnSet(fees, Charges)'
              = SumFunctionOnSet(fees, Charges) + (IF r.op = "charge" THEN fees[r] ELSE 0)
    <3>1. /\ SumFunctionOnSet(nets, Charges)' = SumFunctionOnSet(nets, Charges')
          /\ SumFunctionOnSet(fees, Charges)' = SumFunctionOnSet(fees, Charges')
      BY DEF nets, fees
    <3> HIDE DEF Charges
    <3> QED BY <2>3, <2>4, <3>1
  <2>11. ledger'[FLOAT] = (SumFunctionOnSet(balance, Wallets)
                            + SumFunctionOnSet(nets, Charges) + SumFunctionOnSet(fees, Charges))'
    <3> DEFINE B == SumFunctionOnSet(balance, Wallets)
               N == SumFunctionOnSet(nets, Charges)
               F == SumFunctionOnSet(fees, Charges)
    <3>1. B \in Int /\ N \in Int /\ F \in Int
      BY <2>2, <2>3
    <3>2. B' = B + Credit(r) /\ ledger[FLOAT] = B + N + F
      BY <2>1, <2>6
    <3>3. /\ N' = N + (IF r.op = "charge" THEN nets[r] ELSE 0)
          /\ F' = F + (IF r.op = "charge" THEN fees[r] ELSE 0)
      BY <2>10
    <3> HIDE DEF B, N, F
    <3>4. ledger'[FLOAT] = B' + N' + F'
      BY <1>4, <2>7, <2>8, <2>9, <3>1, <3>2, <3>3
    <3> QED BY <3>4 DEF B, N, F
  <2>12. ASSUME NEW m \in Merchants
         PROVE  ledger'[MERCHANT(m)] = -SumFunctionOnSet(nets, ChargesAt(m))'
    <3>1. /\ IsFiniteSet(ChargesAt(m)) /\ ChargesAt(m) \subseteq Requests /\ r \notin ChargesAt(m)
      BY <2>3, FS_Subset DEF ChargesAt
    <3>2. /\ SumFunctionOnSet(nets, ChargesAt(m)) \in Int
          /\ SumFunctionOnSet(nets, ChargesAt(m) \cup {r}) = SumFunctionOnSet(nets, ChargesAt(m)) + nets[r]
      BY <1>2, <1>8, <3>1, RowAdded
    <3>3. ChargesAt(m)' = IF r.op = "charge" /\ r.m = m THEN ChargesAt(m) \cup {r} ELSE ChargesAt(m)
      BY <2>4 DEF ChargesAt
    <3>4. Leg(r, MERCHANT(m)) = IF r.op = "charge" /\ r.m = m THEN Fee(r) - r.amt ELSE 0
      <4>1. MERCHANT(m) # WALLET(r.w) /\ MERCHANT(m) # FLOAT /\ MERCHANT(m) # FEES
        BY DEF FLOAT, WALLET, MERCHANT, FEES
      <4>2. MERCHANT(m) = MERCHANT(r.m) <=> r.m = m
        BY DEF MERCHANT
      <4> QED BY <4>1, <4>2 DEF Leg
    <3>5. ledger'[MERCHANT(m)] = ledger[MERCHANT(m)] + Leg(r, MERCHANT(m))
      BY <1>9, <1>10
    <3>6. ledger[MERCHANT(m)] = -SumFunctionOnSet(nets, ChargesAt(m))
      BY DEF SInv, FloatCoversEverything
    <3>7. SumFunctionOnSet(nets, ChargesAt(m))' = SumFunctionOnSet(nets, ChargesAt(m)')
      BY DEF nets
    <3>8. nets[r] = r.amt - Fee(r)
      BY <1>2, TermsTyped
    <3>9. CASE r.op = "charge" /\ r.m = m
      BY <1>4, <3>2, <3>3, <3>4, <3>5, <3>6, <3>7, <3>8, <3>9
    <3>10. CASE ~(r.op = "charge" /\ r.m = m)
      BY <3>2, <3>3, <3>4, <3>5, <3>6, <3>7, <3>10
    <3> QED BY <3>9, <3>10
  <2> QED BY <2>11, <2>12 DEF FloatCoversEverything
<1>12. HistoryExplainsState'
  <2>1. ASSUME NEW w \in Wallets
        PROVE  balance'[w] = SumFunctionOnSet(credits, RowsFor(w))'
    <3>1. IsFiniteSet(RowsFor(w)) /\ RowsFor(w) \subseteq Requests /\ r \notin RowsFor(w)
      BY <1>5, <1>6, FS_Subset DEF RowsFor
    <3>2. SumFunctionOnSet(credits, RowsFor(w) \cup {r}) = SumFunctionOnSet(credits, RowsFor(w)) + credits[r]
      BY <1>2, <1>8, <3>1, RowAdded
    <3>3. RowsFor(w)' = IF r.w = w THEN RowsFor(w) \cup {r} ELSE RowsFor(w)
      BY <1>3 DEF RowsFor
    <3>4. balance[w] = SumFunctionOnSet(credits, RowsFor(w))
      BY DEF SInv, HistoryExplainsState
    <3>5. SumFunctionOnSet(credits, RowsFor(w))' = SumFunctionOnSet(credits, RowsFor(w)')
      BY DEF credits
    <3>6. balance'[w] = IF r.w = w THEN balance[w] + Credit(r) ELSE balance[w]
      BY <1>3, <1>4, <1>5
    <3>7. credits[r] = Credit(r)
      BY <1>2, TermsTyped
    <3> QED BY <3>2, <3>3, <3>4, <3>5, <3>6, <3>7
  <2>2. ASSUME NEW m \in Merchants
        PROVE  stock'[m] = supplied'[m] - SumFunctionOnSet(qtys, RowsAt(m))'
    <3>1. IsFiniteSet(RowsAt(m)) /\ RowsAt(m) \subseteq Requests /\ r \notin RowsAt(m)
      BY <1>5, <1>6, FS_Subset DEF RowsAt
    <3>2. /\ SumFunctionOnSet(qtys, RowsAt(m)) \in Int
          /\ SumFunctionOnSet(qtys, RowsAt(m) \cup {r}) = SumFunctionOnSet(qtys, RowsAt(m)) + qtys[r]
      BY <1>2, <1>8, <3>1, RowAdded
    <3>3. RowsAt(m)' = IF r.m = m THEN RowsAt(m) \cup {r} ELSE RowsAt(m)
      BY <1>3 DEF RowsAt
    <3>4. stock[m] = supplied[m] - SumFunctionOnSet(qtys, RowsAt(m))
      BY DEF SInv, HistoryExplainsState
    <3>5. SumFunctionOnSet(qtys, RowsAt(m))' = SumFunctionOnSet(qtys, RowsAt(m)')
      BY DEF qtys
    <3>6. stock'[m] = IF r.m = m THEN stock[m] - r.qty ELSE stock[m]
      BY <1>3, <1>4, <1>5
    <3>7. qtys[r] = r.qty /\ supplied[m] \in Int
      BY <1>2, <1>5, TermsTyped
    <3>8. CASE r.m = m
      BY <1>3, <1>4, <3>2, <3>3, <3>4, <3>5, <3>6, <3>7, <3>8
    <3>9. CASE r.m # m
      BY <1>3, <3>3, <3>4, <3>5, <3>6, <3>9
    <3> QED BY <3>8, <3>9
  <2> QED BY <2>1, <2>2 DEF HistoryExplainsState
<1> QED BY <1>7, <1>11, <1>12 DEF SInv

LEMMA NextSInv == IInv /\ SInv /\ [Next]_vars => SInv'
<1> SUFFICES ASSUME IInv, SInv, [Next]_vars PROVE SInv'
  OBVIOUS
<1>1. TypeOK /\ TypeOK'
  BY NextIInv DEF IInv
<1>2. ASSUME UNCHANGED <<moneyVars, stockVars>> PROVE SInv'
  <2>1. stock' = stock /\ supplied' = supplied /\ UNCHANGED moneyVars
    BY <1>2 DEF stockVars
  <2>2. \A m \in Merchants : stock'[m] \in Int /\ supplied'[m] \in Int
    BY <1>1 DEF TypeOK
  <2>3. \A m \in Merchants : stock'[m] - stock[m] = supplied'[m] - supplied[m]
    BY <2>1, <2>2
  <2> QED BY <1>1, <2>1, <2>3, SInvKept
<1>3. ASSUME NEW h \in Handlers, Commit(h) PROVE SInv'
  BY <1>3, CommitSInv
<1>4. ASSUME NEW m \in Merchants,
             Receive(m) \/ WriteOff(m) \/ Count(m) \/ \E to \in Merchants : Transfer(m, to)
      PROVE  SInv'
  <2>1. PICK delta \in [Merchants -> Int] : Moved(delta)
    BY <1>1, <1>4, Movement
  <2>2. \A n \in Merchants : /\ stock'[n] = stock[n] + delta[n] /\ stock[n] \in Int
                             /\ supplied'[n] = supplied[n] + delta[n] /\ supplied[n] \in Int
                             /\ delta[n] \in Int
    BY <1>1, <2>1 DEF Moved, TypeOK
  <2>3. \A n \in Merchants : stock'[n] - stock[n] = supplied'[n] - supplied[n]
    BY <2>2
  <2>4. UNCHANGED moneyVars
    BY <2>1 DEF Moved
  <2> QED BY <1>1, <2>3, <2>4, SInvKept
<1>5. ASSUME NEW h \in Handlers,
             PreCheck(h) \/ Snapshot(h) \/ Retry(h) \/ Duplicate(h) \/ Throw(h)
               \/ Collect(h) \/ Crash(h) \/ \E r \in Requests : Ask(h, r)
      PROVE  SInv'
  <2>1. UNCHANGED <<moneyVars, stockVars>>
    BY <1>5 DEF PreCheck, Snapshot, Retry, Duplicate, Throw, Collect, Crash, Clear, Ask
  <2> QED BY <1>2, <2>1
<1>6. ASSUME NEW m \in Merchants, SetOpen(m) PROVE SInv'
  <2>1. UNCHANGED <<moneyVars, stockVars>>
    BY <1>6 DEF SetOpen
  <2> QED BY <1>2, <2>1
<1>7. CASE UNCHANGED vars
  <2>1. UNCHANGED <<moneyVars, stockVars>>
    BY <1>7 DEF vars
  <2> QED BY <1>2, <2>1
<1> QED BY <1>3, <1>4, <1>5, <1>6, <1>7 DEF Next, Serve

(* In every reachable state the books add up.                              *)
THEOREM BooksInvariance == Spec => []SInv
<1>1. Init => SInv
  BY InitSInv
<1>2. IInv /\ SInv /\ [Next]_vars => SInv'
  BY NextSInv
<1> QED BY <1>1, <1>2, Invariance, PTL DEF Spec

(* The cash of the desks is what is owed to the wallets and the stalls and *)
(* the fees earned, for any number of wallets, stalls and requests.        *)
THEOREM FloatCovers == Spec => []FloatCoversEverything
<1>1. SInv => FloatCoversEverything
  BY DEF SInv
<1> QED BY <1>1, BooksInvariance, PTL

(* The committed rows of a tag add up to its balance, and those of a stall *)
(* account for what left its shelf.                                        *)
THEOREM HistoryExplains == Spec => []HistoryExplainsState
<1>1. SInv => HistoryExplainsState
  BY DEF SInv
<1> QED BY <1>1, BooksInvariance, PTL

-----------------------------------------------------------------------------
(* The implementation of CashlessService.                                  *)

(* What a handler at label l with answer a is to the service.              *)
StOf(l, a) ==
    CASE l = "idle"                     -> "idle"
      [] l = "done"                     -> "answered"
      [] l = "txn" /\ a # "replay"      -> "decided"
      [] OTHER                          -> "asked"

AnsOf(l, a) == IF l = "done" \/ (l = "txn" /\ a # "replay") THEN a ELSE "none"

LEMMA AbstractAt ==
    /\ abstractSt = [g \in Handlers |-> StOf(pc[g], ans[g])]
    /\ abstractAns = [g \in Handlers |-> AnsOf(pc[g], ans[g])]
BY DEF abstractSt, abstractAns, StOf, AnsOf

(* The operators on the data are those of the service.                     *)
LEMMA SameOperators ==
    /\ \A r : Service!Known(r) <=> Known(r)
    /\ \A r : Service!ReplayAnswer(rows, r) = ReplayAnswer(rows, r)
    /\ \A r : Service!Funded(balance, r) <=> Funded(balance, r)
    /\ \A r : Service!InStock(stock, r) <=> InStock(stock, r)
    /\ \A r : Service!Credit(r) = Credit(r)
<1>1. \A r : Service!Key(r) = Key(r)
  BY DEF Service!Key, Key
<1>2. \A r : Service!RowsOf(rows, r) = RowsOf(rows, r)
  BY <1>1 DEF Service!RowsOf, RowsOf
<1>3. \A x, r : Service!Matches(x, r) <=> Matches(x, r)
  BY DEF Service!Matches, Matches
<1>4. \A r : Service!Known(r) <=> Known(r)
  BY <1>2 DEF Service!Known, Known
<1>5. \A r : Service!ReplayAnswer(rows, r) = ReplayAnswer(rows, r)
  BY <1>2, <1>3 DEF Service!ReplayAnswer, ReplayAnswer
<1>6. \A r : Service!Funded(balance, r) <=> Funded(balance, r)
  BY DEF Service!Funded, Funded
<1>7. \A r : Service!InStock(stock, r) <=> InStock(stock, r)
  BY DEF Service!InStock, InStock
<1>8. \A r : Service!Credit(r) = Credit(r)
  BY DEF Service!Credit, Credit
<1> QED BY <1>4, <1>5, <1>6, <1>7, <1>8

(* A handler that goes to a label with an answer goes to their image.      *)
LEMMA AbstractGo ==
    ASSUME TypeOK, NEW h \in Handlers, NEW to, NEW a, Go(h, to, a)
    PROVE  Service!To(h, StOf(to, a), AnsOf(to, a))
<1>1. \A g \in Handlers : /\ pc'[g] = IF g = h THEN to ELSE pc[g]
                          /\ ans'[g] = IF g = h THEN a ELSE ans[g]
  BY DEF Go, TypeOK
<1>2. /\ abstractSt' = [g \in Handlers |-> StOf(pc'[g], ans'[g])]
      /\ abstractAns' = [g \in Handlers |-> AnsOf(pc'[g], ans'[g])]
  BY DEF abstractSt, abstractAns, StOf, AnsOf
<1>3. abstractSt' = [abstractSt EXCEPT ![h] = StOf(to, a)]
  BY <1>1, <1>2, AbstractAt
<1>4. abstractAns' = [abstractAns EXCEPT ![h] = AnsOf(to, a)]
  BY <1>1, <1>2, AbstractAt
<1> QED BY <1>3, <1>4 DEF Service!To

(* When its image is what it was, the service has not moved.               *)
LEMMA AbstractStay ==
    ASSUME TypeOK, NEW h \in Handlers, NEW to, NEW a, Go(h, to, a),
           StOf(to, a) = StOf(pc[h], ans[h]), AnsOf(to, a) = AnsOf(pc[h], ans[h]),
           UNCHANGED <<moneyVars, stockVars, open, req>>
    PROVE  UNCHANGED Service!svars
<1>1. Service!To(h, StOf(to, a), AnsOf(to, a))
  BY AbstractGo
<1>2. abstractSt' = abstractSt /\ abstractAns' = abstractAns
  BY <1>1, AbstractAt DEF Service!To
<1> QED BY <1>2 DEF Service!svars, Service!dataVars, moneyVars, stockVars

LEMMA DataVarsKept ==
    ASSUME UNCHANGED <<moneyVars, stockVars, open>>
    PROVE  UNCHANGED Service!dataVars
BY DEF Service!dataVars, moneyVars, stockVars

(* A snapshot decides: each verdict has its ground at that instant.        *)
LEMMA VerdictGrounded ==
    ASSUME IInv, NEW r \in Requests, Verdict(r) # "replay"
    PROVE  /\ Verdict(r) \in {"go", "refused", "declined", "stockout"}
           /\ Service!Ground(Verdict(r), r)
<1>1. r.op \in Ops /\ r.m \in Merchants /\ (r.op # "charge" => r.qty = 0)
  BY RequestType
<1>2. r.op # "charge" => InStock(stock, r)
  BY <1>1 DEF InStock, IInv, TypeOK
<1>3. Verdict(r) \in {"go", "refused", "declined", "stockout"}
  BY DEF Verdict
<1>4. r.op = "charge" => ~Known(r)
  BY DEF Verdict
<1>5. CASE Verdict(r) = "go"
  <2>1. r.op = "charge" => open[r.m]
    BY <1>5 DEF Verdict
  <2> QED BY <1>5, <2>1 DEF Service!Ground
<1>6. CASE Verdict(r) = "refused"
  <2>1. r.op = "charge" /\ ~open[r.m]
    BY <1>6 DEF Verdict
  <2> QED BY <1>4, <1>6, <2>1, SameOperators DEF Service!Ground
<1>7. CASE Verdict(r) = "declined"
  <2>1. ~Funded(balance, r)
    BY <1>7 DEF Verdict
  <2>2. Known(r) => r.op \in {"withdraw"}
    BY <1>1, <1>4, <2>1 DEF Funded, Ops
  <2> QED BY <1>7, <2>1, <2>2, SameOperators DEF Service!Ground
<1>8. CASE Verdict(r) = "stockout"
  <2>1. ~InStock(stock, r)
    BY <1>8 DEF Verdict
  <2>2. ~Known(r)
    BY <1>2, <1>4, <2>1
  <2> QED BY <1>8, <2>1, <2>2, SameOperators DEF Service!Ground
<1> QED BY <1>3, <1>5, <1>6, <1>7, <1>8

LEMMA CommitPerforms ==
    ASSUME IInv, NEW h \in Handlers, Commit(h)
    PROVE  Service!Perform(h)
<1> DEFINE r == req[h]
<1>1. TypeOK /\ Funded(balance, r) /\ InStock(stock, r)
  BY CommitFunded DEF IInv
<1>2. /\ pc[h] = "txn" /\ ans[h] = "go" /\ ~Known(r)
      /\ balance' = [balance EXCEPT ![r.w] = @ + Credit(r)]
      /\ stock' = [stock EXCEPT ![r.m] = @ - r.qty]
      /\ rows' = rows \cup {r}
      /\ Go(h, "done", "ok")
      /\ open' = open /\ req' = req
  BY DEF Commit
<1>3. abstractSt[h] = "decided" /\ abstractAns[h] = "go"
  BY <1>2, AbstractAt DEF StOf, AnsOf
<1>4. Service!To(h, "answered", "ok")
  BY <1>1, <1>2, AbstractGo DEF StOf, AnsOf
<1> QED BY <1>1, <1>2, <1>3, <1>4, SameOperators DEF Service!Perform

(* Every step is a step of the service or leaves it where it is.           *)
LEMMA HandlerImplements ==
    ASSUME IInv, NEW h \in Handlers, Serve(h) \/ Collect(h) \/ Crash(h)
    PROVE  Service!Next \/ UNCHANGED Service!svars
<1> DEFINE r == req[h]
<1>1. TypeOK /\ TxnOK(h)
  BY DEF IInv, TxnsOK
<1>2. ASSUME Service!Decide(h) \/ Service!Reconsider(h) \/ Service!Refuse(h)
             \/ Service!Perform(h) \/ Service!Replay(h) \/ Service!Leave(h)
      PROVE  Service!Next
  BY <1>2 DEF Service!Next
<1>3. CASE PreCheck(h)
  <2>1. pc[h] = "asked" /\ UNCHANGED <<moneyVars, stockVars, open, req>>
    BY <1>3 DEF PreCheck
  <2>2. CASE Known(r)
    <3>1. Go(h, "done", ReplayAnswer(rows, r))
      BY <1>3, <2>2 DEF PreCheck
    <3>2. Service!To(h, "answered", ReplayAnswer(rows, r))
      BY <1>1, <3>1, AbstractGo DEF StOf, AnsOf
    <3>3. abstractSt[h] = "asked"
      BY <2>1, AbstractAt DEF StOf
    <3>4. Service!Replay(h)
      BY <2>1, <2>2, <3>2, <3>3, DataVarsKept, SameOperators DEF Service!Replay
    <3> QED BY <1>2, <3>4
  <2>3. CASE ~Known(r)
    <3>1. Go(h, "fresh", "none")
      BY <1>3, <2>3 DEF PreCheck
    <3>2. /\ StOf("fresh", "none") = StOf(pc[h], ans[h])
          /\ AnsOf("fresh", "none") = AnsOf(pc[h], ans[h])
      BY <2>1 DEF StOf, AnsOf
    <3> QED BY <1>1, <2>1, <3>1, <3>2, AbstractStay
  <2> QED BY <2>2, <2>3
<1>4. CASE Snapshot(h)
  <2>1. /\ pc[h] = "fresh" /\ Go(h, "txn", Verdict(r))
        /\ UNCHANGED <<moneyVars, stockVars, open, req>>
    BY <1>4 DEF Snapshot
  <2>2. CASE Verdict(r) = "replay"
    <3>1. /\ StOf("txn", Verdict(r)) = StOf(pc[h], ans[h])
          /\ AnsOf("txn", Verdict(r)) = AnsOf(pc[h], ans[h])
      BY <2>1, <2>2 DEF StOf, AnsOf
    <3> QED BY <1>1, <2>1, <3>1, AbstractStay
  <2>3. CASE Verdict(r) # "replay"
    <3>1. /\ Verdict(r) \in {"go", "refused", "declined", "stockout"}
          /\ Service!Ground(Verdict(r), r)
      <4>1. r \in Requests
        BY <1>1, <2>1 DEF TypeOK
      <4> QED BY <2>3, <4>1, VerdictGrounded
    <3>2. Service!To(h, "decided", Verdict(r))
      BY <1>1, <2>1, <2>3, AbstractGo DEF StOf, AnsOf
    <3>3. abstractSt[h] = "asked"
      BY <2>1, AbstractAt DEF StOf
    <3>4. Service!Decide(h)
      BY <2>1, <3>1, <3>2, <3>3, DataVarsKept DEF Service!Decide
    <3> QED BY <1>2, <3>4
  <2> QED BY <2>2, <2>3
<1>5. CASE Retry(h)
  <2>1. /\ pc[h] = "txn" /\ Conflict(h) /\ Go(h, "fresh", "none")
        /\ UNCHANGED <<moneyVars, stockVars, open, req>>
    BY <1>5 DEF Retry
  <2>2. ans[h] # "replay"
    BY <2>1 DEF Conflict, Attempted
  <2>3. abstractSt[h] = "decided"
    BY <2>1, <2>2, AbstractAt DEF StOf
  <2>4. Service!To(h, "asked", "none")
    BY <1>1, <2>1, AbstractGo DEF StOf, AnsOf
  <2>5. Service!Reconsider(h)
    BY <2>1, <2>3, <2>4, DataVarsKept DEF Service!Reconsider
  <2> QED BY <1>2, <2>5
<1>6. CASE Commit(h)
  BY <1>2, <1>6, CommitPerforms
<1>7. CASE Duplicate(h)
  <2>1. /\ pc[h] = "txn" /\ ans[h] = "go" /\ Known(r)
        /\ Go(h, "done", ReplayAnswer(rows, r))
        /\ UNCHANGED <<moneyVars, stockVars, open, req>>
    BY <1>7 DEF Duplicate
  <2>2. abstractSt[h] = "decided"
    BY <2>1, AbstractAt DEF StOf
  <2>3. Service!To(h, "answered", ReplayAnswer(rows, r))
    BY <1>1, <2>1, AbstractGo DEF StOf, AnsOf
  <2>4. Service!Replay(h)
    BY <2>1, <2>2, <2>3, DataVarsKept, SameOperators DEF Service!Replay
  <2> QED BY <1>2, <2>4
<1>8. CASE Throw(h)
  <2> DEFINE a == IF ans[h] = "replay" THEN ReplayAnswer(rows, r) ELSE ans[h]
  <2>1. /\ pc[h] = "txn" /\ ans[h] # "go" /\ Go(h, "done", a)
        /\ UNCHANGED <<moneyVars, stockVars, open, req>>
    BY <1>8 DEF Throw
  <2>2. Service!To(h, "answered", a)
    BY <1>1, <2>1, AbstractGo DEF StOf, AnsOf
  <2>3. CASE ans[h] = "replay"
    <3>1. abstractSt[h] = "asked" /\ Known(r)
      BY <1>1, <2>1, <2>3, AbstractAt DEF StOf, TxnOK
    <3>2. Service!Replay(h)
      BY <2>1, <2>2, <2>3, <3>1, DataVarsKept, SameOperators DEF Service!Replay
    <3> QED BY <1>2, <3>2
  <2>4. CASE ans[h] # "replay"
    <3>1. abstractSt[h] = "decided" /\ abstractAns[h] = ans[h]
      BY <2>1, <2>4, AbstractAt DEF StOf, AnsOf
    <3>2. Service!Refuse(h)
      BY <2>1, <2>2, <2>4, <3>1, DataVarsKept DEF Service!Refuse
    <3> QED BY <1>2, <3>2
  <2> QED BY <2>3, <2>4
<1>9. CASE Collect(h) \/ Crash(h)
  <2>1. pc[h] # "idle" /\ Clear(h)
    BY <1>9 DEF Collect, Crash
  <2>2. /\ Go(h, "idle", "none") /\ req' = [req EXCEPT ![h] = NoReq]
        /\ UNCHANGED <<moneyVars, stockVars, open>>
    BY <2>1 DEF Clear
  <2>3. abstractSt[h] # "idle"
    BY <2>1, AbstractAt DEF StOf
  <2>4. Service!To(h, "idle", "none")
    BY <1>1, <2>2, AbstractGo DEF StOf, AnsOf
  <2>5. Service!Leave(h)
    BY <2>2, <2>3, <2>4, DataVarsKept DEF Service!Leave
  <2> QED BY <1>2, <2>5
<1> QED BY <1>3, <1>4, <1>5, <1>6, <1>7, <1>8, <1>9 DEF Serve

LEMMA InitImplements == Init => Service!Init
BY DEF Init, Service!Init, abstractSt, abstractAns

(* The handlers' part of the service does not see the rest of the system.  *)
LEMMA HandlersKept ==
    ASSUME pc' = pc, ans' = ans
    PROVE  abstractSt' = abstractSt /\ abstractAns' = abstractAns
BY DEF abstractSt, abstractAns

LEMMA NextImplements == IInv /\ [Next]_vars => [Service!Next]_(Service!svars)
<1> SUFFICES ASSUME IInv, [Next]_vars
             PROVE  Service!Next \/ UNCHANGED Service!svars
  OBVIOUS
<1>1. CASE UNCHANGED vars
  BY <1>1, HandlersKept
  DEF vars, moneyVars, stockVars, jobVars, Service!svars, Service!dataVars
<1>2. ASSUME NEW h \in Handlers, NEW r \in Requests, Ask(h, r) PROVE Service!Next
  <2>1. /\ pc[h] = "idle" /\ Go(h, "asked", "none") /\ req' = [req EXCEPT ![h] = r]
        /\ UNCHANGED <<moneyVars, stockVars, open>>
    BY <1>2 DEF Ask
  <2>2. abstractSt[h] = "idle"
    BY <2>1, AbstractAt DEF StOf
  <2>3. Service!To(h, "asked", "none")
    BY <2>1, AbstractGo DEF StOf, AnsOf, IInv
  <2>4. Service!Ask(h, r)
    BY <2>1, <2>2, <2>3, DataVarsKept DEF Service!Ask
  <2> QED BY <2>4 DEF Service!Next
<1>3. ASSUME NEW h \in Handlers, Serve(h) \/ Collect(h) \/ Crash(h)
      PROVE  Service!Next \/ UNCHANGED Service!svars
  BY <1>3, HandlerImplements
<1>4. ASSUME NEW m \in Merchants,
             Receive(m) \/ WriteOff(m) \/ Count(m) \/ \E to \in Merchants : Transfer(m, to)
      PROVE  Service!Next
  <2>1. PICK delta \in [Merchants -> Int] : Moved(delta)
    BY <1>4, Movement DEF IInv
  <2>2. TypeOK'
    BY <1>4, MovementStep DEF IInv
  <2>3. stock' \in [Merchants -> Nat]
    BY <2>2 DEF TypeOK
  <2>4. UNCHANGED <<balance, rows, open, pc, req, ans>>
    BY <2>1 DEF Moved, moneyVars
  <2>5. abstractSt' = abstractSt /\ abstractAns' = abstractAns
    BY <2>4, HandlersKept
  <2> QED BY <2>3, <2>4, <2>5 DEF Service!Next, Service!Supply
<1>5. ASSUME NEW m \in Merchants, SetOpen(m) PROVE Service!Next
  <2>1. open' = [open EXCEPT ![m] = ~@] /\ UNCHANGED <<moneyVars, stockVars, jobVars>>
    BY <1>5 DEF SetOpen
  <2>2. open' \in [Merchants -> BOOLEAN]
    BY <2>1 DEF IInv, TypeOK
  <2>3. abstractSt' = abstractSt /\ abstractAns' = abstractAns
    BY <2>1, HandlersKept DEF jobVars
  <2> QED BY <2>1, <2>2, <2>3
          DEF Service!Next, Service!SetOpen, moneyVars, stockVars, jobVars
<1> QED BY <1>1, <1>2, <1>3, <1>4, <1>5 DEF Next

(* The overlapping, retried transactions keep the promise of CashlessService: *)
(* one effect for each key, in one instant, and no answer without a ground.  *)
THEOREM Implementation == Spec => AnsweredOnce
<1>1. Init => Service!Init
  BY InitImplements
<1>2. IInv /\ [Next]_vars => [Service!Next]_(Service!svars)
  BY NextImplements
<1> QED BY <1>1, <1>2, Invariance, PTL DEF Spec, AnsweredOnce, Service!Spec
=============================================================================
