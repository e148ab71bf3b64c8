------------------------------ MODULE TableTabs ------------------------------
(***************************************************************************)
(* Table service: waiters put the lines of several stalls on a tab, and    *)
(* one tap of a tag settles it.  A settlement reads and prices the tab,    *)
(* finds the wallet and looks at its balance before the transaction that   *)
(* moves the money; between these reads other waiters change the tab, the  *)
(* guest spends elsewhere, the tag is reissued, and the same settlement is *)
(* sent again.  A transaction is one step: every document it reads it also *)
(* writes, by a filter, and a write conflict makes it run again.           *)
(***************************************************************************)
EXTENDS Integers, FiniteSets, FiniteSetsExt

CONSTANTS Tables, Stalls, Lines, Wallets, Tags,
          Requests,    \* settlements a handheld may send: records x, u, id
          Prices,      \* what a line may cost, in cents
          Pct,         \* commissionPercent of each stall
          Funds,       \* what every tag holds at first
          Shelf,       \* what every stall has on its shelf at first
          Handlers,    \* settlements in service at the same time
          None,        \* no tag, no wallet, no id, no request
          MaxAsks,     \* bound: settlements sent
          MaxEdits,    \* bound: lines put on the tabs or taken off them
          MaxMoves     \* bound: payments elsewhere and reissues of a tag

ASSUME BoundsAssumption == {Funds, Shelf, MaxAsks, MaxEdits, MaxMoves} \subseteq Nat
ASSUME PricesAssumption == Prices \subseteq Nat /\ IsFiniteSet(Lines)
ASSUME PctAssumption == Pct \in [Stalls -> 0..100] /\ IsFiniteSet(Stalls)
ASSUME RequestsAssumption ==
    \A r \in Requests : r.x \in Tables /\ r.u \in Tags /\ r.id # None
ASSUME WalletsAssumption ==
    /\ IsFiniteSet(Wallets) /\ IsFiniteSet(Tags)
    /\ Cardinality(Wallets) <= Cardinality(Tags)

VARIABLES
    tab,       \* Table: status, items, subtotal, revision, walletId, settleTxnId
    line,      \* the line items ever added: stall and price
    handover,  \* Table.fulfilment
    stock,     \* ProductStock.onHand of each stall
    balance,   \* Wallet.balance
    band,      \* Wallet.bandUid
    charges,   \* the committed MerchantCharge rows of table settlements
    ledger,    \* sum of the LedgerEntry rows of each account
    job,       \* per handler: its request and what it has read
    asked,     \* settlements sent
    moved      \* payments elsewhere and reissues

floorVars == <<tab, line, handover, stock>>
moneyVars == <<balance, charges, ledger>>
vars      == <<floorVars, moneyVars, band, job, asked, moved>>

Statuses == {"none", "open", "settled", "voided"}
Answers  == {"none", "ok", "mismatch", "refused", "notfound", "short", "changed", "conflict"}
Rows     == {"none", "paid", "handed_out", "collected"}
Ids      == {r.id : r \in Requests}

FLOAT == <<"FLOAT", "">>
FEES  == <<"FEES", "">>
WALLET(w)   == <<"WALLET", w>>
MERCHANT(s) == <<"MERCHANT", s>>
Accounts == {FLOAT, FEES} \cup {WALLET(w) : w \in Wallets} \cup {MERCHANT(s) : s \in Stalls}

Line   == [stall : Stalls \cup {None}, price : Prices \cup {0}]
NoLine == [stall |-> None, price |-> 0]

Tab == [status : Statuses, items : SUBSET Lines, subtotal : Int, revision : Nat,
        walletId : Wallets \cup {None}, settleTxnId : Ids \cup {None}]

NoTab == [status |-> "none", items |-> {}, subtotal |-> 0, revision |-> 0,
          walletId |-> None, settleTxnId |-> None]

Charge == [x : Tables, s : Stalls, id : Ids, w : Wallets, gross : Nat, fee : Nat]

\* read: the tab as it was read; tapped: the wallet found; wore: the wallets
\* that have worn the tag since; raced: the same id committed since.
Job == [at : {"idle", "sent", "priced", "tapped", "done"}, r : Requests \cup {None},
        read : Tab, tapped : Wallets \cup {None}, ans : Answers,
        wore : SUBSET Wallets, raced : BOOLEAN]

Idle == [at |-> "idle", r |-> None, read |-> NoTab, tapped |-> None, ans |-> "none",
         wore |-> {}, raced |-> FALSE]

Total(ls) == SumFunctionOnSet([l \in Lines |-> line[l].price], ls)
At(ls, s) == {l \in ls : line[l].stall = s}
Wearers(u) == {w \in Wallets : band[w] = u}

Init ==
    /\ tab = [x \in Tables |-> NoTab]
    /\ line = [l \in Lines |-> NoLine]
    /\ handover = [x \in Tables |-> [s \in Stalls |-> "none"]]
    /\ stock = [s \in Stalls |-> Shelf]
    /\ balance = [w \in Wallets |-> Funds]
    /\ band \in {f \in [Wallets -> Tags] : \A v, w \in Wallets : v # w => f[v] # f[w]}
    /\ charges = {}
    /\ ledger = [a \in Accounts |->
                   CASE a = FLOAT       -> Funds * Cardinality(Wallets)
                     [] a[1] = "WALLET" -> -Funds
                     [] OTHER           -> 0]
    /\ job = [h \in Handlers |-> Idle]
    /\ asked = 0 /\ moved = 0

-----------------------------------------------------------------------------
(* The waiters.                                                            *)

openTable(x) ==
    /\ tab[x].status = "none"
    /\ tab' = [tab EXCEPT ![x].status = "open"]
    /\ UNCHANGED <<line, handover, stock, moneyVars, band, job, asked, moved>>

\* Within the bound of the model.
Edited == SumFunctionOnSet([x \in Tables |-> tab[x].revision], Tables)

Fresh(l) == \A x \in Tables : l \notin tab[x].items

\* A line and its stock, in one transaction; a line has an id of its own.
addItem(x, l, s, p) ==
    /\ tab[x].status = "open" /\ Edited < MaxEdits
    /\ Fresh(l) /\ stock[s] >= 1
    /\ \A h \in Handlers : l \notin job[h].read.items
    /\ line' = [line EXCEPT ![l] = [stall |-> s, price |-> p]]
    /\ tab' = [tab EXCEPT ![x].items = @ \cup {l}, ![x].subtotal = @ + p, ![x].revision = @ + 1]
    /\ stock' = [stock EXCEPT ![s] = @ - 1]
    /\ UNCHANGED <<handover, moneyVars, band, job, asked, moved>>

\* Mutant: the stock does not come back.
removeItemOnly(x, l) ==
    /\ tab[x].status = "open" /\ Edited < MaxEdits
    /\ l \in tab[x].items
    /\ tab' = [tab EXCEPT ![x].items = @ \ {l}, ![x].subtotal = @ - line[l].price,
                          ![x].revision = @ + 1]
    /\ UNCHANGED <<line, handover, stock, moneyVars, band, job, asked, moved>>

\* The line off the tab and its stock back, in one transaction.
removeItem(x, l) ==
    /\ tab[x].status = "open" /\ Edited < MaxEdits
    /\ l \in tab[x].items
    /\ tab' = [tab EXCEPT ![x].items = @ \ {l}, ![x].subtotal = @ - line[l].price,
                          ![x].revision = @ + 1]
    /\ stock' = [stock EXCEPT ![line[l].stall] = @ + 1]
    /\ UNCHANGED <<line, handover, moneyVars, band, job, asked, moved>>

\* A walked table keeps its lines: nothing goes back on the shelf.
voidTable(x) ==
    /\ tab[x].status = "open"
    /\ tab' = [tab EXCEPT ![x].status = "voided"]
    /\ UNCHANGED <<line, handover, stock, moneyVars, band, job, asked, moved>>

advanceFulfilment(x, s, from, to) ==
    /\ tab[x].status = "settled" /\ handover[x][s] = from
    /\ handover' = [handover EXCEPT ![x][s] = to]
    /\ UNCHANGED <<tab, line, stock, moneyVars, band, job, asked, moved>>

handOut(x, s) == advanceFulfilment(x, s, "paid", "handed_out")
accept(x, s)  == advanceFulfilment(x, s, "handed_out", "collected")

-----------------------------------------------------------------------------
(* Elsewhere.                                                              *)

\* A stall's own till charges the wallet.
Spend(w, s, n) ==
    /\ moved < MaxMoves /\ moved' = moved + 1
    /\ balance[w] >= n
    /\ balance' = [balance EXCEPT ![w] = @ - n]
    /\ ledger' = [ledger EXCEPT ![WALLET(w)] = @ + n, ![MERCHANT(s)] = @ - n]
    /\ UNCHANGED <<floorVars, charges, band, job, asked>>

\* The tag of a wallet is taken off or another one given: see Bands.
Rebind(w, u) ==
    /\ moved < MaxMoves /\ moved' = moved + 1
    /\ u # band[w] /\ (u # None => Wearers(u) = {})
    /\ band' = [band EXCEPT ![w] = u]
    /\ job' = [h \in Handlers |->
                 IF job[h].at # "idle" /\ job[h].r.u = u
                 THEN [job[h] EXCEPT !.wore = @ \cup {w}] ELSE job[h]]
    /\ UNCHANGED <<floorVars, moneyVars, asked>>

-----------------------------------------------------------------------------
(* Settling.                                                               *)

Ask(h, r) ==
    /\ job[h].at = "idle" /\ asked < MaxAsks /\ asked' = asked + 1
    /\ job' = [job EXCEPT ![h] = [Idle EXCEPT !.at = "sent", !.r = r, !.wore = Wearers(r.u)]]
    /\ UNCHANGED <<floorVars, moneyVars, band, moved>>

Answered(h, a) == job' = [job EXCEPT ![h].at = "done", ![h].ans = a]

\* Mutant: whoever taps is told the tab is paid.
replaySettlementToAnyone(r) ==
    IF tab[r.x].status # "settled" \/ tab[r.x].settleTxnId # r.id THEN "refused" ELSE "ok"

\* replaySettlement: the same id and, today, the same tag; otherwise refused.
replaySettlement(r) ==
    LET t == tab[r.x] IN
    IF t.status # "settled" \/ t.settleTxnId # r.id THEN "refused"
    ELSE IF band[t.walletId] = r.u THEN "ok" ELSE "mismatch"

\* Mutant: a settled tab is refused to everybody.
ReadTableNoReplay(h) ==
    LET t == tab[job[h].r.x] IN
    /\ job[h].at = "sent"
    /\ IF t.status # "open" \/ Total(t.items) <= 0 THEN Answered(h, "refused")
       ELSE job' = [job EXCEPT ![h].at = "priced", ![h].read = t]
    /\ UNCHANGED <<floorVars, moneyVars, band, asked, moved>>

\* The tab is read and shared out by stall.
ReadTable(h) ==
    LET r == job[h].r
        t == tab[r.x]
    IN
    /\ job[h].at = "sent"
    /\ IF t.status # "open" THEN Answered(h, replaySettlement(r))
       ELSE IF Total(t.items) <= 0 THEN Answered(h, "refused")
       ELSE job' = [job EXCEPT ![h].at = "priced", ![h].read = t]
    /\ UNCHANGED <<floorVars, moneyVars, band, asked, moved>>

\* The wallet of the tag, and its balance before the transaction.
TapTag(h) ==
    LET ws == Wearers(job[h].r.u) IN
    /\ job[h].at = "priced"
    /\ IF ws = {} THEN Answered(h, "notfound")
       ELSE \E w \in ws : IF balance[w] < Total(job[h].read.items) THEN Answered(h, "short")
                          ELSE job' = [job EXCEPT ![h].at = "tapped", ![h].tapped = w]
    /\ UNCHANGED <<floorVars, moneyVars, band, asked, moved>>

Fee(s, gross) == (gross * Pct[s]) \div 100

\* The shares of the stalls that are owed anything.
shareOutByStall(x, id, w, ls) ==
    {[x |-> x, s |-> s, id |-> id, w |-> w, gross |-> Total(At(ls, s)),
      fee |-> Fee(s, Total(At(ls, s)))] : s \in {s \in Stalls : Total(At(ls, s)) > 0}}

FeeOf(ls) == [s \in Stalls |-> Fee(s, Total(At(ls, s)))]
Net(ls)   == [s \in Stalls |-> Total(At(ls, s)) - Fee(s, Total(At(ls, s)))]

\* One balanced entry: the wallet's total, every stall's net and the fees.
Posting(ls, w) ==
    [a \in Accounts |->
       CASE a = WALLET(w)     -> Total(ls)
         [] a = FEES          -> -SumFunctionOnSet(FeeOf(ls), Stalls)
         [] a[1] = "MERCHANT" -> -Net(ls)[a[2]]
         [] OTHER             -> 0]

\* Mutant: the revision is not part of the filter.
UnchangedBySum(t, read) == t.status = "open" /\ t.subtotal = read.subtotal
                             /\ Cardinality(t.items) = Cardinality(read.items)

\* The filter of the flip: the tab is still the one that was priced.
AsPriced(t, read) ==
    /\ t.status = "open" /\ t.revision = read.revision
    /\ t.subtotal = read.subtotal /\ Cardinality(t.items) = Cardinality(read.items)

Debitable(w, total) == balance[w] >= total

\* The transaction, when it commits.
Settle(h) ==
    LET r == job[h].r
        w == job[h].tapped
        t == tab[r.x]
        total  == Total(job[h].read.items)
        shares == shareOutByStall(r.x, r.id, w, job[h].read.items)
    IN
    /\ job[h].at = "tapped"
    /\ AsPriced(t, job[h].read) /\ Debitable(w, total)
    /\ ~\E c \in charges, d \in shares : c.s = d.s /\ c.id = d.id
    /\ tab' = [tab EXCEPT ![r.x].status = "settled", ![r.x].walletId = w,
                          ![r.x].settleTxnId = r.id]
    /\ handover' = [handover EXCEPT ![r.x] = [s \in Stalls |->
                        IF \E c \in shares : c.s = s THEN "paid" ELSE "none"]]
    /\ balance' = [balance EXCEPT ![w] = @ - total]
    /\ charges' = charges \cup shares
    /\ ledger' = [a \in Accounts |-> ledger[a] + Posting(job[h].read.items, w)[a]]
    /\ job' = [g \in Handlers |->
                 IF g = h THEN [job[g] EXCEPT !.at = "done", !.ans = "ok"]
                 ELSE IF job[g].at # "idle" /\ job[g].r.x = r.x /\ job[g].r.id = r.id
                 THEN [job[g] EXCEPT !.raced = TRUE] ELSE job[g]]
    /\ UNCHANGED <<line, stock, band, asked, moved>>

\* The transaction aborts, and nothing of it stays.
Abort(h) ==
    LET r == job[h].r
        t == tab[r.x]
        shares == shareOutByStall(r.x, r.id, job[h].tapped, job[h].read.items)
    IN
    /\ job[h].at = "tapped"
    /\ IF t.status # "open" THEN Answered(h, replaySettlement(r))
       ELSE IF ~AsPriced(t, job[h].read) THEN Answered(h, "changed")
       ELSE IF ~Debitable(job[h].tapped, Total(job[h].read.items)) THEN Answered(h, "short")
       ELSE /\ \E c \in charges, d \in shares : c.s = d.s /\ c.id = d.id
            /\ Answered(h, "conflict")
    /\ UNCHANGED <<floorVars, moneyVars, band, asked, moved>>

\* The answer reaches the handheld or is lost: it may send the request again.
Return(h) ==
    /\ job[h].at = "done"
    /\ job' = [job EXCEPT ![h] = Idle]
    /\ UNCHANGED <<floorVars, moneyVars, band, asked, moved>>

-----------------------------------------------------------------------------
Waiters(x) ==
    \/ openTable(x) \/ voidTable(x)
    \/ \E l \in Lines : removeItem(x, l) \/ \E s \in Stalls, p \in Prices : addItem(x, l, s, p)
    \/ \E s \in Stalls : handOut(x, s) \/ accept(x, s)

Next ==
    \/ \E x \in Tables : Waiters(x)
    \/ \E w \in Wallets : \/ \E u \in Tags \cup {None} : Rebind(w, u)
                          \/ \E s \in Stalls : Spend(w, s, 1)
    \/ \E h \in Handlers : \/ \E r \in Requests : Ask(h, r)
                           \/ ReadTable(h) \/ TapTag(h) \/ Settle(h) \/ Abort(h) \/ Return(h)

Spec == Init /\ [][Next]_vars

-----------------------------------------------------------------------------
(* Properties.                                                             *)

TypeOK ==
    /\ tab \in [Tables -> Tab]
    /\ line \in [Lines -> Line]
    /\ handover \in [Tables -> [Stalls -> Rows]]
    /\ stock \in [Stalls -> Int]
    /\ balance \in [Wallets -> Int]
    /\ band \in [Wallets -> Tags \cup {None}]
    /\ charges \subseteq Charge
    /\ ledger \in [Accounts -> Int]
    /\ job \in [Handlers -> Job]
    /\ asked \in 0..MaxAsks /\ moved \in 0..MaxMoves

Of(x) == {c \in charges : c.x = x}

\* Whatever waiters, tills and repeated settlements do at the same time, a
\* settled tab has been charged once, to one tag, for the lines that are on it,
\* every stall for its own; and a tab that is not settled has charged nobody.
TabsAddUp ==
    \A x \in Tables :
        /\ tab[x].subtotal = Total(tab[x].items)
        /\ Of(x) = IF tab[x].status = "settled"
                   THEN shareOutByStall(x, tab[x].settleTxnId, tab[x].walletId, tab[x].items)
                   ELSE {}

\* No tap takes a wallet below zero, every entry is balanced, and the ledger
\* tells the balance of every wallet.
MoneyAddsUp ==
    /\ SumFunctionOnSet(ledger, Accounts) = 0
    /\ \A w \in Wallets : balance[w] >= 0 /\ ledger[WALLET(w)] = -balance[w]

\* The books of the floor: the tabs agree with the charges, the charges with the
\* ledger, and the ledger with the wallets.
BooksAddUp == TabsAddUp /\ MoneyAddsUp

\* What is not on the shelf of a stall is on a tab: a line that is removed comes
\* back once, a walked table does not.
ShelfAddsUp ==
    \A s \in Stalls :
        stock[s] = Shelf - Cardinality(At(UNION {tab[x].items : x \in Tables}, s))

\* An answer "paid" is about this tap: the tab is settled under this id, on a
\* wallet that has worn the tapped tag since the request was sent.
PaidIsThisTap ==
    \A h \in Handlers : job[h].ans = "ok" =>
        /\ tab[job[h].r.x].settleTxnId = job[h].r.id
        /\ tab[job[h].r.x].walletId \in job[h].wore

\* Any other answer leaves the guest uncharged under this id, unless the tag has
\* been reissued since or the charge was made while the request was in service.
RefusedIsUncharged ==
    \A h \in Handlers :
        /\ job[h].ans \in Answers \ {"none", "ok", "mismatch"}
        /\ tab[job[h].r.x].settleTxnId = job[h].r.id
        => job[h].raced

\* "A retry replays the committed charges."
ChargedIsNotRefused ==
    \A h \in Handlers :
        job[h].ans = "short" => tab[job[h].r.x].settleTxnId # job[h].r.id
=============================================================================
