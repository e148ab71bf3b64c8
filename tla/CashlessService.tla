--------------------------- MODULE CashlessService ---------------------------
(***************************************************************************)
(* What the money endpoints promise to the desks and tills, with no        *)
(* transaction in sight.  A request has its effect in one instant, at most *)
(* once for each key, when the wallet covers it and the stall holds the    *)
(* goods.  A repeat is answered with the committed outcome.  A refusal     *)
(* says what was true at one instant between the arrival of the request    *)
(* and its answer, and has no effect.                                      *)
(***************************************************************************)
EXTENDS CashlessOps

CONSTANTS Handlers,    \* requests in service at the same time
          NoReq,       \* "no request"
          Blind        \* operations that may be declined though committed

VARIABLES balance, stock, open, rows,
          st,          \* per handler: idle, asked, decided or answered
          req, ans     \* its request, and what was decided or answered

dataVars == <<balance, stock, open, rows>>
svars    == <<dataVars, st, req, ans>>

Init ==
    /\ balance = [w \in Wallets |-> 0]
    /\ stock = [m \in Merchants |-> 0]
    /\ open = [m \in Merchants |-> TRUE]
    /\ rows = {}
    /\ st = [h \in Handlers |-> "idle"]
    /\ req = [h \in Handlers |-> NoReq]
    /\ ans = [h \in Handlers |-> "none"]

Known(r) == RowsOf(rows, r) # {}

\* What may be decided now: "go", the permission to try, or a refusal.
Ground(g, r) ==
    \/ g = "go"       /\ (r.op = "charge" => open[r.m])
    \/ g = "refused"  /\ ~Known(r) /\ r.op = "charge" /\ ~open[r.m]
    \/ g = "declined" /\ (Known(r) => r.op \in Blind) /\ ~Funded(balance, r)
    \/ g = "stockout" /\ ~Known(r) /\ ~InStock(stock, r)

To(h, s, a) ==
    /\ st' = [st EXCEPT ![h] = s]
    /\ ans' = [ans EXCEPT ![h] = a]

Ask(h, r) ==
    /\ st[h] = "idle"
    /\ To(h, "asked", "none")
    /\ req' = [req EXCEPT ![h] = r]
    /\ UNCHANGED dataVars

Decide(h) ==
    /\ st[h] = "asked"
    /\ \E g \in {"go", "refused", "declined", "stockout"} :
         Ground(g, req[h]) /\ To(h, "decided", g)
    /\ UNCHANGED <<dataVars, req>>

\* Nothing has been said yet: the request may be looked at afresh.
Reconsider(h) ==
    /\ st[h] = "decided"
    /\ To(h, "asked", "none")
    /\ UNCHANGED <<dataVars, req>>

Refuse(h) ==
    /\ st[h] = "decided" /\ ans[h] # "go"
    /\ To(h, "answered", ans[h])
    /\ UNCHANGED <<dataVars, req>>

\* The one effect of a request.
Perform(h) ==
    LET r == req[h] IN
    /\ st[h] = "decided" /\ ans[h] = "go"
    /\ ~Known(r) /\ Funded(balance, r) /\ InStock(stock, r)
    /\ balance' = [balance EXCEPT ![r.w] = @ + Credit(r)]
    /\ stock' = [stock EXCEPT ![r.m] = @ - r.qty]
    /\ rows' = rows \cup {r}
    /\ To(h, "answered", "ok")
    /\ UNCHANGED <<open, req>>

\* The answer to a repeat of what is committed.
Replay(h) ==
    /\ st[h] \in {"asked", "decided"} /\ Known(req[h])
    /\ To(h, "answered", ReplayAnswer(rows, req[h]))
    /\ UNCHANGED <<dataVars, req>>

\* The device has its answer, or the connection or the process is lost.
Leave(h) ==
    /\ st[h] # "idle"
    /\ To(h, "idle", "none")
    /\ req' = [req EXCEPT ![h] = NoReq]
    /\ UNCHANGED dataVars

\* Stock is delivered, written off, counted or moved; stalls open and close.
Supply ==
    /\ stock' \in [Merchants -> Nat]
    /\ UNCHANGED <<balance, open, rows, st, req, ans>>

SetOpen ==
    /\ open' \in [Merchants -> BOOLEAN]
    /\ UNCHANGED <<balance, stock, rows, st, req, ans>>

Next ==
    \/ \E h \in Handlers :
         \/ \E r \in Requests : Ask(h, r)
         \/ Decide(h) \/ Reconsider(h) \/ Refuse(h)
         \/ Perform(h) \/ Replay(h) \/ Leave(h)
    \/ Supply \/ SetOpen

Spec == Init /\ [][Next]_svars
=============================================================================
