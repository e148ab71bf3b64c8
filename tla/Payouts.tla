------------------------------- MODULE Payouts --------------------------------
(***************************************************************************)
(* Who is paid what after the sale: a reseller's commission withdrawals,   *)
(* its settlements of the cash it holds, and an organizer's payouts.       *)
(* Every one of them freezes an amount summed over the sales and, when it  *)
(* is paid, stamps the sales it covers: the amount and the stamp are taken *)
(* at different times, by different filters.  One reseller and one         *)
(* organizer: every query is confined to one of them.                      *)
(* An amount is the set of sales it sums; their own figures never change.  *)
(***************************************************************************)
EXTENDS Integers, FiniteSets

CONSTANTS Sales,      \* sales made in a behaviour
          Requests,   \* withdrawal requests made in a behaviour
          Periods,    \* periods an administrator closes: records from, to
          Channels,   \* ways a sale is made and paid
          Handlers,   \* operations in progress at the same time
          None,       \* no request, no period
          MaxTime,    \* bound: the clock
          MaxOps      \* bound: operations begun in a behaviour

Time == 0..MaxTime

ASSUME BoundsAssumption == MaxTime \in Nat /\ MaxOps \in Nat
\* Cash and electronic by a reseller's operator, by the buyer online, cash at
\* the organizer's door.
ASSUME ChannelsAssumption == Channels \subseteq {"cash", "momo", "online", "door"}
ASSUME NoneAssumption == None \notin Requests \cup Periods
ASSUME PeriodsAssumption == Periods \subseteq [from : Time, to : Time]

VARIABLES
    clock,
    sale,        \* TicketSale: channel, status, soldAt and the two stamps
    withdrawal,  \* ResellerCommissionWithdrawal
    settlement,  \* ResellerSettlement, by its period: the index is unique
    payout,      \* OrganizerPayout, by its period: the index is unique
    job,         \* what each handler is doing, and what it has read
    begun,       \* operations begun
    late,        \* sales completed within the reach of an amount frozen before
    crossed,     \* withdrawals requested together, or rejected when being paid
    tried,       \* withdrawals somebody began to pay
    together     \* periods closed while another one of the ledger was

docs == <<withdrawal, settlement, payout>>
hist == <<late, crossed, tried, together>>
vars == <<clock, sale, docs, job, begun, hist>>

Settled  == {"pending_payment", "settled"}
Ledgers  == {"reseller", "organizer"}

Sale == [channel : Channels \cup {"none"}, status : {"none", "pending", "completed"}, soldAt : Time,
         commissionWithdrawn : BOOLEAN, resellerRemitted : BOOLEAN]

Withdrawal == [status : {"none", "requested", "approved", "paid", "rejected"},
               amount : SUBSET Sales, snapshotAt : Time]

Frozen == [status : Settled \cup {"none"}, owed : SUBSET Sales, fee : SUBSET Sales,
           available : SUBSET Sales]

Steps == {"idle", "ask", "count", "pay", "flip", "preview", "create", "settle", "close"}

NotClosed == [status |-> "none", owed |-> {}, fee |-> {}, available |-> {}]

Job == [at : Steps, ledger : Ledgers, r : Requests \cup {None}, p : Periods \cup {None},
        sum : [owed : SUBSET Sales, fee : SUBSET Sales, available : SUBSET Sales],
        alone : BOOLEAN]

NoSum == [owed |-> {}, fee |-> {}, available |-> {}]
Idle  == [at |-> "idle", ledger |-> "reseller", r |-> None, p |-> None,
          sum |-> NoSum, alone |-> TRUE]

-----------------------------------------------------------------------------
(* Custody and the sums.                                                   *)

fundsCustody(s) == CASE sale[s].channel \in {"momo", "online"} -> "carrot"
                     [] sale[s].channel = "cash"               -> "reseller"
                     [] OTHER                                  -> "vendor"

Completed == {s \in Sales : sale[s].status = "completed"}
Within(s, p) == p.from <= sale[s].soldAt /\ sale[s].soldAt <= p.to

periodMatch(p) == {s \in Completed : Within(s, p)}
InCustody(S, who) == {s \in S : fundsCustody(s) = who}
ByOperator(S) == {s \in S : sale[s].channel \in {"cash", "momo"}}

availableCommission ==
    {s \in InCustody(ByOperator(Completed), "carrot") : ~sale[s].commissionWithdrawn}

previewResellerSettlement(p) ==
    [NoSum EXCEPT !.owed = InCustody(periodMatch(p), "reseller")]

previewOrganizerPayout(p) ==
    LET S == periodMatch(p) IN
    [owed      |-> InCustody(S, "carrot") \cup InCustody(S, "reseller"),
     fee       |-> InCustody(S, "vendor"),
     available |-> InCustody(S, "carrot")
                     \cup {s \in InCustody(S, "reseller") : sale[s].resellerRemitted}]

-----------------------------------------------------------------------------
Init ==
    /\ clock = 0
    /\ sale = [s \in Sales |-> [channel |-> "none", status |-> "none", soldAt |-> 0,
                                commissionWithdrawn |-> FALSE, resellerRemitted |-> FALSE]]
    /\ withdrawal = [r \in Requests |-> [status |-> "none", amount |-> {}, snapshotAt |-> 0]]
    /\ settlement = [p \in Periods |-> NotClosed]
    /\ payout = [p \in Periods |-> NotClosed]
    /\ job = [h \in Handlers |-> Idle]
    /\ begun = 0
    /\ late = {} /\ crossed = {} /\ tried = {} /\ together = {}

Tick == clock < MaxTime /\ clock' = clock + 1 /\ UNCHANGED <<sale, docs, job, begun, hist>>

Begins(h, j) ==
    /\ job[h].at = "idle" /\ begun < MaxOps
    /\ begun' = begun + 1
    /\ job' = [job EXCEPT ![h] = j]

Goes(h, at) == job' = [job EXCEPT ![h].at = at]
Ends(h)     == job' = [job EXCEPT ![h] = Idle]

\* The process dies between the two writes of an operation; before the first
\* one it leaves no trace.
Crash(h) ==
    /\ job[h].at \in {"flip", "close"} /\ Ends(h)
    /\ UNCHANGED <<clock, sale, docs, begun, hist>>

-----------------------------------------------------------------------------
(* Sales.                                                                  *)

\* An amount that was summed before the sale was completed, and whose stamp or
\* period reaches it all the same.
Reached(s) ==
    \/ \E r \in Requests : /\ withdrawal[r].status # "none"
                           /\ sale'[s].soldAt <= withdrawal[r].snapshotAt
    \/ \E p \in Periods : /\ p.from <= sale'[s].soldAt /\ sale'[s].soldAt <= p.to
                          /\ settlement[p].status # "none" \/ payout[p].status # "none"
    \/ \E h \in Handlers : job[h].at \in {"count", "create"}

Completes(s) == late' = IF Reached(s) THEN late \cup {s} ELSE late

\* soldAt is set when a sale is made, whenever it is paid.
Sell(s, channel) ==
    /\ sale[s].status = "none"
    /\ sale' = [sale EXCEPT ![s].channel = channel, ![s].soldAt = clock,
                            ![s].status = IF channel \in {"momo", "online"}
                                          THEN "pending" ELSE "completed"]
    /\ IF channel \in {"momo", "online"} THEN UNCHANGED late ELSE Completes(s)
    /\ UNCHANGED <<clock, docs, job, begun, crossed, tried, together>>

Complete(s) ==
    /\ sale[s].status = "pending"
    /\ sale' = [sale EXCEPT ![s].status = "completed"]
    /\ Completes(s)
    /\ UNCHANGED <<clock, docs, job, begun, crossed, tried, together>>

-----------------------------------------------------------------------------
(* Commission withdrawals.                                                 *)

Open == {r \in Requests : withdrawal[r].status \in {"requested", "approved"}}

Asking(g) == job[g].at \in {"ask", "count"}

\* requestWithdrawal: none is open; the balance; the request.
requestWithdrawal(h) ==
    /\ Open = {}
    /\ job[h].at = "idle" /\ begun < MaxOps /\ begun' = begun + 1
    /\ job' = [g \in Handlers |->
                 IF g = h THEN [Idle EXCEPT !.at = "ask",
                                            !.alone = \A f \in Handlers : ~Asking(f)]
                 ELSE IF Asking(g) THEN [job[g] EXCEPT !.alone = FALSE] ELSE job[g]]
    /\ UNCHANGED <<clock, sale, docs, hist>>

CountCommission(h) ==
    /\ job[h].at = "ask"
    /\ IF availableCommission = {} THEN Ends(h)
       ELSE job' = [job EXCEPT ![h].at = "count", ![h].sum.owed = availableCommission]
    /\ UNCHANGED <<clock, sale, docs, begun, hist>>

\* snapshotAt is the time of the insert.
CreateRequest(h, r) ==
    /\ job[h].at = "count" /\ withdrawal[r].status = "none"
    /\ withdrawal' = [withdrawal EXCEPT ![r] = [status |-> "requested",
                                                amount |-> job[h].sum.owed,
                                                snapshotAt |-> clock]]
    /\ crossed' = IF job[h].alone THEN crossed ELSE crossed \cup {r}
    /\ Ends(h)
    /\ UNCHANGED <<clock, sale, settlement, payout, begun, late, tried, together>>

SetWithdrawal(r, status) == withdrawal' = [withdrawal EXCEPT ![r].status = status]

approve(r) ==
    /\ withdrawal[r].status = "requested" /\ SetWithdrawal(r, "approved")
    /\ UNCHANGED <<clock, sale, settlement, payout, job, begun, hist>>

reject(r) ==
    /\ withdrawal[r].status \in {"requested", "approved"} /\ SetWithdrawal(r, "rejected")
    /\ crossed' = IF r \in tried THEN crossed \cup {r} ELSE crossed
    /\ UNCHANGED <<clock, sale, settlement, payout, job, begun, late, tried, together>>

\* markPaid: the request is read, the sales are stamped, the status is flipped.
markPaid(h, r) ==
    /\ withdrawal[r].status \in {"requested", "approved"}
    /\ Begins(h, [Idle EXCEPT !.at = "pay", !.r = r])
    /\ tried' = tried \cup {r}
    /\ UNCHANGED <<clock, sale, docs, late, crossed, together>>

\* Mutant: the stamp without its cutoff.
CoveredByAll(r) == availableCommission

\* Mutant: the cutoff itself is left out.
CoveredByBefore(r) ==
    {s \in availableCommission : sale[s].soldAt < withdrawal[r].snapshotAt}

CoveredBy(r) ==
    {s \in availableCommission : sale[s].soldAt <= withdrawal[r].snapshotAt}


StampWithdrawn(h) ==
    LET S == CoveredBy(job[h].r) IN
    /\ job[h].at = "pay" /\ Goes(h, "flip")
    /\ sale' = [s \in Sales |-> IF s \in S THEN [sale[s] EXCEPT !.commissionWithdrawn = TRUE]
                                ELSE sale[s]]
    /\ UNCHANGED <<clock, docs, begun, hist>>

\* The flip refuses a paid request only.
FlipPaid(h) ==
    LET r == job[h].r IN
    /\ job[h].at = "flip" /\ Ends(h)
    /\ IF withdrawal[r].status # "paid" THEN SetWithdrawal(r, "paid")
       ELSE UNCHANGED withdrawal
    /\ UNCHANGED <<clock, sale, settlement, payout, begun, hist>>

-----------------------------------------------------------------------------
(* Closing a period.                                                       *)

Overlaps(p, q) == p.from <= q.to /\ q.from <= p.to

Closing(g, l) == job[g].at \in {"preview", "create"} /\ job[g].ledger = l

Closed(l) == IF l = "reseller" THEN settlement ELSE payout

\* The overlap check, then the preview, then the insert.
BeginClose(h, l, p) ==
    /\ \A q \in Periods : Closed(l)[q].status \in Settled => ~Overlaps(q, p)
    /\ job[h].at = "idle" /\ begun < MaxOps /\ begun' = begun + 1
    /\ job' = [g \in Handlers |->
                 IF g = h THEN [Idle EXCEPT !.at = "preview", !.ledger = l, !.p = p,
                                            !.alone = \A f \in Handlers : ~Closing(f, l)]
                 ELSE IF Closing(g, l) THEN [job[g] EXCEPT !.alone = FALSE] ELSE job[g]]
    /\ UNCHANGED <<clock, sale, docs, hist>>

closeResellerSettlement(h, p) == BeginClose(h, "reseller", p)
closeOrganizerPayout(h, p)    == BeginClose(h, "organizer", p)

Preview(h) ==
    /\ job[h].at = "preview"
    /\ job' = [job EXCEPT ![h].at = "create",
                          ![h].sum = IF job[h].ledger = "reseller"
                                     THEN previewResellerSettlement(job[h].p)
                                     ELSE previewOrganizerPayout(job[h].p)]
    /\ UNCHANGED <<clock, sale, docs, begun, hist>>

Freeze(h, stored) ==
    LET j == job[h] IN
    IF stored[j.p].status = "none"
    THEN [stored EXCEPT ![j.p] = [status |-> "pending_payment", owed |-> j.sum.owed,
                                  fee |-> j.sum.fee, available |-> j.sum.available]]
    ELSE stored

\* The unique index refuses the same period only.
CreateClosed(h) ==
    LET j == job[h] IN
    /\ j.at = "create" /\ Ends(h)
    /\ settlement' = IF j.ledger = "reseller" THEN Freeze(h, settlement) ELSE settlement
    /\ payout' = IF j.ledger = "organizer" THEN Freeze(h, payout) ELSE payout
    /\ together' = IF j.alone THEN together ELSE together \cup {[l |-> j.ledger, p |-> j.p]}
    /\ UNCHANGED <<clock, sale, withdrawal, begun, late, crossed, tried>>

-----------------------------------------------------------------------------
(* Paying a closed period.                                                 *)

markResellerSettlementPaid(h, p) ==
    /\ settlement[p].status = "pending_payment"
    /\ Begins(h, [Idle EXCEPT !.at = "settle", !.p = p])
    /\ UNCHANGED <<clock, sale, docs, hist>>

\* Mutant: the period is open at its end.
RemittedBySince(p) ==
    {s \in InCustody(Sales, "reseller") : sale[s].status # "none" /\ p.from <= sale[s].soldAt}

\* Every cash sale of the period, whether it was there when it was closed or not.
RemittedBy(p) == {s \in InCustody(Sales, "reseller") : sale[s].status # "none" /\ Within(s, p)}

StampRemitted(h) ==
    LET S == RemittedBy(job[h].p) IN
    /\ job[h].at = "settle" /\ Goes(h, "close")
    /\ sale' = [s \in Sales |-> IF s \in S THEN [sale[s] EXCEPT !.resellerRemitted = TRUE]
                                ELSE sale[s]]
    /\ UNCHANGED <<clock, docs, begun, hist>>

FlipSettled(h) ==
    /\ job[h].at = "close" /\ Ends(h)
    /\ settlement' = [settlement EXCEPT ![job[h].p].status = "settled"]
    /\ UNCHANGED <<clock, sale, withdrawal, payout, begun, hist>>

markOrganizerPayoutPaid(p) ==
    /\ payout[p].status = "pending_payment"
    /\ payout' = [payout EXCEPT ![p].status = "settled"]
    /\ UNCHANGED <<clock, sale, withdrawal, settlement, job, begun, hist>>

-----------------------------------------------------------------------------
Step(h) ==
    \/ \E r \in Requests : CreateRequest(h, r) \/ markPaid(h, r)
    \/ requestWithdrawal(h) \/ CountCommission(h) \/ StampWithdrawn(h) \/ FlipPaid(h)
    \/ \E p \in Periods : \/ closeResellerSettlement(h, p) \/ closeOrganizerPayout(h, p)
                          \/ markResellerSettlementPaid(h, p)
    \/ Preview(h) \/ CreateClosed(h) \/ StampRemitted(h) \/ FlipSettled(h)
    \/ Crash(h)

Next ==
    \/ Tick
    \/ \E s \in Sales : Complete(s) \/ \E c \in Channels : Sell(s, c)
    \/ \E r \in Requests : approve(r) \/ reject(r)
    \/ \E p \in Periods : markOrganizerPayoutPaid(p)
    \/ \E h \in Handlers : Step(h)

Spec == Init /\ [][Next]_vars

-----------------------------------------------------------------------------
(* Properties.                                                             *)

TypeOK ==
    /\ clock \in Time
    /\ sale \in [Sales -> Sale]
    /\ withdrawal \in [Requests -> Withdrawal]
    /\ settlement \in [Periods -> Frozen]
    /\ payout \in [Periods -> Frozen]
    /\ job \in [Handlers -> Job]
    /\ begun \in 0..MaxOps
    /\ late \subseteq Sales /\ crossed \subseteq Requests /\ tried \subseteq Requests
    /\ together \subseteq [l : Ledgers, p : Periods]

\* No commission is in two withdrawals that are paid, whatever crashes and is
\* paid again, unless two requests were made at the same time or a request was
\* rejected after somebody had begun to pay it.
CommissionPaidOnce ==
    \A r, q \in Requests :
        /\ r # q /\ withdrawal[r].status = "paid" /\ withdrawal[q].status = "paid"
        /\ withdrawal[r].amount \cap withdrawal[q].amount # {}
        => {r, q} \cap crossed # {}

\* A commission stamped as withdrawn is in the amount of a withdrawal that is
\* paid or still can be, unless the sale was completed after the amount was
\* summed, or the withdrawal was crossed.
StampedIsPaid ==
    \A s \in Sales \ late : sale[s].commissionWithdrawn =>
        \E r \in Requests : /\ s \in withdrawal[r].amount
                            /\ withdrawal[r].status # "rejected" \/ r \in crossed

\* A sale is owed in at most one closed period of a ledger, and in the one its
\* time falls into: what is remitted was owed in a settlement, and a payout that
\* was closed leaves no sale out.  The exceptions are two periods closed at the
\* same time and a sale completed after its period was closed.
ClosedPeriodsAddUp ==
    /\ \A l \in Ledgers : \A p, q \in Periods :
         p # q /\ Closed(l)[p].owed \cap Closed(l)[q].owed # {}
           => {[l |-> l, p |-> p], [l |-> l, p |-> q]} \cap together # {}
    /\ \A s \in Sales \ late :
         /\ sale[s].resellerRemitted => \E p \in Periods : s \in settlement[p].owed
         /\ \A p \in Periods : payout[p].status # "none" /\ s \in periodMatch(p)
                                 => s \in payout[p].owed \cup payout[p].fee
=============================================================================
