---------------------------- MODULE PayoutsProofs ----------------------------
(***************************************************************************)
(* Proofs about Payouts, for any sales, requests, periods, channels,       *)
(* handlers and clock.  The inductive invariant has three parts: types,    *)
(* the withdrawals of commission, and the periods that are closed.  The    *)
(* last two do not touch one another's documents.                          *)
(***************************************************************************)
EXTENDS Payouts, TLAPS

-----------------------------------------------------------------------------
(* The inductive invariant.                                                *)

Typed ==
    /\ TypeOK
    /\ \A s \in Sales : sale[s].soldAt <= clock
    /\ \A s \in Sales : sale[s].status = "pending" => sale[s].channel \in {"momo", "online"}
    /\ \A h \in Handlers :
         /\ job[h].at \in {"pay", "flip"} => job[h].r \in Requests
         /\ job[h].at \in {"preview", "create", "settle", "close"} => job[h].p \in Periods

\* A sale that pays commission, and one whose cash the reseller holds.
Due(s)     == sale[s].status = "completed" /\ sale[s].channel = "momo"
Cash(s)    == sale[s].status = "completed" /\ sale[s].channel = "cash"
Stamped(s) == sale[s].commissionWithdrawn

\* A withdrawal that cannot be paid any more, or is one of the exceptions.
Harmless(r) == r \in crossed \/ (withdrawal[r].status = "rejected" /\ r \notin tried)

RequestOK(r) ==
    /\ withdrawal[r].status = "none" => withdrawal[r].amount = {}
    /\ \A s \in withdrawal[r].amount : Due(s) /\ sale[s].soldAt <= withdrawal[r].snapshotAt
    /\ withdrawal[r].status # "none" =>
         \A s \in Sales \ late : Due(s) /\ sale[s].soldAt <= withdrawal[r].snapshotAt
                                   => s \in withdrawal[r].amount \/ Stamped(s)
    /\ withdrawal[r].status = "paid" => \A s \in withdrawal[r].amount : Stamped(s)
    /\ r \in tried => /\ withdrawal[r].status # "none"
                      /\ withdrawal[r].status = "rejected" => r \in crossed

AskOK(h) ==
    /\ job[h].at \in {"pay", "flip"} => job[h].r \in tried
    /\ job[h].at = "flip" => \A s \in withdrawal[job[h].r].amount : Stamped(s)
    /\ job[h].at = "count" =>
         /\ \A s \in job[h].sum.owed : Due(s)
         /\ \A s \in Sales \ late : Due(s) => s \in job[h].sum.owed \/ Stamped(s)
    /\ Asking(h) /\ job[h].alone => \A g \in Handlers \ {h} : ~Asking(g)
    /\ job[h].at = "ask" /\ job[h].alone =>
         \A r \in Requests : withdrawal[r].status \in {"none", "paid"} \/ Harmless(r)
    /\ job[h].at = "count" /\ job[h].alone =>
         \A r \in Requests : Harmless(r) \/ withdrawal[r].amount \cap job[h].sum.owed = {}

\* Two withdrawals of one commission cannot both be paid.
PairsOK ==
    \A r, q \in Requests :
        r # q => \/ withdrawal[r].amount \cap withdrawal[q].amount = {}
                 \/ Harmless(r) \/ Harmless(q)

\* A stamped sale is in a withdrawal that somebody paid.
Backed ==
    \A s \in Sales \ late : Stamped(s) => \E r \in tried : s \in withdrawal[r].amount

Commissions ==
    /\ \A r \in Requests : RequestOK(r)
    /\ \A h \in Handlers : AskOK(h)
    /\ PairsOK /\ Backed

Matched(s, p) == sale[s].status = "completed" /\ Within(s, p)

PeriodOK(p) ==
    /\ \A l \in Ledgers : /\ Closed(l)[p].status = "none" => Closed(l)[p].owed = {}
                          /\ \A s \in Closed(l)[p].owed : Matched(s, p)
    /\ settlement[p].status # "none" =>
         \A s \in Sales \ late : Cash(s) /\ Within(s, p) => s \in settlement[p].owed
    /\ payout[p].status # "none" =>
         \A s \in Sales \ late : Matched(s, p) => s \in payout[p].owed \cup payout[p].fee

CloseOK(h) ==
    LET l == job[h].ledger
        p == job[h].p
        sum == job[h].sum
    IN
    /\ job[h].at = "create" =>
         /\ \A s \in sum.owed : Matched(s, p)
         /\ l = "reseller" => \A s \in Sales \ late : Cash(s) /\ Within(s, p) => s \in sum.owed
         /\ l = "organizer" => \A s \in Sales \ late : Matched(s, p) => s \in sum.owed \cup sum.fee
    /\ job[h].at \in {"preview", "create"} /\ job[h].alone =>
         /\ \A g \in Handlers \ {h} : ~Closing(g, l)
         /\ \A q \in Periods : Closed(l)[q].status # "none" => ~Overlaps(q, p)
    /\ job[h].at \in {"settle", "close"} => settlement[p].status # "none"

\* No sale is owed in two periods that were not closed together.
ApartOK ==
    \A l \in Ledgers : \A p, q \in Periods :
        p # q => \/ Closed(l)[p].owed \cap Closed(l)[q].owed = {}
                 \/ {[l |-> l, p |-> p], [l |-> l, p |-> q]} \cap together # {}

\* What was remitted was owed.
Remitted ==
    \A s \in Sales \ late : sale[s].resellerRemitted => \E p \in Periods : s \in settlement[p].owed

Closings ==
    /\ \A p \in Periods : PeriodOK(p)
    /\ \A h \in Handlers : CloseOK(h)
    /\ ApartOK /\ Remitted

IInv == Typed /\ Commissions /\ Closings

-----------------------------------------------------------------------------
(* Initial states.                                                         *)

LEMMA InitIInv == Init => IInv
<1> SUFFICES ASSUME Init PROVE IInv
  OBVIOUS
<1>1. Idle \in Job /\ Idle.at = "idle" /\ NotClosed \in Frozen /\ 0 \in Time
  BY BoundsAssumption DEF Idle, Job, NoSum, Steps, Ledgers, NotClosed, Frozen, Settled, Time
<1>2. Typed
  <2>1. TypeOK
    <3>1. sale \in [Sales -> Sale]
      BY <1>1 DEF Init, Sale
    <3>2. withdrawal \in [Requests -> Withdrawal]
      BY <1>1 DEF Init, Withdrawal
    <3> QED BY <1>1, <3>1, <3>2, BoundsAssumption DEF Init, TypeOK
  <2> QED BY <1>1, <2>1 DEF Init, Typed
<1>3. Commissions
  <2>1. \A r \in Requests : RequestOK(r)
    BY <1>1 DEF Init, RequestOK
  <2>2. \A h \in Handlers : AskOK(h)
    BY <1>1 DEF Init, AskOK, Asking
  <2>3. PairsOK
    BY DEF Init, PairsOK
  <2>4. Backed
    BY DEF Init, Backed, Stamped
  <2> QED BY <2>1, <2>2, <2>3, <2>4 DEF Commissions
<1>4. Closings
  <2>1. \A l \in Ledgers, p \in Periods : Closed(l)[p] = NotClosed
    BY DEF Init, Closed, Ledgers
  <2>2. \A p \in Periods : PeriodOK(p)
    BY <2>1 DEF Init, PeriodOK, NotClosed
  <2>3. \A h \in Handlers : CloseOK(h)
    BY <1>1 DEF Init, CloseOK
  <2>4. ApartOK
    BY <2>1 DEF ApartOK, NotClosed
  <2>5. Remitted
    BY DEF Init, Remitted
  <2> QED BY <2>2, <2>3, <2>4, <2>5 DEF Closings
<1> QED BY <1>2, <1>3, <1>4 DEF IInv

-----------------------------------------------------------------------------
(* Types.                                                                  *)

\* What the types say of each withdrawal, period and handler.
LEMMA Shape ==
    ASSUME Typed
    PROVE  /\ \A s \in Sales : sale[s] \in Sale
           /\ \A r \in Requests : withdrawal[r] \in Withdrawal
           /\ \A p \in Periods : settlement[p] \in Frozen /\ payout[p] \in Frozen
           /\ \A l \in Ledgers, p \in Periods : Closed(l)[p] \in Frozen
           /\ \A h \in Handlers : job[h] \in Job
           /\ Idle \in Job /\ Idle.at = "idle"
BY DEF Typed, TypeOK, Closed, Ledgers, Idle, Job, NoSum, Steps

\* The sums are sets of sales.
LEMMA SumsTyped ==
    /\ availableCommission \subseteq Sales
    /\ \A p : /\ previewResellerSettlement(p)
                   \in [owed : SUBSET Sales, fee : SUBSET Sales, available : SUBSET Sales]
              /\ previewOrganizerPayout(p)
                   \in [owed : SUBSET Sales, fee : SUBSET Sales, available : SUBSET Sales]
BY DEF availableCommission, previewResellerSettlement, previewOrganizerPayout, NoSum,
       InCustody, ByOperator, Completed, periodMatch

\* A record with one of its fields set is of the same kind.
LEMMA FieldsSet ==
    /\ \A x \in Sale : /\ [x EXCEPT !.commissionWithdrawn = TRUE] \in Sale
                       /\ [x EXCEPT !.resellerRemitted = TRUE] \in Sale
                       /\ [x EXCEPT !.status = "completed"] \in Sale
    /\ \A x \in Sale, c \in Channels, t \in Time, st \in {"pending", "completed"} :
         [x EXCEPT !.channel = c, !.soldAt = t, !.status = st] \in Sale
    /\ \A x \in Frozen : [x EXCEPT !.status = "settled"] \in Frozen
<1>1. \A x \in Sale : /\ [x EXCEPT !.commissionWithdrawn = TRUE] \in Sale
                      /\ [x EXCEPT !.resellerRemitted = TRUE] \in Sale
                      /\ [x EXCEPT !.status = "completed"] \in Sale
  BY DEF Sale
<1>2. \A x \in Sale, c \in Channels, t \in Time, st \in {"pending", "completed"} :
         [x EXCEPT !.channel = c, !.soldAt = t, !.status = st] \in Sale
  BY DEF Sale
<1>3. \A x \in Frozen : [x EXCEPT !.status = "settled"] \in Frozen
  BY DEF Frozen, Settled
<1> QED BY <1>1, <1>2, <1>3

SumOf == [owed : SUBSET Sales, fee : SUBSET Sales, available : SUBSET Sales]

\* The same of what a handler is doing.
LEMMA JobsSet ==
    ASSUME NEW j \in Job
    PROVE  /\ \A at \in Steps, r \in Requests \cup {None} : [j EXCEPT !.at = at, !.r = r] \in Job
           /\ \A at \in Steps, p \in Periods \cup {None} : [j EXCEPT !.at = at, !.p = p] \in Job
           /\ \A at \in Steps, b \in BOOLEAN : [j EXCEPT !.at = at, !.alone = b] \in Job
           /\ \A b \in BOOLEAN : [j EXCEPT !.alone = b] \in Job
           /\ \A at \in Steps, sum \in SumOf : [j EXCEPT !.at = at, !.sum = sum] \in Job
           /\ \A at \in Steps, l \in Ledgers, p \in Periods \cup {None}, b \in BOOLEAN :
                [j EXCEPT !.at = at, !.ledger = l, !.p = p, !.alone = b] \in Job
<1>1. j \in [at : Steps, ledger : Ledgers, r : Requests \cup {None}, p : Periods \cup {None},
             sum : SumOf, alone : BOOLEAN]
  BY DEF Job, SumOf
<1> HIDE DEF SumOf
<1>2. Job = [at : Steps, ledger : Ledgers, r : Requests \cup {None}, p : Periods \cup {None},
             sum : SumOf, alone : BOOLEAN]
  BY DEF Job, SumOf
<1> QED BY <1>1, <1>2

LEMMA SalesTyped ==
    ASSUME Typed,
           \/ \E s \in Sales : Complete(s) \/ \E c \in Channels : Sell(s, c)
           \/ \E h \in Handlers : StampWithdrawn(h) \/ StampRemitted(h)
    PROVE  Typed'
<1> DEFINE Sound(x) == /\ x.soldAt <= clock
                       /\ x.status = "pending" => x.channel \in {"momo", "online"}
<1>1. /\ \A x \in Sales : sale[x] \in Sale /\ Sound(sale[x])
      /\ sale \in [Sales -> Sale] /\ late \subseteq Sales
      /\ clock \in Time /\ clock <= clock
  BY BoundsAssumption DEF Typed, TypeOK, Time
<1>2. SUFFICES /\ sale' \in [Sales -> Sale]
               /\ \A x \in Sales : Sound(sale'[x])
               /\ late' \subseteq Sales
               /\ UNCHANGED <<clock, withdrawal, settlement, payout, begun>>
               /\ UNCHANGED <<crossed, tried, together>>
               /\ job' \in [Handlers -> Job]
               /\ \A g \in Handlers :
                    /\ job'[g].at \in {"pay", "flip"} => job'[g].r \in Requests
                    /\ job'[g].at \in {"preview", "create", "settle", "close"}
                         => job'[g].p \in Periods
  BY DEF Typed, TypeOK
<1>3. CASE \E s \in Sales : Complete(s) \/ \E c \in Channels : Sell(s, c)
  <2>1. PICK s \in Sales : Complete(s) \/ \E c \in Channels : Sell(s, c)
    BY <1>3
  <2>2. /\ UNCHANGED <<clock, withdrawal, settlement, payout, job, begun>>
        /\ UNCHANGED <<crossed, tried, together>>
    BY <2>1 DEF Complete, Sell, docs
  <2>3. late' \subseteq Sales
    BY <1>1, <2>1, ZenonT(40) DEF Complete, Sell, Completes
  <2>4. CASE Complete(s)
    <3> DEFINE new == [sale[s] EXCEPT !.status = "completed"]
    <3>1. sale' = [sale EXCEPT ![s] = new]
      BY <2>4 DEF Complete
    <3>2. new \in Sale
      BY <1>1, FieldsSet
    <3>3. Sound(new)
      BY <1>1 DEF Sale
    <3> HIDE DEF new
    <3> QED BY <3>3, <1>1, <2>2, <2>3, <3>1, <3>2 DEF Typed, TypeOK
  <2>5. CASE \E c \in Channels : Sell(s, c)
    <3>1. PICK c \in Channels : Sell(s, c)
      BY <2>5
    <3> DEFINE st  == IF c \in {"momo", "online"} THEN "pending" ELSE "completed"
               new == [sale[s] EXCEPT !.channel = c, !.soldAt = clock, !.status = st]
    <3>2. sale' = [sale EXCEPT ![s] = new]
      BY <3>1 DEF Sell
    <3>3. st \in {"pending", "completed"} /\ (st = "pending" => c \in {"momo", "online"})
      OBVIOUS
    <3> HIDE DEF st
    <3>4. new \in Sale
      BY <1>1, <3>3, FieldsSet
    <3>5. Sound(new)
      BY <1>1, <3>3 DEF Sale
    <3> HIDE DEF new
    <3> QED BY <3>5, <1>1, <2>2, <2>3, <3>2, <3>4 DEF Typed, TypeOK
  <2> QED BY <2>1, <2>4, <2>5
<1>4. CASE \E h \in Handlers : StampWithdrawn(h) \/ StampRemitted(h)
  <2>1. PICK h \in Handlers : StampWithdrawn(h) \/ StampRemitted(h)
    BY <1>4
  <2>2. PICK S : \/ sale' = [s \in Sales |-> IF s \in S
                               THEN [sale[s] EXCEPT !.commissionWithdrawn = TRUE] ELSE sale[s]]
                 \/ sale' = [s \in Sales |-> IF s \in S
                               THEN [sale[s] EXCEPT !.resellerRemitted = TRUE] ELSE sale[s]]
    BY <2>1 DEF StampWithdrawn, StampRemitted
  <2>3. sale' \in [Sales -> Sale]
    BY <1>1, <2>2, FieldsSet
  <2>4. \A x \in Sales : Sound(sale'[x])
    BY <1>1, <2>2 DEF Sale
  <2>5. PICK at \in Steps : /\ job' = [job EXCEPT ![h].at = at]
                            /\ at = "flip" => job[h].at = "pay"
                            /\ at = "close" => job[h].at = "settle"
                            /\ at \in {"flip", "close"}
    BY <2>1 DEF StampWithdrawn, StampRemitted, Goes, Steps
  <2>6. /\ job' \in [Handlers -> Job]
        /\ \A g \in Handlers :
             /\ job'[g].at \in {"pay", "flip"} => job'[g].r \in Requests
             /\ job'[g].at \in {"preview", "create", "settle", "close"} => job'[g].p \in Periods
    BY <2>5 DEF Typed, TypeOK, Job
  <2>7. UNCHANGED <<clock, withdrawal, settlement, payout, begun, late, crossed, tried, together>>
    BY <2>1 DEF StampWithdrawn, StampRemitted, docs, hist
  <2> QED BY <1>1, <2>3, <2>4, <2>6, <2>7
<1> QED BY <1>3, <1>4

LEMMA JobsTyped ==
    ASSUME Typed, NEW h \in Handlers,
           \/ requestWithdrawal(h) \/ CountCommission(h) \/ Preview(h) \/ Crash(h)
           \/ \E p \in Periods : \/ closeResellerSettlement(h, p) \/ closeOrganizerPayout(h, p)
                                 \/ markResellerSettlementPaid(h, p)
           \/ \E r \in Requests : markPaid(h, r)
    PROVE  Typed'
<1> DEFINE Safe(j) == /\ j.at \in {"pay", "flip"} => j.r \in Requests
                      /\ j.at \in {"preview", "create", "settle", "close"} => j.p \in Periods
<1>1. \A g \in Handlers : job[g] \in Job /\ Safe(job[g])
  BY DEF Typed, TypeOK
<1>5. /\ begun \in 0..MaxOps /\ (begun < MaxOps => begun + 1 \in 0..MaxOps)
      /\ tried \subseteq Requests
  BY BoundsAssumption DEF Typed, TypeOK
<1>2. Idle \in Job /\ Safe(Idle)
  BY DEF Idle, Job, NoSum, Steps, Ledgers
<1>3. /\ \A g \in Handlers : job'[g] \in Job /\ Safe(job'[g])
      /\ job' = [g \in Handlers |-> job'[g]]
      /\ begun' \in 0..MaxOps
      /\ UNCHANGED <<clock, sale, withdrawal, settlement, payout, late, crossed, together>>
      /\ tried' \subseteq Requests
  <2>1. CASE requestWithdrawal(h)
    <3>1. PICK b \in BOOLEAN : job' = [g \in Handlers |->
            IF g = h THEN [Idle EXCEPT !.at = "ask", !.alone = b]
            ELSE IF Asking(g) THEN [job[g] EXCEPT !.alone = FALSE] ELSE job[g]]
      BY <2>1 DEF requestWithdrawal
    <3>2. \A x \in BOOLEAN : LET j == [Idle EXCEPT !.at = "ask", !.alone = x]
                             IN j \in Job /\ Safe(j)
      <4>1. \A x \in BOOLEAN : [Idle EXCEPT !.at = "ask", !.alone = x] \in Job
        BY <1>2, JobsSet DEF Steps
      <4>2. \A x \in BOOLEAN : Safe([Idle EXCEPT !.at = "ask", !.alone = x])
        BY DEF Idle
      <4> QED BY <4>1, <4>2
    <3>3. \A j \in Job : Safe(j) => [j EXCEPT !.alone = FALSE] \in Job /\ Safe([j EXCEPT !.alone = FALSE])
      BY DEF Job
    <3>4. \A g \in Handlers : job'[g] \in Job /\ Safe(job'[g])
      BY <1>1, <3>1, <3>2, <3>3
    <3>5. job' = [g \in Handlers |-> job'[g]]
      BY <3>1
    <3>8. /\ begun' \in 0..MaxOps /\ tried' \subseteq Requests
          /\ UNCHANGED <<clock, sale, withdrawal, settlement, payout, late, crossed, together>>
      BY <2>1, <1>5 DEF requestWithdrawal, docs, hist
    <3> HIDE DEF Safe
    <3> QED BY <3>4, <3>5, <3>8
  <2>2. CASE CountCommission(h)
    BY <1>1, <1>2, <2>2, SumsTyped, SMTT(30)
    DEF CountCommission, Ends, Typed, TypeOK, Job, Steps, docs, hist
  <2>3. CASE Preview(h)
    <3>1. PICK sum \in [owed : SUBSET Sales, fee : SUBSET Sales, available : SUBSET Sales] :
             job' = [job EXCEPT ![h].at = "create", ![h].sum = sum]
      BY <2>3, SumsTyped DEF Preview
    <3>2. job[h].at = "preview"
      BY <2>3 DEF Preview
    <3> DEFINE new == [job[h] EXCEPT !.at = "create", !.sum = sum]
    <3>5. new \in Job
      BY <1>1, JobsSet DEF SumOf, Steps
    <3>6. Safe(new)
      BY <1>1, <3>2 DEF Job
    <3>7. job' = [job EXCEPT ![h] = new]
      BY <3>1
    <3> HIDE DEF new
    <3>3. \A g \in Handlers : job'[g] \in Job /\ Safe(job'[g])
      BY <1>1, <3>5, <3>6, <3>7 DEF Typed, TypeOK
    <3>4. job' = [g \in Handlers |-> job'[g]]
      BY <3>1 DEF Typed, TypeOK
    <3> QED BY <2>3, <3>3, <3>4 DEF Preview, Typed, TypeOK, docs, hist
  <2>4. CASE Crash(h)
    BY <1>1, <1>2, <2>4 DEF Crash, Ends, Typed, TypeOK, docs, hist
  <2>5. CASE \E p \in Periods : closeResellerSettlement(h, p) \/ closeOrganizerPayout(h, p)
    <3>1. PICK p \in Periods, l \in Ledgers : BeginClose(h, l, p)
      BY <2>5 DEF closeResellerSettlement, closeOrganizerPayout, Ledgers
    <3>2. PICK b \in BOOLEAN : job' = [g \in Handlers |->
            IF g = h THEN [Idle EXCEPT !.at = "preview", !.ledger = l, !.p = p, !.alone = b]
            ELSE IF Closing(g, l) THEN [job[g] EXCEPT !.alone = FALSE] ELSE job[g]]
      BY <3>1 DEF BeginClose
    <3>3. \A x \in BOOLEAN :
            LET j == [Idle EXCEPT !.at = "preview", !.ledger = l, !.p = p, !.alone = x]
            IN j \in Job /\ Safe(j)
      <4>1. \A x \in BOOLEAN :
              [Idle EXCEPT !.at = "preview", !.ledger = l, !.p = p, !.alone = x] \in Job
        BY <1>2, JobsSet DEF Steps
      <4>2. \A x \in BOOLEAN :
              Safe([Idle EXCEPT !.at = "preview", !.ledger = l, !.p = p, !.alone = x])
        BY DEF Idle
      <4> QED BY <4>1, <4>2
    <3>4. \A j \in Job : Safe(j) => [j EXCEPT !.alone = FALSE] \in Job /\ Safe([j EXCEPT !.alone = FALSE])
      BY DEF Job
    <3>5. \A g \in Handlers : job'[g] \in Job /\ Safe(job'[g])
      BY <1>1, <3>2, <3>3, <3>4
    <3>6. job' = [g \in Handlers |-> job'[g]]
      BY <3>2
    <3>8. /\ begun' \in 0..MaxOps /\ tried' \subseteq Requests
          /\ UNCHANGED <<clock, sale, withdrawal, settlement, payout, late, crossed, together>>
      BY <3>1, <1>5 DEF BeginClose, docs, hist
    <3> HIDE DEF Safe
    <3> QED BY <3>5, <3>6, <3>8
  <2>6. CASE \E p \in Periods : markResellerSettlementPaid(h, p)
    <3>1. PICK p \in Periods : markResellerSettlementPaid(h, p)
      BY <2>6
    <3> DEFINE new == [Idle EXCEPT !.at = "settle", !.p = p]
    <3>2. new \in Job /\ Safe(new)
      <4>1. new \in Job
        BY <1>2, JobsSet DEF Steps
      <4>2. Safe(new)
        BY DEF Idle
      <4> QED BY <4>1, <4>2
    <3>3. job' = [job EXCEPT ![h] = new]
      BY <3>1 DEF markResellerSettlementPaid, Begins
    <3> HIDE DEF new
    <3>4. (\A g \in Handlers : job'[g] \in Job /\ Safe(job'[g])) /\ job' = [g \in Handlers |-> job'[g]]
      BY <1>1, <3>2, <3>3 DEF Typed, TypeOK
    <3>8. /\ begun' \in 0..MaxOps /\ tried' \subseteq Requests
          /\ UNCHANGED <<clock, sale, withdrawal, settlement, payout, late, crossed, together>>
      BY <3>1, <1>5 DEF markResellerSettlementPaid, Begins, docs, hist
    <3> HIDE DEF Safe
    <3> QED BY <3>4, <3>8
  <2>7. CASE \E r \in Requests : markPaid(h, r)
    <3>1. PICK r \in Requests : markPaid(h, r)
      BY <2>7
    <3> DEFINE new == [Idle EXCEPT !.at = "pay", !.r = r]
    <3>2. new \in Job /\ Safe(new)
      <4>1. new \in Job
        BY <1>2, JobsSet DEF Steps
      <4>2. Safe(new)
        BY DEF Idle
      <4> QED BY <4>1, <4>2
    <3>3. job' = [job EXCEPT ![h] = new]
      BY <3>1 DEF markPaid, Begins
    <3> HIDE DEF new
    <3>4. (\A g \in Handlers : job'[g] \in Job /\ Safe(job'[g])) /\ job' = [g \in Handlers |-> job'[g]]
      BY <1>1, <3>2, <3>3 DEF Typed, TypeOK
    <3>8. /\ begun' \in 0..MaxOps /\ tried' \subseteq Requests
          /\ UNCHANGED <<clock, sale, withdrawal, settlement, payout, late, crossed, together>>
      BY <3>1, <1>5 DEF markPaid, Begins, docs, hist
    <3> HIDE DEF Safe
    <3> QED BY <3>4, <3>8
  <2> QED BY <2>1, <2>2, <2>3, <2>4, <2>5, <2>6, <2>7
<1>4. job' \in [Handlers -> Job]
  BY <1>3
<1> QED BY <1>3, <1>4 DEF Typed, TypeOK

LEMMA DocsTyped ==
    ASSUME Typed,
           \/ \E r \in Requests : approve(r) \/ reject(r)
           \/ \E p \in Periods : markOrganizerPayoutPaid(p)
           \/ \E h \in Handlers : \/ FlipPaid(h) \/ FlipSettled(h) \/ CreateClosed(h)
                                  \/ \E r \in Requests : CreateRequest(h, r)
    PROVE  Typed'
<1>1. CASE \E r \in Requests : approve(r) \/ reject(r)
  <2>1. withdrawal' \in [Requests -> Withdrawal] /\ crossed' \subseteq Requests
    BY <1>1 DEF approve, reject, SetWithdrawal, Typed, TypeOK, Withdrawal, hist
  <2> QED BY <1>1, <2>1 DEF approve, reject, Typed, TypeOK, hist
<1>2. CASE \E p \in Periods : markOrganizerPayoutPaid(p)
  <2>1. payout' \in [Periods -> Frozen]
    <3>1. PICK p \in Periods : payout' = [payout EXCEPT ![p] = [payout[p] EXCEPT !.status = "settled"]]
      BY <1>2 DEF markOrganizerPayoutPaid
    <3> QED BY <3>1, FieldsSet DEF Typed, TypeOK
  <2> QED BY <1>2, <2>1 DEF markOrganizerPayoutPaid, Typed, TypeOK, hist
<1>3. CASE \E h \in Handlers : \/ FlipPaid(h) \/ FlipSettled(h) \/ CreateClosed(h)
                               \/ \E r \in Requests : CreateRequest(h, r)
  <2>1. PICK h \in Handlers : \/ FlipPaid(h) \/ FlipSettled(h) \/ CreateClosed(h)
                              \/ \E r \in Requests : CreateRequest(h, r)
    BY <1>3
  <2>2. job[h] \in Job /\ Idle \in Job /\ Idle.at = "idle"
    BY Shape
  <2>3. Ends(h)
    BY <2>1 DEF FlipPaid, FlipSettled, CreateClosed, CreateRequest
  <2>4. /\ job' \in [Handlers -> Job]
        /\ \A g \in Handlers :
             /\ job'[g].at \in {"pay", "flip"} => job'[g].r \in Requests
             /\ job'[g].at \in {"preview", "create", "settle", "close"} => job'[g].p \in Periods
    BY <2>2, <2>3 DEF Ends, Typed, TypeOK
  <2>5. CASE FlipPaid(h)
    <3>1. withdrawal' \in [Requests -> Withdrawal]
      BY <2>5 DEF FlipPaid, SetWithdrawal, Typed, TypeOK, Withdrawal
    <3> QED BY <2>4, <2>5, <3>1 DEF FlipPaid, Typed, TypeOK, hist
  <2>6. CASE FlipSettled(h)
    <3>1. settlement' \in [Periods -> Frozen]
      <4>1. PICK p : settlement' = [settlement EXCEPT ![p] = [settlement[p] EXCEPT !.status = "settled"]]
        BY <2>6 DEF FlipSettled
      <4> QED BY <4>1, FieldsSet DEF Typed, TypeOK
    <3> QED BY <2>4, <2>6, <3>1 DEF FlipSettled, Typed, TypeOK, hist
  <2>7. CASE \E r \in Requests : CreateRequest(h, r)
    <3>1. withdrawal' \in [Requests -> Withdrawal] /\ crossed' \subseteq Requests
      BY <2>2, <2>7 DEF CreateRequest, Typed, TypeOK, Withdrawal, Job
    <3> QED BY <2>4, <2>7, <3>1 DEF CreateRequest, Typed, TypeOK
  <2>8. CASE CreateClosed(h)
    <3>1. job[h].p \in Periods /\ job[h].ledger \in Ledgers
      BY <2>2, <2>8 DEF CreateClosed, Typed, Job
    <3>2. ASSUME NEW stored \in [Periods -> Frozen] PROVE Freeze(h, stored) \in [Periods -> Frozen]
      BY <2>2, <3>1 DEF Freeze, Frozen, Settled, Job
    <3>3. settlement' \in [Periods -> Frozen] /\ payout' \in [Periods -> Frozen]
      BY <2>8, <3>2 DEF CreateClosed, Typed, TypeOK
    <3>4. together' \subseteq [l : Ledgers, p : Periods]
      BY <2>8, <3>1 DEF CreateClosed, Typed, TypeOK
    <3> QED BY <2>4, <2>8, <3>3, <3>4 DEF CreateClosed, Typed, TypeOK
  <2> QED BY <2>1, <2>5, <2>6, <2>7, <2>8
<1> QED BY <1>1, <1>2, <1>3

LEMMA NextTyped == Typed /\ [Next]_vars => Typed'
<1> SUFFICES ASSUME Typed, [Next]_vars PROVE Typed'
  OBVIOUS
<1>1. CASE Tick
  BY <1>1, BoundsAssumption DEF Tick, Typed, TypeOK, Time, Sale, docs, hist
<1>2. CASE UNCHANGED vars
  BY <1>2 DEF vars, docs, hist, Typed, TypeOK
<1> QED BY <1>1, <1>2, SalesTyped, JobsTyped, DocsTyped DEF Next, Step

-----------------------------------------------------------------------------
(* Steps that leave one half alone.                                        *)

\* The sales but for the stamp that is about to be put.
SalesKept ==
    \A s \in Sales : /\ sale'[s].status = sale[s].status /\ sale'[s].channel = sale[s].channel
                     /\ sale'[s].soldAt = sale[s].soldAt

Withdrawing == {"ask", "count", "pay", "flip"}
PeriodSteps == {"preview", "create", "settle", "close"}

\* A step that neither asks for commission nor pays it.
LEMMA CommissionsKept ==
    ASSUME Commissions, SalesKept, UNCHANGED <<withdrawal, late, crossed, tried>>,
           \A s \in Sales : sale'[s].commissionWithdrawn = sale[s].commissionWithdrawn,
           \A h \in Handlers : job'[h].at \in Withdrawing => job'[h] = job[h],
           \A r \in Requests : withdrawal[r].amount \subseteq Sales,
           \A h \in Handlers : job[h].sum.owed \subseteq Sales,
           \A h \in Handlers : job[h].at \in {"pay", "flip"} => job[h].r \in Requests
    PROVE  Commissions'
<1>1. \A s \in Sales : Due(s)' = Due(s) /\ Stamped(s)' = Stamped(s)
  BY DEF SalesKept, Due, Stamped
<1>2. \A r \in Requests : RequestOK(r)'
  BY <1>1 DEF Commissions, RequestOK, SalesKept
<1>3. \A r \in Requests : Harmless(r)' = Harmless(r)
  BY DEF Harmless
<1>4. \A g \in Handlers : Asking(g)' => Asking(g)
  BY DEF Asking, Withdrawing
<1>5. ASSUME NEW h \in Handlers PROVE AskOK(h)'
  <2>1. CASE job'[h].at \notin Withdrawing
    BY <2>1 DEF AskOK, Asking, Withdrawing
  <2>2. CASE job'[h].at \in Withdrawing
    <3>1. job'[h] = job[h] /\ AskOK(h)
      BY <2>2 DEF Commissions
    <3>2. Asking(h)' => Asking(h)
      BY <1>4
    <3> QED BY <1>1, <1>3, <1>4, <3>1, <3>2 DEF AskOK
  <2> QED BY <2>1, <2>2
<1>6. PairsOK'
  BY <1>3 DEF Commissions, PairsOK
<1>7. Backed'
  BY <1>1 DEF Commissions, Backed
<1> QED BY <1>2, <1>5, <1>6, <1>7 DEF Commissions

\* A step that neither closes a period nor pays one.
LEMMA ClosingsKept ==
    ASSUME Closings, SalesKept, UNCHANGED <<settlement, payout, late, together>>,
           \A s \in Sales : sale'[s].resellerRemitted = sale[s].resellerRemitted,
           \A h \in Handlers : job'[h].at \in PeriodSteps => job'[h] = job[h],
           \A l \in Ledgers, p \in Periods : Closed(l)[p].owed \subseteq Sales,
           \A h \in Handlers : job[h].sum.owed \subseteq Sales /\ job[h].ledger \in Ledgers
    PROVE  Closings'
<1>1. \A s \in Sales : /\ Cash(s)' = Cash(s)
                       /\ \A p : Within(s, p)' = Within(s, p) /\ Matched(s, p)' = Matched(s, p)
  BY DEF SalesKept, Cash, Within, Matched
<1>2. \A l \in Ledgers : Closed(l)' = Closed(l)
  BY DEF Closed
<1>3. \A p \in Periods : PeriodOK(p)'
  BY <1>1, <1>2 DEF Closings, PeriodOK
<1>4. \A g \in Handlers, l \in Ledgers : Closing(g, l)' => Closing(g, l)
  BY DEF Closing, PeriodSteps
<1>5. ASSUME NEW h \in Handlers PROVE CloseOK(h)'
  <2>1. CASE job'[h].at \notin PeriodSteps
    BY <2>1 DEF CloseOK, PeriodSteps
  <2>2. CASE job'[h].at \in PeriodSteps
    <3>1. job'[h] = job[h] /\ CloseOK(h)
      BY <2>2 DEF Closings
    <3> DEFINE p == job[h].p
               sum == job[h].sum
               l == job[h].ledger
    <3>2. job'[h].at = "create" =>
            /\ \A s \in sum.owed : Matched(s, p)'
            /\ l = "reseller" => \A s \in Sales \ late' :
                                   Cash(s)' /\ Within(s, p)' => s \in sum.owed
            /\ l = "organizer" => \A s \in Sales \ late' :
                                    Matched(s, p)' => s \in sum.owed \cup sum.fee
      BY <1>1, <3>1 DEF CloseOK
    <3>3. job'[h].at \in {"preview", "create"} /\ job'[h].alone =>
            /\ \A g \in Handlers \ {h} : ~Closing(g, l)'
            /\ \A q \in Periods : Closed(l)'[q].status # "none" => ~Overlaps(q, p)
      BY <1>2, <1>4, <1>5, <3>1 DEF CloseOK
    <3> QED BY <3>1, <3>2, <3>3 DEF CloseOK, Overlaps
  <2> QED BY <2>1, <2>2
<1>6. ApartOK'
  BY <1>2 DEF Closings, ApartOK
<1>7. Remitted'
  BY DEF Closings, Remitted
<1> QED BY <1>3, <1>5, <1>6, <1>7 DEF Closings
-----------------------------------------------------------------------------
(* The withdrawals.                                                        *)

\* What can be withdrawn, sale by sale.
LEMMA Available ==
    ASSUME Typed
    PROVE  /\ availableCommission = {s \in Sales : Due(s) /\ ~Stamped(s)}
           /\ \A r : CoveredBy(r) = {s \in Sales : Due(s) /\ ~Stamped(s)
                                                   /\ sale[s].soldAt <= withdrawal[r].snapshotAt}
<1>1. \A s \in Sales : /\ sale[s].channel \in {"cash", "momo"} /\ fundsCustody(s) = "carrot"
                            <=> sale[s].channel = "momo"
  BY DEF fundsCustody
<1>2. availableCommission = {s \in Sales : Due(s) /\ ~Stamped(s)}
  BY <1>1 DEF availableCommission, InCustody, ByOperator, Completed, Due, Stamped
<1> QED BY <1>2 DEF CoveredBy

\* No step makes a harmless withdrawal dangerous.
LEMMA HarmlessStays ==
    ASSUME crossed \subseteq crossed',
           NEW r \in Requests, Harmless(r),
           withdrawal[r].status = "rejected" /\ r \notin tried
             => r \in crossed' \/ (withdrawal'[r].status = "rejected" /\ r \notin tried')
    PROVE  Harmless(r)'
BY DEF Harmless

\* What a sale made, and a sale paid, look like.
LEMMA SaleMade ==
    ASSUME Typed, NEW s \in Sales, NEW c \in Channels, Sell(s, c)
    PROVE  /\ \A x \in Sales : x # s => sale'[x] = sale[x]
           /\ sale[s].status = "none"
           /\ sale'[s].channel = c /\ sale'[s].soldAt = clock
           /\ sale'[s].status = IF c \in {"momo", "online"} THEN "pending" ELSE "completed"
           /\ sale'[s].commissionWithdrawn = sale[s].commissionWithdrawn
           /\ sale'[s].resellerRemitted = sale[s].resellerRemitted
<1> DEFINE st  == IF c \in {"momo", "online"} THEN "pending" ELSE "completed"
           new == [sale[s] EXCEPT !.channel = c, !.soldAt = clock, !.status = st]
<1>1. sale' = [sale EXCEPT ![s] = new] /\ sale[s].status = "none"
  BY DEF Sell
<1>2. sale[s] \in Sale /\ sale \in [Sales -> Sale]
  BY DEF Typed, TypeOK
<1> HIDE DEF st
<1>3. /\ new.channel = c /\ new.soldAt = clock /\ new.status = st
      /\ new.commissionWithdrawn = sale[s].commissionWithdrawn
      /\ new.resellerRemitted = sale[s].resellerRemitted
  BY <1>2 DEF Sale
<1>4. sale'[s] = new /\ \A x \in Sales : x # s => sale'[x] = sale[x]
  BY <1>1, <1>2
<1> HIDE DEF new
<1> QED BY <1>1, <1>3, <1>4 DEF st

LEMMA SalePaid ==
    ASSUME Typed, NEW s \in Sales, Complete(s)
    PROVE  /\ \A x \in Sales : x # s => sale'[x] = sale[x]
           /\ sale[s].status = "pending" /\ sale'[s].status = "completed"
           /\ sale'[s].channel = sale[s].channel /\ sale'[s].soldAt = sale[s].soldAt
           /\ sale'[s].commissionWithdrawn = sale[s].commissionWithdrawn
           /\ sale'[s].resellerRemitted = sale[s].resellerRemitted
BY DEF Complete, Typed, TypeOK, Sale

LEMMA SaleCommissions ==
    ASSUME Typed, Commissions, NEW s \in Sales,
           Complete(s) \/ \E c \in Channels : Sell(s, c)
    PROVE  Commissions'
<1>1. /\ UNCHANGED <<withdrawal, job, crossed, tried>>
      /\ \A x \in Sales : x # s => sale'[x] = sale[x]
      /\ sale'[s].commissionWithdrawn = sale[s].commissionWithdrawn
      /\ ~Due(s)
  <2>1. UNCHANGED <<withdrawal, job, crossed, tried>>
    BY DEF Complete, Sell, docs
  <2> QED BY <2>1, SaleMade, SalePaid DEF Due
<1>2. late \subseteq late'
  BY DEF Complete, Sell, Completes
<1>3. Due(s)' => s \in late' \/ ~Reached(s)
  <2>1. CASE Complete(s)
    BY <2>1 DEF Complete, Completes
  <2>2. CASE \E c \in Channels : Sell(s, c)
    <3>1. PICK c \in Channels : Sell(s, c)
      BY <2>2
    <3>2. c \in {"momo", "online"} => sale'[s].status = "pending"
      BY <3>1, SaleMade
    <3> QED BY <3>1, <3>2 DEF Sell, Completes, Due
  <2> QED BY <2>1, <2>2
<1>4. ~Reached(s) =>
        /\ \A r \in Requests : withdrawal[r].status # "none"
                                 => ~(sale'[s].soldAt <= withdrawal[r].snapshotAt)
        /\ \A h \in Handlers : job[h].at # "count"
  BY DEF Reached
<1>5. \A x \in Sales : Stamped(x)' = Stamped(x) /\ (x # s => Due(x)' = Due(x))
  BY <1>1 DEF Stamped, Due
<1>6. \A r \in Requests : withdrawal[r].amount \subseteq Sales
  BY Shape DEF Withdrawal
<1>7. ASSUME NEW r \in Requests PROVE RequestOK(r)'
  <2>1. RequestOK(r)
    BY DEF Commissions
  <2>2. \A x \in withdrawal[r].amount :
          x # s /\ Due(x)' /\ sale'[x].soldAt <= withdrawal[r].snapshotAt
    BY <1>1, <1>5, <1>6, <2>1 DEF RequestOK
  <2>3. withdrawal[r].status # "none" =>
          \A x \in Sales \ late' : Due(x)' /\ sale'[x].soldAt <= withdrawal[r].snapshotAt
                                    => x \in withdrawal[r].amount \/ Stamped(x)'
    BY <1>1, <1>2, <1>3, <1>4, <1>5, <2>1 DEF RequestOK
  <2> QED BY <1>1, <1>5, <1>6, <2>1, <2>2, <2>3 DEF RequestOK
<1>8. ASSUME NEW h \in Handlers PROVE AskOK(h)'
  <2>1. AskOK(h) /\ job[h].sum.owed \subseteq Sales
    BY Shape DEF Commissions, Job
  <2>2. job[h].at = "count" =>
          /\ \A x \in job[h].sum.owed : Due(x)'
          /\ \A x \in Sales \ late' : Due(x)' => x \in job[h].sum.owed \/ Stamped(x)'
    BY <1>1, <1>2, <1>3, <1>4, <1>5, <2>1 DEF AskOK
  <2>3. job[h].at \in {"pay", "flip"} => job[h].r \in Requests
    BY DEF Typed
  <2>4. \A r \in Requests : Harmless(r)' = Harmless(r)
    BY <1>1 DEF Harmless
  <2>5. \A g \in Handlers : Asking(g)' = Asking(g)
    BY <1>1 DEF Asking
  <2> QED BY <1>1, <1>5, <1>6, <2>1, <2>2, <2>3, <2>4, <2>5 DEF AskOK
<1>9. PairsOK'
  BY <1>1 DEF Commissions, PairsOK, Harmless
<1>10. Backed'
  BY <1>1, <1>2, <1>5 DEF Commissions, Backed
<1> QED BY <1>7, <1>8, <1>9, <1>10 DEF Commissions

LEMMA AskCommissions ==
    ASSUME Typed, Commissions, NEW h \in Handlers, requestWithdrawal(h)
    PROVE  Commissions'
<1>1. UNCHANGED <<sale, withdrawal, late, crossed, tried>>
  BY DEF requestWithdrawal, docs, hist
<1>2. /\ job'[h].at = "ask"
      /\ job'[h].alone => \A f \in Handlers : ~Asking(f)
  BY DEF requestWithdrawal, Idle
<1>3. \A g \in Handlers \ {h} :
        /\ job'[g].at = job[g].at /\ job'[g].r = job[g].r /\ job'[g].sum = job[g].sum
        /\ Asking(g) => ~job'[g].alone
  BY Shape DEF requestWithdrawal, Job
<1>4. \A r \in Requests : withdrawal[r].status \in {"none", "paid"} \/ Harmless(r)
  BY Shape DEF requestWithdrawal, Open, Withdrawal, Commissions, RequestOK, Harmless
<1>5. /\ \A x : Due(x)' = Due(x) /\ Stamped(x)' = Stamped(x)
      /\ \A r : Harmless(r)' = Harmless(r)
  BY <1>1 DEF Due, Stamped, Harmless
<1>6. \A g \in Handlers \ {h} : Asking(g)' = Asking(g)
  BY <1>3 DEF Asking
<1>7. \A r \in Requests : RequestOK(r)'
  BY <1>1, <1>5 DEF Commissions, RequestOK
<1>8. AskOK(h)'
  BY <1>1, <1>2, <1>4, <1>5, <1>6 DEF AskOK
<1>9. ASSUME NEW g \in Handlers \ {h} PROVE AskOK(g)'
  <2>1. AskOK(g)
    BY DEF Commissions
  <2>2. Asking(g)' => ~job'[g].alone
    BY <1>3, <1>6
  <2> QED BY <1>1, <1>3, <1>5, <2>1, <2>2 DEF AskOK, Asking
<1>10. PairsOK' /\ Backed'
  BY <1>1, <1>5 DEF Commissions, PairsOK, Backed
<1> QED BY <1>7, <1>8, <1>9, <1>10 DEF Commissions

LEMMA CountCommissions ==
    ASSUME Typed, Commissions, NEW h \in Handlers, CountCommission(h)
    PROVE  Commissions'
<1>1. UNCHANGED <<sale, withdrawal, late, crossed, tried>>
  BY DEF CountCommission, docs, hist
<1>2. \A g \in Handlers \ {h} : job'[g] = job[g]
  BY DEF CountCommission, Ends, Typed, TypeOK
<1>3. \/ job'[h] = Idle
      \/ /\ job'[h].at = "count" /\ job'[h].alone = job[h].alone
         /\ job'[h].sum.owed = availableCommission
  <2>1. job[h] \in Job
    BY Shape
  <2> QED BY <2>1 DEF CountCommission, Ends, Job, Typed, TypeOK
<1>4. job[h].at = "ask" /\ AskOK(h) /\ Asking(h)
  BY DEF CountCommission, Commissions, Asking
<1>5. /\ \A x : Due(x)' = Due(x) /\ Stamped(x)' = Stamped(x)
      /\ \A r : Harmless(r)' = Harmless(r)
  BY <1>1 DEF Due, Stamped, Harmless
<1>6. \A g \in Handlers : Asking(g)' => Asking(g)
  BY <1>2, <1>4 DEF Asking
<1>7. \A r \in Requests : RequestOK(r)'
  BY <1>1, <1>5 DEF Commissions, RequestOK
<1>8. AskOK(h)'
  <2>1. CASE job'[h] = Idle
    BY <2>1 DEF AskOK, Asking, Idle
  <2>2. CASE /\ job'[h].at = "count" /\ job'[h].alone = job[h].alone
             /\ job'[h].sum.owed = availableCommission
    <3>1. /\ \A x \in job'[h].sum.owed : Due(x)' /\ ~Stamped(x)
          /\ \A x \in Sales \ late' : Due(x)' => x \in job'[h].sum.owed \/ Stamped(x)'
      BY <1>5, <2>2, Available
    <3>2. job'[h].alone => \A g \in Handlers \ {h} : ~Asking(g)'
      BY <1>4, <1>6, <2>2 DEF AskOK
    <3>3. ASSUME job'[h].alone, NEW r \in Requests
          PROVE  Harmless(r)' \/ withdrawal'[r].amount \cap job'[h].sum.owed = {}
      <4>1. RequestOK(r) /\ (withdrawal[r].status \in {"none", "paid"} \/ Harmless(r))
        BY <1>4, <2>2, <3>3 DEF AskOK, Commissions
      <4>2. withdrawal[r].status \in {"none", "paid"} => \A x \in withdrawal[r].amount : Stamped(x)
        BY <4>1 DEF RequestOK
      <4> QED BY <1>1, <1>5, <3>1, <4>1, <4>2
    <3> QED BY <2>2, <3>1, <3>2, <3>3 DEF AskOK
  <2> QED BY <1>3, <2>1, <2>2
<1>9. ASSUME NEW g \in Handlers \ {h} PROVE AskOK(g)'
  <2>1. AskOK(g) /\ job'[g] = job[g]
    BY <1>2 DEF Commissions
  <2> QED BY <1>1, <1>5, <1>6, <2>1 DEF AskOK, Asking
<1>10. PairsOK' /\ Backed'
  BY <1>1, <1>5 DEF Commissions, PairsOK, Backed
<1> QED BY <1>7, <1>8, <1>9, <1>10 DEF Commissions

LEMMA CreateCommissions ==
    ASSUME Typed, Commissions, NEW h \in Handlers, NEW r \in Requests, CreateRequest(h, r)
    PROVE  Commissions'
<1>1. UNCHANGED <<sale, late, tried>> /\ crossed \subseteq crossed' /\ clock' = clock
  BY DEF CreateRequest
<1>2. job'[h] = Idle /\ \A g \in Handlers \ {h} : job'[g] = job[g]
  BY DEF CreateRequest, Ends, Typed, TypeOK
<1>3. /\ job[h].at = "count" /\ AskOK(h) /\ Asking(h)
      /\ job[h].sum.owed \subseteq Sales
      /\ job[h].alone \/ r \in crossed'
  BY Shape DEF CreateRequest, Commissions, Asking, Job
<1>4. /\ withdrawal[r].status = "none"
      /\ withdrawal'[r].status = "requested" /\ withdrawal'[r].amount = job[h].sum.owed
      /\ withdrawal'[r].snapshotAt = clock
      /\ \A q \in Requests \ {r} : withdrawal'[q] = withdrawal[q]
  BY DEF CreateRequest, Typed, TypeOK
<1>5. \A x : Due(x)' = Due(x) /\ Stamped(x)' = Stamped(x)
  BY <1>1 DEF Due, Stamped
<1>6. \A q \in Requests : Harmless(q) => Harmless(q)'
  BY <1>1, <1>4 DEF Harmless
<1>7. \A g \in Handlers : Asking(g)' => Asking(g) /\ g # h
  BY <1>2, <1>3 DEF Asking, Idle
<1>8. ASSUME NEW q \in Requests PROVE RequestOK(q)'
  <2>1. RequestOK(q) /\ (r \notin tried)
    BY <1>4 DEF Commissions, RequestOK
  <2>2. CASE q = r
    <3>1. \A x \in Sales : sale[x].soldAt <= clock
      BY DEF Typed
    <3> QED BY <1>1, <1>3, <1>4, <1>5, <2>1, <2>2, <3>1 DEF RequestOK, AskOK
  <2>3. CASE q # r
    BY <1>1, <1>4, <1>5, <2>1, <2>3 DEF RequestOK
  <2> QED BY <2>2, <2>3
<1>9. ASSUME NEW g \in Handlers PROVE AskOK(g)'
  <2>1. CASE g = h
    BY <1>2, <2>1 DEF AskOK, Asking, Idle
  <2>2. CASE g # h
    <3>1. AskOK(g) /\ job'[g] = job[g]
      BY <1>2, <2>2 DEF Commissions
    <3>2. ~(Asking(g) /\ job[g].alone)
      BY <1>3, <2>2, <3>1 DEF AskOK
    <3>3. job[g].at \in {"pay", "flip"} => job[g].r # r /\ job[g].r \in Requests
      <4>1. r \notin tried
        BY <1>4 DEF Commissions, RequestOK
      <4> QED BY <3>1, <4>1 DEF AskOK, Typed
    <3>4. ~(Asking(g)' /\ job'[g].alone)
      BY <1>7, <3>1, <3>2
    <3> QED BY <1>1, <1>4, <1>5, <3>1, <3>3, <3>4 DEF AskOK, Asking
  <2> QED BY <2>1, <2>2
<1>10. PairsOK'
  <2>1. ASSUME NEW q \in Requests \ {r}
        PROVE  \/ withdrawal'[r].amount \cap withdrawal'[q].amount = {}
               \/ Harmless(r)' \/ Harmless(q)'
    <3>1. CASE r \in crossed'
      BY <3>1 DEF Harmless
    <3>2. CASE job[h].alone
      BY <1>3, <1>4, <1>6, <3>2 DEF AskOK
    <3> QED BY <1>3, <3>1, <3>2
  <2>2. ASSUME NEW p \in Requests \ {r}, NEW q \in Requests \ {r}, p # q
        PROVE  \/ withdrawal'[p].amount \cap withdrawal'[q].amount = {}
               \/ Harmless(p)' \/ Harmless(q)'
    BY <1>4, <1>6, <2>2 DEF Commissions, PairsOK
  <2> QED BY <2>1, <2>2 DEF PairsOK
<1>11. Backed'
  <2>1. r \notin tried
    BY <1>4 DEF Commissions, RequestOK
  <2>2. tried \subseteq Requests
    BY DEF Typed, TypeOK
  <2> QED BY <1>1, <1>4, <1>5, <2>1, <2>2 DEF Commissions, Backed
<1> QED BY <1>8, <1>9, <1>10, <1>11 DEF Commissions

LEMMA DecideCommissions ==
    ASSUME Typed, Commissions, NEW r \in Requests, approve(r) \/ reject(r)
    PROVE  Commissions'
<1>1. UNCHANGED <<sale, job, late, tried>> /\ crossed \subseteq crossed'
  BY DEF approve, reject, hist
<1>2. /\ withdrawal[r].status \in {"requested", "approved"}
      /\ withdrawal'[r].status \in {"approved", "rejected"}
      /\ withdrawal'[r].status = "rejected" /\ r \in tried => r \in crossed'
      /\ withdrawal'[r].amount = withdrawal[r].amount
      /\ withdrawal'[r].snapshotAt = withdrawal[r].snapshotAt
      /\ \A q \in Requests \ {r} : withdrawal'[q] = withdrawal[q]
  BY Shape DEF approve, reject, SetWithdrawal, Typed, TypeOK, Withdrawal, hist
<1>3. \A x : Due(x)' = Due(x) /\ Stamped(x)' = Stamped(x)
  BY <1>1 DEF Due, Stamped
<1>4. \A q \in Requests : Harmless(q) => Harmless(q)'
  BY <1>1, <1>2 DEF Harmless
<1>5. \A q \in Requests : withdrawal'[q].amount = withdrawal[q].amount
  BY <1>2
<1>6. ASSUME NEW q \in Requests PROVE RequestOK(q)'
  <2>1. RequestOK(q)
    BY DEF Commissions
  <2>2. CASE q = r
    BY <1>1, <1>2, <1>3, <2>1, <2>2 DEF RequestOK
  <2>3. CASE q # r
    BY <1>1, <1>2, <1>3, <2>1, <2>3 DEF RequestOK
  <2> QED BY <2>2, <2>3
<1>7. ASSUME NEW h \in Handlers PROVE AskOK(h)'
  <2>1. AskOK(h) /\ (job[h].at \in {"pay", "flip"} => job[h].r \in Requests)
    BY DEF Commissions, Typed
  <2>2. \A g : Asking(g)' = Asking(g)
    BY <1>1 DEF Asking
  <2>3. job[h].at = "ask" /\ job[h].alone =>
          \A q \in Requests : withdrawal'[q].status \in {"none", "paid"} \/ Harmless(q)'
    BY <1>2, <1>4, <2>1 DEF AskOK
  <2> QED BY <1>1, <1>3, <1>4, <1>5, <2>1, <2>2, <2>3 DEF AskOK
<1>8. PairsOK'
  BY <1>4, <1>5 DEF Commissions, PairsOK
<1>9. Backed'
  <2>1. tried \subseteq Requests
    BY DEF Typed, TypeOK
  <2> QED BY <1>1, <1>3, <1>5, <2>1 DEF Commissions, Backed
<1> QED BY <1>6, <1>7, <1>8, <1>9 DEF Commissions

LEMMA BeginPayCommissions ==
    ASSUME Typed, Commissions, NEW h \in Handlers, NEW r \in Requests, markPaid(h, r)
    PROVE  Commissions'
<1>1. UNCHANGED <<sale, withdrawal, late, crossed>> /\ tried' = tried \cup {r}
  BY DEF markPaid, docs
<1>2. /\ withdrawal[r].status \in {"requested", "approved"}
      /\ job'[h].at = "pay" /\ job'[h].r = r /\ job[h].at = "idle"
      /\ \A g \in Handlers \ {h} : job'[g] = job[g]
  BY DEF markPaid, Begins, Idle, Typed, TypeOK
<1>3. \A x : Due(x)' = Due(x) /\ Stamped(x)' = Stamped(x)
  BY <1>1 DEF Due, Stamped
<1>4. \A q \in Requests : Harmless(q) => Harmless(q)'
  BY <1>1, <1>2 DEF Harmless
<1>5. \A g \in Handlers : Asking(g)' => Asking(g)
  BY <1>2 DEF Asking
<1>6. \A q \in Requests : RequestOK(q)'
  BY <1>1, <1>2, <1>3 DEF Commissions, RequestOK
<1>7. ASSUME NEW g \in Handlers PROVE AskOK(g)'
  <2>1. CASE g = h
    BY <1>1, <1>2, <2>1 DEF AskOK, Asking
  <2>2. CASE g # h
    <3>1. AskOK(g) /\ job'[g] = job[g]
      BY <1>2, <2>2 DEF Commissions
    <3> QED BY <1>1, <1>3, <1>4, <1>5, <3>1 DEF AskOK, Asking
  <2> QED BY <2>1, <2>2
<1>8. PairsOK'
  BY <1>1, <1>4 DEF Commissions, PairsOK
<1>9. Backed'
  BY <1>1, <1>3 DEF Commissions, Backed
<1> QED BY <1>6, <1>7, <1>8, <1>9 DEF Commissions

LEMMA StampCommissions ==
    ASSUME Typed, Commissions, NEW h \in Handlers, StampWithdrawn(h)
    PROVE  Commissions'
<1> DEFINE r == job[h].r
<1>1. /\ UNCHANGED <<withdrawal, late, crossed, tried>>
      /\ job[h].at = "pay" /\ r \in Requests /\ r \in tried
      /\ RequestOK(r)
  BY DEF StampWithdrawn, docs, hist, Typed, Commissions, AskOK
<1>2. \A g \in Handlers : /\ job'[g].r = job[g].r /\ job'[g].alone = job[g].alone
                          /\ job'[g].sum = job[g].sum
                          /\ g # h => job'[g] = job[g]
  BY Shape DEF StampWithdrawn, Goes, Typed, TypeOK, Job
<1>3. job'[h].at = "flip"
  BY Shape DEF StampWithdrawn, Goes, Typed, TypeOK, Job
<1>4. \A x \in Sales : /\ Due(x)' = Due(x) /\ sale'[x].soldAt = sale[x].soldAt
                       /\ Stamped(x)' <=> Stamped(x) \/ x \in CoveredBy(r)
  BY Shape DEF StampWithdrawn, Due, Stamped, Sale
<1>5. \A x \in CoveredBy(r) : Due(x) /\ sale[x].soldAt <= withdrawal[r].snapshotAt
  BY Available
<1>6. \A x \in Sales : Due(x) /\ sale[x].soldAt <= withdrawal[r].snapshotAt
                        => Stamped(x) \/ x \in CoveredBy(r)
  BY Available
<1>7. /\ \A q : Harmless(q)' = Harmless(q)
      /\ \A g \in Handlers : Asking(g)' = Asking(g)
      /\ \A q \in Requests : withdrawal[q].amount \subseteq Sales
  <2>1. \A q : Harmless(q)' = Harmless(q)
    BY <1>1 DEF Harmless
  <2>2. \A g \in Handlers : Asking(g)' = Asking(g)
    BY <1>1, <1>2, <1>3 DEF Asking
  <2> QED BY <2>1, <2>2, Shape DEF Withdrawal
<1> HIDE DEF r
<1>8. ASSUME NEW q \in Requests PROVE RequestOK(q)'
  <2>1. RequestOK(q)
    BY DEF Commissions
  <2> QED BY <1>1, <1>4, <1>7, <2>1 DEF RequestOK
<1>9. ASSUME NEW g \in Handlers PROVE AskOK(g)'
  <2>1. AskOK(g) /\ job[g].sum.owed \subseteq Sales
    BY Shape DEF Commissions, Job
  <2>2. CASE g = h
    <3>1. \A x \in withdrawal[r].amount : Stamped(x)'
      BY <1>1, <1>4, <1>6, <1>7 DEF RequestOK
    <3> QED BY <1>1, <1>2, <1>3, <2>2, <3>1 DEF AskOK, Asking, r
  <2>3. CASE g # h
    <3>1. job'[g] = job[g] /\ (job[g].at \in {"pay", "flip"} => job[g].r \in Requests)
      BY <1>2, <2>3 DEF Typed
    <3> QED BY <1>1, <1>4, <1>7, <2>1, <3>1 DEF AskOK, Asking
  <2> QED BY <2>2, <2>3
<1>10. PairsOK'
  BY <1>1, <1>7 DEF Commissions, PairsOK
<1>11. Backed'
  <2>1. \A x \in CoveredBy(r) : x \notin late => x \in withdrawal[r].amount
    <3>1. \A x \in CoveredBy(r) : ~Stamped(x) /\ x \in Sales
      BY Available
    <3>2. withdrawal[r].status # "none"
      BY <1>1 DEF RequestOK
    <3> QED BY <1>1, <1>5, <3>1, <3>2 DEF RequestOK
  <2> QED BY <1>1, <1>4, <2>1 DEF Commissions, Backed
<1> QED BY <1>8, <1>9, <1>10, <1>11 DEF Commissions

LEMMA FlipCommissions ==
    ASSUME Typed, Commissions, NEW h \in Handlers, FlipPaid(h)
    PROVE  Commissions'
<1> DEFINE r == job[h].r
<1>1. /\ UNCHANGED <<sale, late, crossed, tried>>
      /\ job[h].at = "flip" /\ r \in Requests /\ r \in tried
      /\ \A x \in withdrawal[r].amount : Stamped(x)
  BY DEF FlipPaid, hist, Typed, Commissions, AskOK
<1>2. job'[h] = Idle /\ \A g \in Handlers \ {h} : job'[g] = job[g]
  BY DEF FlipPaid, Ends, Typed, TypeOK
<1>3. /\ withdrawal'[r].status = "paid"
      /\ withdrawal'[r].amount = withdrawal[r].amount
      /\ withdrawal'[r].snapshotAt = withdrawal[r].snapshotAt
      /\ \A q \in Requests \ {r} : withdrawal'[q] = withdrawal[q]
  BY <1>1, Shape DEF FlipPaid, SetWithdrawal, Typed, TypeOK, Withdrawal
<1> HIDE DEF r
<1>4. \A x : Due(x)' = Due(x) /\ Stamped(x)' = Stamped(x)
  BY <1>1 DEF Due, Stamped
<1>5. \A q \in Requests : Harmless(q) => Harmless(q)'
  BY <1>1, <1>3 DEF Harmless
<1>6. \A q \in Requests : withdrawal'[q].amount = withdrawal[q].amount
  BY <1>3
<1>7. \A g \in Handlers : Asking(g)' => Asking(g)
  BY <1>2 DEF Asking, Idle
<1>8. ASSUME NEW q \in Requests PROVE RequestOK(q)'
  <2>1. RequestOK(q) /\ RequestOK(r)
    BY <1>1 DEF Commissions
  <2>2. CASE q = r
    BY <1>1, <1>3, <1>4, <2>1, <2>2 DEF RequestOK
  <2>3. CASE q # r
    BY <1>1, <1>3, <1>4, <2>1, <2>3 DEF RequestOK
  <2> QED BY <2>2, <2>3
<1>9. ASSUME NEW g \in Handlers PROVE AskOK(g)'
  <2>1. CASE g = h
    BY <1>2, <2>1 DEF AskOK, Asking, Idle
  <2>2. CASE g # h
    <3>1. /\ AskOK(g) /\ job'[g] = job[g]
          /\ job[g].at \in {"pay", "flip"} => job[g].r \in Requests
      BY <1>2, <2>2 DEF Commissions, Typed
    <3>2. job[g].at = "ask" /\ job[g].alone =>
            \A q \in Requests : withdrawal'[q].status \in {"none", "paid"} \/ Harmless(q)'
      BY <1>3, <1>5, <3>1 DEF AskOK
    <3> QED BY <1>1, <1>4, <1>5, <1>6, <1>7, <3>1, <3>2 DEF AskOK, Asking
  <2> QED BY <2>1, <2>2
<1>10. PairsOK'
  BY <1>5, <1>6 DEF Commissions, PairsOK
<1>11. Backed'
  <2>1. tried \subseteq Requests
    BY DEF Typed, TypeOK
  <2> QED BY <1>1, <1>4, <1>6, <2>1 DEF Commissions, Backed
<1> QED BY <1>8, <1>9, <1>10, <1>11 DEF Commissions

-----------------------------------------------------------------------------
(* The periods.                                                            *)

\* What a preview sums, sale by sale.
LEMMA Summed ==
    ASSUME Typed, NEW p
    PROVE  /\ previewResellerSettlement(p).owed = {s \in Sales : Cash(s) /\ Within(s, p)}
           /\ previewOrganizerPayout(p).owed \subseteq {s \in Sales : Matched(s, p)}
           /\ {s \in Sales : Matched(s, p)}
                \subseteq previewOrganizerPayout(p).owed \cup previewOrganizerPayout(p).fee
<1>1. periodMatch(p) = {s \in Sales : Matched(s, p)}
  BY DEF periodMatch, Completed, Matched
<1>2. \A s : /\ fundsCustody(s) \in {"carrot", "reseller", "vendor"}
             /\ fundsCustody(s) = "reseller" <=> sale[s].channel = "cash"
  BY DEF fundsCustody
<1>3. previewResellerSettlement(p).owed = InCustody(periodMatch(p), "reseller")
  BY DEF previewResellerSettlement, NoSum
<1>4. /\ previewOrganizerPayout(p).owed
           = InCustody(periodMatch(p), "carrot") \cup InCustody(periodMatch(p), "reseller")
      /\ previewOrganizerPayout(p).fee = InCustody(periodMatch(p), "vendor")
  BY DEF previewOrganizerPayout
<1> QED BY <1>1, <1>2, <1>3, <1>4 DEF InCustody, Cash, Matched

LEMMA SaleClosings ==
    ASSUME Typed, Closings, NEW s \in Sales,
           Complete(s) \/ \E c \in Channels : Sell(s, c)
    PROVE  Closings'
<1>1. /\ UNCHANGED <<settlement, payout, job, together>>
      /\ \A x \in Sales : x # s => sale'[x] = sale[x]
      /\ sale'[s].resellerRemitted = sale[s].resellerRemitted
      /\ sale[s].status # "completed"
  <2>1. UNCHANGED <<settlement, payout, job, together>>
    BY DEF Complete, Sell, docs
  <2> QED BY <2>1, SaleMade, SalePaid
<1>2. late \subseteq late'
  BY DEF Complete, Sell, Completes
<1>3. sale'[s].status = "completed" => s \in late' \/ ~Reached(s)
  <2>1. CASE Complete(s)
    BY <2>1 DEF Complete, Completes
  <2>2. CASE \E c \in Channels : Sell(s, c)
    <3>1. PICK c \in Channels : Sell(s, c)
      BY <2>2
    <3>2. c \in {"momo", "online"} => sale'[s].status = "pending"
      BY <3>1, SaleMade
    <3> QED BY <3>1, <3>2 DEF Sell, Completes
  <2> QED BY <2>1, <2>2
<1>4. ~Reached(s) =>
        /\ \A p \in Periods : settlement[p].status # "none" \/ payout[p].status # "none"
                                => ~Within(s, p)'
        /\ \A h \in Handlers : job[h].at # "create"
  BY DEF Reached, Within
<1>5. \A x \in Sales : x # s =>
        /\ Cash(x)' = Cash(x)
        /\ \A p : Within(x, p)' = Within(x, p) /\ Matched(x, p)' = Matched(x, p)
  BY <1>1 DEF Cash, Within, Matched
<1>6. /\ \A p : (Cash(s)' \/ Matched(s, p)') => sale'[s].status = "completed"
      /\ \A p : Matched(s, p)' => Within(s, p)'
      /\ \A p : ~Matched(s, p)
  BY <1>1 DEF Cash, Matched
<1>7. \A l \in Ledgers : Closed(l)' = Closed(l)
  BY <1>1 DEF Closed
<1>8. \A l \in Ledgers, p \in Periods : Closed(l)[p].owed \subseteq Sales
  BY Shape DEF Frozen
<1>9. ASSUME NEW p \in Periods PROVE PeriodOK(p)'
  <2>1. PeriodOK(p)
    BY DEF Closings
  <2>2. \A l \in Ledgers : \A x \in Closed(l)[p].owed : Matched(x, p)'
    BY <1>5, <1>6, <1>8, <2>1 DEF PeriodOK
  <2>3. settlement[p].status # "none" =>
          \A x \in Sales \ late' : Cash(x)' /\ Within(x, p)' => x \in settlement[p].owed
    BY <1>2, <1>3, <1>4, <1>5, <1>6, <2>1 DEF PeriodOK
  <2>4. payout[p].status # "none" =>
          \A x \in Sales \ late' : Matched(x, p)' => x \in payout[p].owed \cup payout[p].fee
    BY <1>2, <1>3, <1>4, <1>5, <1>6, <2>1 DEF PeriodOK
  <2> QED BY <1>1, <1>7, <2>1, <2>2, <2>3, <2>4 DEF PeriodOK
<1>10. ASSUME NEW h \in Handlers PROVE CloseOK(h)'
  <2>4. PICK l, p, sum : l = job[h].ledger /\ p = job[h].p /\ sum = job[h].sum
    OBVIOUS
  <2>1. CloseOK(h) /\ sum.owed \subseteq Sales /\ l \in Ledgers
    BY <2>4, Shape DEF Closings, Job
  <2>2. job[h].at = "create" =>
          /\ \A x \in sum.owed : Matched(x, p)'
          /\ l = "reseller" => \A x \in Sales \ late' : Cash(x)' /\ Within(x, p)' => x \in sum.owed
          /\ l = "organizer" => \A x \in Sales \ late' :
                                  Matched(x, p)' => x \in sum.owed \cup sum.fee
    BY <1>2, <1>3, <1>4, <1>5, <1>6, <2>1, <2>4 DEF CloseOK
  <2>3. \A g \in Handlers : Closing(g, l)' = Closing(g, l)
    BY <1>1 DEF Closing
  <2>5. job[h].at \in {"preview", "create"} /\ job[h].alone =>
          /\ \A g \in Handlers \ {h} : ~Closing(g, l)'
          /\ \A q \in Periods : Closed(l)'[q].status # "none" => ~Overlaps(q, p)
    BY <1>7, <2>1, <2>3, <2>4 DEF CloseOK
  <2> QED BY <1>1, <2>1, <2>2, <2>4, <2>5 DEF CloseOK, Overlaps
<1>11. ApartOK'
  BY <1>1, <1>7 DEF Closings, ApartOK
<1>12. Remitted'
  BY <1>1, <1>2 DEF Closings, Remitted
<1> QED BY <1>9, <1>10, <1>11, <1>12 DEF Closings

LEMMA BeginClosings ==
    ASSUME Typed, Closings, NEW h \in Handlers, NEW l \in Ledgers, NEW p \in Periods,
           BeginClose(h, l, p)
    PROVE  Closings'
<1>1. UNCHANGED <<sale, settlement, payout, late, together>>
  BY DEF BeginClose, docs, hist
<1>2. /\ job'[h].at = "preview" /\ job'[h].ledger = l /\ job'[h].p = p
      /\ job'[h].alone => \A f \in Handlers : ~Closing(f, l)
  BY DEF BeginClose, Idle
<1>3. \A g \in Handlers \ {h} :
        /\ job'[g].at = job[g].at /\ job'[g].p = job[g].p /\ job'[g].sum = job[g].sum
        /\ job'[g].ledger = job[g].ledger
        /\ job'[g].alone => job[g].alone /\ ~Closing(g, l)
  BY Shape DEF BeginClose, Job
<1>4. \A q \in Periods : Closed(l)[q].status # "none" => ~Overlaps(q, p)
  BY Shape DEF BeginClose, Frozen
<1>5. /\ \A x : Cash(x)' = Cash(x)
      /\ \A x, q : Within(x, q)' = Within(x, q) /\ Matched(x, q)' = Matched(x, q)
      /\ \A k \in Ledgers : Closed(k)' = Closed(k)
  BY <1>1 DEF Cash, Within, Matched, Closed
<1>6. \A g \in Handlers \ {h}, k \in Ledgers : Closing(g, k)' = Closing(g, k)
  BY <1>3 DEF Closing
<1>7. \A q \in Periods : PeriodOK(q)'
  BY <1>1, <1>5 DEF Closings, PeriodOK
<1>8. CloseOK(h)'
  BY <1>2, <1>4, <1>5, <1>6 DEF CloseOK, Overlaps
<1>9. ASSUME NEW g \in Handlers \ {h} PROVE CloseOK(g)'
  <2>5. PICK k, q, sum : k = job[g].ledger /\ q = job[g].p /\ sum = job[g].sum
    OBVIOUS
  <2>1. CloseOK(g) /\ k \in Ledgers
    BY <2>5, Shape DEF Closings, Job
  <2>2. job[g].at = "create" =>
          /\ \A x \in sum.owed : Matched(x, q)'
          /\ k = "reseller" => \A x \in Sales \ late' : Cash(x)' /\ Within(x, q)' => x \in sum.owed
          /\ k = "organizer" => \A x \in Sales \ late' :
                                  Matched(x, q)' => x \in sum.owed \cup sum.fee
    BY <1>1, <1>5, <2>1, <2>5 DEF CloseOK
  <2>3. job'[g].at \in {"preview", "create"} /\ job'[g].alone =>
          /\ \A f \in Handlers \ {g} : ~Closing(f, k)'
          /\ \A x \in Periods : Closed(k)'[x].status # "none" => ~Overlaps(x, q)
    <3>1. SUFFICES ASSUME job'[g].at \in {"preview", "create"}, job'[g].alone
                   PROVE  /\ \A f \in Handlers \ {g} : ~Closing(f, k)'
                          /\ \A x \in Periods : Closed(k)'[x].status # "none" => ~Overlaps(x, q)
      OBVIOUS
    <3>2. job[g].alone /\ ~Closing(g, l) /\ job[g].at \in {"preview", "create"}
      BY <1>3, <3>1
    <3>3. k # l
      BY <2>5, <3>2 DEF Closing
    <3>4. ~Closing(h, k)'
      BY <1>2, <3>3 DEF Closing
    <3> QED BY <1>5, <1>6, <2>1, <2>5, <3>2, <3>4 DEF CloseOK
  <2>4. job'[g].at \in {"settle", "close"} => settlement'[q].status # "none"
    BY <1>1, <1>3, <2>1, <2>5 DEF CloseOK
  <2> QED BY <1>3, <2>2, <2>3, <2>4, <2>5 DEF CloseOK, Overlaps
<1>10. ApartOK'
  BY <1>1, <1>5 DEF Closings, ApartOK
<1>11. Remitted'
  BY <1>1 DEF Closings, Remitted
<1> QED BY <1>7, <1>8, <1>9, <1>10, <1>11 DEF Closings

LEMMA PreviewClosings ==
    ASSUME Typed, Closings, NEW h \in Handlers, Preview(h)
    PROVE  Closings'
<1>0. PICK l, p, sum :
          /\ l = job[h].ledger /\ p = job[h].p
          /\ sum = IF l = "reseller" THEN previewResellerSettlement(p) ELSE previewOrganizerPayout(p)
  OBVIOUS
<1>1. UNCHANGED <<sale, settlement, payout, late, together>>
  BY DEF Preview, docs, hist
<1>2. /\ job'[h].at = "create" /\ job'[h].ledger = l /\ job'[h].p = p
      /\ job'[h].sum = sum /\ job'[h].alone = job[h].alone
      /\ \A g \in Handlers \ {h} : job'[g] = job[g]
  <2>1. job' = [job EXCEPT ![h].at = "create", ![h].sum = sum]
    BY <1>0 DEF Preview
  <2> QED BY <1>0, <2>1, Shape DEF Typed, TypeOK, Job
<1>3. CloseOK(h) /\ job[h].at = "preview" /\ l \in Ledgers
  BY <1>0, Shape DEF Closings, Preview, Job
<1>4. /\ \A x \in sum.owed : Matched(x, p)
      /\ l = "reseller" => \A x \in Sales : Cash(x) /\ Within(x, p) => x \in sum.owed
      /\ l = "organizer" => \A x \in Sales : Matched(x, p) => x \in sum.owed \cup sum.fee
  BY <1>3, <1>0, Summed DEF Cash, Matched, Ledgers
<1>5. /\ \A x : Cash(x)' = Cash(x)
      /\ \A x, q : Within(x, q)' = Within(x, q) /\ Matched(x, q)' = Matched(x, q)
      /\ \A k \in Ledgers : Closed(k)' = Closed(k)
  BY <1>1 DEF Cash, Within, Matched, Closed
<1>6. \A g \in Handlers, k \in Ledgers : Closing(g, k)' = Closing(g, k)
  BY <1>2, <1>3, <1>0 DEF Closing
<1>7. \A q \in Periods : PeriodOK(q)'
  BY <1>1, <1>5 DEF Closings, PeriodOK
<1>8. CloseOK(h)'
  <2>1. job[h].alone => /\ \A g \in Handlers \ {h} : ~Closing(g, l)'
                        /\ \A q \in Periods : Closed(l)'[q].status # "none" => ~Overlaps(q, p)
    BY <1>3, <1>5, <1>6, <1>0 DEF CloseOK
  <2>2. /\ \A x \in sum.owed : Matched(x, p)'
        /\ l = "reseller" => \A x \in Sales \ late' : Cash(x)' /\ Within(x, p)' => x \in sum.owed
        /\ l = "organizer" => \A x \in Sales \ late' : Matched(x, p)' => x \in sum.owed \cup sum.fee
    BY <1>4, <1>5
  <2> QED BY <1>2, <2>1, <2>2 DEF CloseOK, Overlaps
<1>9. ASSUME NEW g \in Handlers \ {h} PROVE CloseOK(g)'
  <2>4. PICK k, q, mine : k = job[g].ledger /\ q = job[g].p /\ mine = job[g].sum
    OBVIOUS
  <2>1. CloseOK(g) /\ k \in Ledgers /\ job'[g] = job[g]
    BY <1>2, <2>4, Shape DEF Closings, Job
  <2>2. job[g].at = "create" =>
          /\ \A x \in mine.owed : Matched(x, q)'
          /\ k = "reseller" => \A x \in Sales \ late' : Cash(x)' /\ Within(x, q)' => x \in mine.owed
          /\ k = "organizer" => \A x \in Sales \ late' :
                                  Matched(x, q)' => x \in mine.owed \cup mine.fee
    BY <1>1, <1>5, <2>1, <2>4 DEF CloseOK
  <2>3. job[g].at \in {"preview", "create"} /\ job[g].alone =>
          /\ \A f \in Handlers \ {g} : ~Closing(f, k)'
          /\ \A x \in Periods : Closed(k)'[x].status # "none" => ~Overlaps(x, q)
    BY <1>5, <1>6, <2>1, <2>4 DEF CloseOK
  <2> QED BY <1>1, <2>1, <2>2, <2>3, <2>4 DEF CloseOK, Overlaps
<1>10. ApartOK'
  BY <1>1, <1>5 DEF Closings, ApartOK
<1>11. Remitted'
  BY <1>1 DEF Closings, Remitted
<1> QED BY <1>7, <1>8, <1>9, <1>10, <1>11 DEF Closings

LEMMA CreateClosings ==
    ASSUME Typed, Closings, NEW h \in Handlers, CreateClosed(h)
    PROVE  Closings'
<1>0. PICK l, p, sum : l = job[h].ledger /\ p = job[h].p /\ sum = job[h].sum
  OBVIOUS
<1>1. /\ UNCHANGED <<sale, late>> /\ together \subseteq together'
      /\ job[h].alone \/ [l |-> l, p |-> p] \in together'
  BY <1>0 DEF CreateClosed
<1>2. job'[h] = Idle /\ \A g \in Handlers \ {h} : job'[g] = job[g]
  BY DEF CreateClosed, Ends, Typed, TypeOK
<1>3. /\ job[h].at = "create" /\ CloseOK(h) /\ l \in Ledgers /\ p \in Periods /\ Closing(h, l)
      /\ sum.owed \subseteq Sales
  <2>1. job[h].at = "create"
    BY DEF CreateClosed
  <2>2. p \in Periods
    BY <1>0, <2>1 DEF Typed
  <2> QED BY <1>0, <2>1, <2>2, Shape DEF Closings, Closing, Job
<1>4. /\ \A k \in Ledgers : k # l => Closed(k)' = Closed(k)
      /\ \A q \in Periods : q # p => Closed(l)'[q] = Closed(l)[q]
      /\ Closed(l)[p].status # "none" => Closed(l)' = Closed(l)
      /\ Closed(l)[p].status = "none" => /\ Closed(l)'[p].status # "none"
                                         /\ Closed(l)'[p].owed = sum.owed
                                         /\ Closed(l)'[p].fee = sum.fee
  <2>1. settlement \in [Periods -> Frozen] /\ payout \in [Periods -> Frozen]
    BY DEF Typed, TypeOK
  <2>2. /\ l = "reseller" => settlement' = Freeze(h, settlement) /\ payout' = payout
        /\ l = "organizer" => payout' = Freeze(h, payout) /\ settlement' = settlement
    BY <1>0 DEF CreateClosed
  <2>3. ASSUME NEW stored \in [Periods -> Frozen]
        PROVE  /\ \A q \in Periods : q # p => Freeze(h, stored)[q] = stored[q]
               /\ stored[p].status # "none" => Freeze(h, stored) = stored
               /\ stored[p].status = "none" => /\ Freeze(h, stored)[p].status # "none"
                                               /\ Freeze(h, stored)[p].owed = sum.owed
                                               /\ Freeze(h, stored)[p].fee = sum.fee
    BY <1>0, <1>3 DEF Freeze
  <2>4. CASE l = "reseller"
    BY <2>1, <2>2, <2>3, <2>4 DEF Closed, Ledgers
  <2>5. CASE l = "organizer"
    BY <2>1, <2>2, <2>3, <2>5 DEF Closed, Ledgers
  <2> QED BY <1>3, <2>4, <2>5 DEF Ledgers
<1>5. /\ \A x : Cash(x)' = Cash(x)
      /\ \A x, q : Within(x, q)' = Within(x, q) /\ Matched(x, q)' = Matched(x, q)
  BY <1>1 DEF Cash, Within, Matched
<1>6. \A g \in Handlers \ {h} : ~(Closing(g, l) /\ job[g].alone)
  <2> SUFFICES ASSUME NEW g \in Handlers \ {h}, Closing(g, l), job[g].alone PROVE FALSE
    OBVIOUS
  <2> QED BY <1>3 DEF Closings, CloseOK, Closing
<1>7. /\ settlement = Closed("reseller") /\ settlement' = Closed("reseller")'
      /\ payout = Closed("organizer") /\ payout' = Closed("organizer")'
  BY DEF Closed
<1>8. /\ \A x \in sum.owed : Matched(x, p)
      /\ l = "reseller" => \A x \in Sales \ late : Cash(x) /\ Within(x, p) => x \in sum.owed
      /\ l = "organizer" => \A x \in Sales \ late : Matched(x, p) => x \in sum.owed \cup sum.fee
      /\ job[h].alone => \A q \in Periods : Closed(l)[q].status # "none" => ~Overlaps(q, p)
  BY <1>0, <1>3 DEF CloseOK
<1>9. ASSUME NEW q \in Periods PROVE PeriodOK(q)'
  <2>1. PeriodOK(q)
    BY DEF Closings
  <2>2. ASSUME NEW k \in Ledgers
        PROVE  /\ Closed(k)'[q].status = "none" => Closed(k)'[q].owed = {}
               /\ \A x \in Closed(k)'[q].owed : Matched(x, q)'
    <3>1. CASE k = l /\ q = p /\ Closed(l)[p].status = "none"
      BY <1>4, <1>5, <1>8, <3>1
    <3>2. CASE ~(k = l /\ q = p /\ Closed(l)[p].status = "none")
      BY <1>4, <1>5, <2>1, <3>2 DEF PeriodOK
    <3> QED BY <3>1, <3>2
  <2>3. settlement'[q].status # "none" =>
          \A x \in Sales \ late' : Cash(x)' /\ Within(x, q)' => x \in settlement'[q].owed
    <3>1. CASE l = "reseller" /\ q = p /\ settlement[p].status = "none"
      BY <1>1, <1>4, <1>5, <1>7, <1>8, <3>1
    <3>2. CASE ~(l = "reseller" /\ q = p /\ settlement[p].status = "none")
      <4>1. settlement'[q] = settlement[q]
        BY <1>4, <1>7, <3>2 DEF Ledgers
      <4> QED BY <1>1, <1>5, <2>1, <4>1 DEF PeriodOK
    <3> QED BY <3>1, <3>2
  <2>4. payout'[q].status # "none" =>
          \A x \in Sales \ late' : Matched(x, q)' => x \in payout'[q].owed \cup payout'[q].fee
    <3>1. CASE l = "organizer" /\ q = p /\ payout[p].status = "none"
      BY <1>1, <1>4, <1>5, <1>7, <1>8, <3>1
    <3>2. CASE ~(l = "organizer" /\ q = p /\ payout[p].status = "none")
      <4>1. payout'[q] = payout[q]
        BY <1>4, <1>7, <3>2 DEF Ledgers
      <4> QED BY <1>1, <1>5, <2>1, <4>1 DEF PeriodOK
    <3> QED BY <3>1, <3>2
  <2> QED BY <2>2, <2>3, <2>4 DEF PeriodOK
<1>10. ASSUME NEW g \in Handlers PROVE CloseOK(g)'
  <2>1. CASE g = h
    BY <1>2, <2>1 DEF CloseOK, Idle
  <2>2. CASE g # h
    <3>0. PICK k, q, mine : k = job[g].ledger /\ q = job[g].p /\ mine = job[g].sum
      OBVIOUS
    <3>1. CloseOK(g) /\ k \in Ledgers /\ job'[g] = job[g]
      BY <1>2, <2>2, <3>0, Shape DEF Closings, Job
    <3>2. job[g].at = "create" =>
            /\ \A x \in mine.owed : Matched(x, q)'
            /\ k = "reseller" => \A x \in Sales \ late' : Cash(x)' /\ Within(x, q)' => x \in mine.owed
            /\ k = "organizer" => \A x \in Sales \ late' :
                                    Matched(x, q)' => x \in mine.owed \cup mine.fee
      BY <1>1, <1>5, <3>0, <3>1 DEF CloseOK
    <3>3. job[g].at \in {"preview", "create"} /\ job[g].alone =>
            /\ \A f \in Handlers \ {g} : ~Closing(f, k)'
            /\ \A x \in Periods : Closed(k)'[x].status # "none" => ~Overlaps(x, q)
      <4>1. SUFFICES ASSUME job[g].at \in {"preview", "create"}, job[g].alone
                     PROVE  /\ \A f \in Handlers \ {g} : ~Closing(f, k)'
                            /\ \A x \in Periods : Closed(k)'[x].status # "none" => ~Overlaps(x, q)
        OBVIOUS
      <4>2. k # l
        BY <1>6, <2>2, <3>0, <4>1 DEF Closing
      <4>3. \A f \in Handlers : Closing(f, k)' => Closing(f, k)
        BY <1>2 DEF Closing, Idle
      <4> QED BY <1>4, <3>0, <3>1, <4>1, <4>2, <4>3 DEF CloseOK
    <3>4. job[g].at \in {"settle", "close"} => settlement'[q].status # "none"
      <4>1. job[g].at \in {"settle", "close"} => q \in Periods /\ settlement[q].status # "none"
        BY <3>0, <3>1 DEF CloseOK, Typed
      <4>2. \A x \in Periods : settlement[x].status # "none" => settlement'[x].status # "none"
        BY <1>4, <1>7 DEF Ledgers
      <4> QED BY <4>1, <4>2
    <3> QED BY <3>0, <3>1, <3>2, <3>3, <3>4 DEF CloseOK, Overlaps
  <2> QED BY <2>1, <2>2
<1>11. ApartOK'
  <2> DEFINE Split(k, x, y) == \/ Closed(k)[x].owed \cap Closed(k)[y].owed = {}
                               \/ {[l |-> k, p |-> x], [l |-> k, p |-> y]} \cap together # {}
  <2>1. \A k \in Ledgers, x, y \in Periods : x # y => Split(k, x, y)
    BY DEF Closings, ApartOK
  <2>2. ASSUME NEW y \in Periods, y # p, Closed(l)[p].status = "none"
        PROVE  \/ Closed(l)'[p].owed \cap Closed(l)'[y].owed = {}
               \/ {[l |-> l, p |-> p], [l |-> l, p |-> y]} \cap together' # {}
    <3>1. CASE job[h].alone
      <4>1. Closed(l)'[y] = Closed(l)[y] /\ Closed(l)'[p].owed = sum.owed
        BY <1>4, <2>2
      <4>2. \A x \in Closed(l)[y].owed : Matched(x, y)
        BY <1>3 DEF Closings, PeriodOK
      <4>3. Closed(l)[y].status = "none" => Closed(l)[y].owed = {}
        BY <1>3 DEF Closings, PeriodOK
      <4>4. \A x : ~(Matched(x, y) /\ Matched(x, p) /\ x \in Sales /\ ~Overlaps(y, p))
        <5> SUFFICES ASSUME NEW x \in Sales, Matched(x, y), Matched(x, p) PROVE Overlaps(y, p)
          OBVIOUS
        <5>1. sale[x].soldAt \in Int /\ y.from \in Int /\ y.to \in Int /\ p.from \in Int /\ p.to \in Int
          BY <1>3, Shape, PeriodsAssumption, BoundsAssumption DEF Sale, Time
        <5> QED BY <5>1 DEF Matched, Within, Overlaps
      <4> QED BY <1>3, <1>8, <3>1, <4>1, <4>2, <4>3, <4>4
    <3>2. CASE [l |-> l, p |-> p] \in together'
      BY <3>2
    <3> QED BY <1>1, <3>1, <3>2
  <2>3. ASSUME NEW k \in Ledgers, NEW x \in Periods, NEW y \in Periods, x # y
        PROVE  \/ Closed(k)'[x].owed \cap Closed(k)'[y].owed = {}
               \/ {[l |-> k, p |-> x], [l |-> k, p |-> y]} \cap together' # {}
    <3>1. CASE k = l /\ Closed(l)[p].status = "none" /\ x = p
      BY <2>2, <2>3, <3>1
    <3>2. CASE k = l /\ Closed(l)[p].status = "none" /\ y = p
      BY <2>2, <2>3, <3>2
    <3>3. CASE ~(k = l /\ Closed(l)[p].status = "none" /\ p \in {x, y})
      <4>1. Closed(k)'[x] = Closed(k)[x] /\ Closed(k)'[y] = Closed(k)[y]
        BY <1>4, <3>3
      <4> QED BY <1>1, <2>1, <2>3, <4>1
    <3> QED BY <3>1, <3>2, <3>3
  <2> QED BY <2>3 DEF ApartOK
<1>12. Remitted'
  <2>1. \A q \in Periods : settlement[q].owed \subseteq settlement'[q].owed
    <3> SUFFICES ASSUME NEW q \in Periods PROVE settlement[q].owed \subseteq settlement'[q].owed
      OBVIOUS
    <3>1. CASE settlement[q].status = "none"
      BY <1>7, <3>1 DEF Closings, PeriodOK, Ledgers
    <3>2. CASE settlement[q].status # "none"
      BY <1>4, <1>7, <3>2 DEF Ledgers
    <3> QED BY <3>1, <3>2
  <2> QED BY <1>1, <2>1 DEF Closings, Remitted
<1> QED BY <1>9, <1>10, <1>11, <1>12 DEF Closings

\* A step that changes only the status of a closed period.
LEMMA StatusClosings ==
    ASSUME Typed, Closings, UNCHANGED <<sale, late, together>>,
           \A l \in Ledgers, p \in Periods :
             /\ Closed(l)'[p].owed = Closed(l)[p].owed /\ Closed(l)'[p].fee = Closed(l)[p].fee
             /\ Closed(l)'[p].status = "none" <=> Closed(l)[p].status = "none",
           \A g \in Handlers : \/ job'[g] = job[g]
                               \/ job'[g].at \notin PeriodSteps
                               \/ /\ job'[g].at \in {"settle", "close"}
                                  /\ job'[g].p \in Periods
                                  /\ settlement[job'[g].p].status # "none"
    PROVE  Closings'
<1>1. /\ \A x : Cash(x)' = Cash(x)
      /\ \A x, q : Within(x, q)' = Within(x, q) /\ Matched(x, q)' = Matched(x, q)
  BY DEF Cash, Within, Matched
<1>2. /\ settlement = Closed("reseller") /\ settlement' = Closed("reseller")'
      /\ payout = Closed("organizer") /\ payout' = Closed("organizer")'
  BY DEF Closed
<1>3. \A g \in Handlers, l \in Ledgers : Closing(g, l)' => Closing(g, l)
  BY DEF Closing, PeriodSteps
<1>4. ASSUME NEW p \in Periods PROVE PeriodOK(p)'
  <2>1. PeriodOK(p)
    BY DEF Closings
  <2> QED BY <1>1, <1>2, <2>1 DEF PeriodOK, Ledgers
<1>5. ASSUME NEW g \in Handlers PROVE CloseOK(g)'
  <2>1. CASE job'[g] = job[g]
    <3>0. PICK k, q, sum : k = job[g].ledger /\ q = job[g].p /\ sum = job[g].sum
      OBVIOUS
    <3>1. CloseOK(g) /\ k \in Ledgers
      BY <3>0, Shape DEF Closings, Job
    <3>2. job[g].at = "create" =>
            /\ \A x \in sum.owed : Matched(x, q)'
            /\ k = "reseller" => \A x \in Sales \ late' : Cash(x)' /\ Within(x, q)' => x \in sum.owed
            /\ k = "organizer" => \A x \in Sales \ late' :
                                    Matched(x, q)' => x \in sum.owed \cup sum.fee
      BY <1>1, <3>0, <3>1 DEF CloseOK
    <3>3. job[g].at \in {"preview", "create"} /\ job[g].alone =>
            /\ \A f \in Handlers \ {g} : ~Closing(f, k)'
            /\ \A x \in Periods : Closed(k)'[x].status # "none" => ~Overlaps(x, q)
      BY <1>3, <3>0, <3>1 DEF CloseOK
    <3>4. job[g].at \in {"settle", "close"} => settlement'[q].status # "none"
      BY <1>2, <3>0, <3>1 DEF CloseOK, Typed, Ledgers
    <3> QED BY <2>1, <3>0, <3>2, <3>3, <3>4 DEF CloseOK, Overlaps
  <2>2. CASE job'[g].at \notin PeriodSteps
    BY <2>2 DEF CloseOK, PeriodSteps
  <2>3. CASE /\ job'[g].at \in {"settle", "close"}
             /\ job'[g].p \in Periods /\ settlement[job'[g].p].status # "none"
    BY <1>2, <2>3 DEF CloseOK, Ledgers
  <2> QED BY <2>1, <2>2, <2>3
<1>6. ApartOK'
  BY DEF Closings, ApartOK
<1>7. Remitted'
  BY <1>2 DEF Closings, Remitted, Ledgers
<1> QED BY <1>4, <1>5, <1>6, <1>7 DEF Closings

LEMMA SettleClosings ==
    ASSUME Typed, Closings,
           \/ \E h \in Handlers : \/ \E p \in Periods : markResellerSettlementPaid(h, p)
                                  \/ FlipSettled(h)
           \/ \E p \in Periods : markOrganizerPayoutPaid(p)
    PROVE  Closings'
<1>1. CASE \E p \in Periods : markOrganizerPayoutPaid(p)
  <2>1. PICK p \in Periods : markOrganizerPayoutPaid(p)
    BY <1>1
  <2>2. UNCHANGED <<sale, late, together, settlement, job>>
    BY <2>1 DEF markOrganizerPayoutPaid, hist
  <2>3. /\ payout'[p].owed = payout[p].owed /\ payout'[p].fee = payout[p].fee
        /\ payout'[p].status = "settled" /\ payout[p].status = "pending_payment"
        /\ \A q \in Periods \ {p} : payout'[q] = payout[q]
    BY <2>1, Shape DEF markOrganizerPayoutPaid, Typed, TypeOK, Frozen
  <2>4. \A l \in Ledgers, q \in Periods :
          /\ Closed(l)'[q].owed = Closed(l)[q].owed /\ Closed(l)'[q].fee = Closed(l)[q].fee
          /\ Closed(l)'[q].status = "none" <=> Closed(l)[q].status = "none"
    BY <2>2, <2>3 DEF Closed
  <2> QED BY <2>2, <2>4, StatusClosings
<1>2. CASE \E h \in Handlers, p \in Periods : markResellerSettlementPaid(h, p)
  <2>1. PICK h \in Handlers, p \in Periods : markResellerSettlementPaid(h, p)
    BY <1>2
  <2>2. UNCHANGED <<sale, late, together, settlement, payout>>
    BY <2>1 DEF markResellerSettlementPaid, docs, hist
  <2>3. /\ job'[h].at = "settle" /\ job'[h].p = p /\ settlement[p].status = "pending_payment"
        /\ \A g \in Handlers \ {h} : job'[g] = job[g]
    BY <2>1 DEF markResellerSettlementPaid, Begins, Idle, Typed, TypeOK
  <2>4. \A l \in Ledgers : Closed(l)' = Closed(l)
    BY <2>2 DEF Closed
  <2> QED BY <2>2, <2>3, <2>4, StatusClosings
<1>3. CASE \E h \in Handlers : FlipSettled(h)
  <2>1. PICK h \in Handlers : FlipSettled(h)
    BY <1>3
  <2>0. PICK p : p = job[h].p
    OBVIOUS
  <2>2. UNCHANGED <<sale, late, together, payout>>
    BY <2>1 DEF FlipSettled, hist
  <2>3. job'[h] = Idle /\ \A g \in Handlers \ {h} : job'[g] = job[g]
    BY <2>1 DEF FlipSettled, Ends, Typed, TypeOK
  <2>4. p \in Periods /\ settlement[p].status # "none"
    BY <2>0, <2>1 DEF FlipSettled, Typed, Closings, CloseOK
  <2>5. /\ settlement'[p].owed = settlement[p].owed /\ settlement'[p].fee = settlement[p].fee
        /\ settlement'[p].status = "settled"
        /\ \A q \in Periods \ {p} : settlement'[q] = settlement[q]
    BY <2>0, <2>1, <2>4, Shape DEF FlipSettled, Typed, TypeOK, Frozen
  <2>6. \A l \in Ledgers, q \in Periods :
          /\ Closed(l)'[q].owed = Closed(l)[q].owed /\ Closed(l)'[q].fee = Closed(l)[q].fee
          /\ Closed(l)'[q].status = "none" <=> Closed(l)[q].status = "none"
    BY <2>2, <2>4, <2>5 DEF Closed
  <2> QED BY <2>2, <2>3, <2>6, StatusClosings DEF Idle, PeriodSteps
<1> QED BY <1>1, <1>2, <1>3

LEMMA StampClosings ==
    ASSUME Typed, Closings, NEW h \in Handlers, StampRemitted(h)
    PROVE  Closings'
<1>0. PICK p : p = job[h].p
  OBVIOUS
<1>1. /\ UNCHANGED <<settlement, payout, late, together>>
      /\ job[h].at = "settle" /\ p \in Periods /\ settlement[p].status # "none"
  BY <1>0 DEF StampRemitted, docs, hist, Typed, Closings, CloseOK
<1>2. /\ job'[h].at = "close" /\ job'[h].p = p
      /\ \A g \in Handlers \ {h} : job'[g] = job[g]
  BY <1>0, Shape DEF StampRemitted, Goes, Typed, TypeOK, Job
<1>3. \A x \in Sales : /\ sale'[x].status = sale[x].status /\ sale'[x].channel = sale[x].channel
                       /\ sale'[x].soldAt = sale[x].soldAt
                       /\ sale'[x].resellerRemitted
                            => sale[x].resellerRemitted \/ x \in RemittedBy(p)
  BY <1>0, Shape DEF StampRemitted, Sale
<1>4. \A x \in RemittedBy(p) : x \in Sales /\ Cash(x) /\ Within(x, p)
  <2>1. \A x \in Sales : fundsCustody(x) = "reseller" <=> sale[x].channel = "cash"
    BY DEF fundsCustody
  <2>2. \A x \in Sales : sale[x].channel = "cash" /\ sale[x].status # "none"
                          => sale[x].status = "completed"
    BY Shape DEF Typed, Sale
  <2> QED BY <2>1, <2>2 DEF RemittedBy, InCustody, Cash
<1>5. \A x \in Sales : /\ Cash(x)' = Cash(x)
                       /\ \A q : Within(x, q)' = Within(x, q) /\ Matched(x, q)' = Matched(x, q)
  BY <1>3 DEF Cash, Within, Matched
<1>6. \A l \in Ledgers : Closed(l)' = Closed(l)
  BY <1>1 DEF Closed
<1>7. \A l \in Ledgers, q \in Periods : Closed(l)[q].owed \subseteq Sales
  BY Shape DEF Frozen
<1>8. \A g \in Handlers, l \in Ledgers : Closing(g, l)' => Closing(g, l)
  BY <1>2 DEF Closing
<1>9. ASSUME NEW q \in Periods PROVE PeriodOK(q)'
  <2>1. PeriodOK(q)
    BY DEF Closings
  <2> QED BY <1>1, <1>5, <1>6, <1>7, <2>1 DEF PeriodOK
<1>10. ASSUME NEW g \in Handlers PROVE CloseOK(g)'
  <2>1. CASE g = h
    BY <1>1, <1>2, <2>1 DEF CloseOK
  <2>2. CASE g # h
    <3>0. PICK k, q, sum : k = job[g].ledger /\ q = job[g].p /\ sum = job[g].sum
      OBVIOUS
    <3>1. CloseOK(g) /\ k \in Ledgers /\ sum.owed \subseteq Sales /\ job'[g] = job[g]
      BY <1>2, <2>2, <3>0, Shape DEF Closings, Job
    <3>2. job[g].at = "create" =>
            /\ \A x \in sum.owed : Matched(x, q)'
            /\ k = "reseller" => \A x \in Sales \ late' : Cash(x)' /\ Within(x, q)' => x \in sum.owed
            /\ k = "organizer" => \A x \in Sales \ late' :
                                    Matched(x, q)' => x \in sum.owed \cup sum.fee
      BY <1>1, <1>5, <3>0, <3>1 DEF CloseOK
    <3>3. job[g].at \in {"preview", "create"} /\ job[g].alone =>
            /\ \A f \in Handlers \ {g} : ~Closing(f, k)'
            /\ \A x \in Periods : Closed(k)'[x].status # "none" => ~Overlaps(x, q)
      BY <1>6, <1>8, <3>0, <3>1 DEF CloseOK
    <3>4. job[g].at \in {"settle", "close"} => settlement'[q].status # "none"
      BY <1>1, <3>0, <3>1 DEF CloseOK
    <3> QED BY <3>0, <3>1, <3>2, <3>3, <3>4 DEF CloseOK, Overlaps
  <2> QED BY <2>1, <2>2
<1>11. ApartOK'
  BY <1>1, <1>6 DEF Closings, ApartOK
<1>12. Remitted'
  <2>1. \A x \in RemittedBy(p) : x \notin late => x \in settlement[p].owed
    BY <1>1, <1>4 DEF Closings, PeriodOK
  <2> QED BY <1>1, <1>3, <2>1 DEF Closings, Remitted
<1> QED BY <1>9, <1>10, <1>11, <1>12 DEF Closings

-----------------------------------------------------------------------------
(* Every step, and the theorems.                                           *)

\* The steps that leave the withdrawals alone, and those that leave the periods
\* alone.
PeriodStep ==
    \/ Tick
    \/ \E p \in Periods : markOrganizerPayoutPaid(p)
    \/ \E h \in Handlers :
         \/ \E p \in Periods : \/ closeResellerSettlement(h, p) \/ closeOrganizerPayout(h, p)
                               \/ markResellerSettlementPaid(h, p)
         \/ Preview(h) \/ CreateClosed(h) \/ StampRemitted(h) \/ FlipSettled(h) \/ Crash(h)

WithdrawalStep ==
    \/ Tick
    \/ \E r \in Requests : approve(r) \/ reject(r)
    \/ \E h \in Handlers :
         \/ \E r \in Requests : CreateRequest(h, r) \/ markPaid(h, r)
         \/ requestWithdrawal(h) \/ CountCommission(h) \/ StampWithdrawn(h) \/ FlipPaid(h)
         \/ Crash(h)

LEMMA PeriodStepCommissions == Typed /\ Commissions /\ PeriodStep => Commissions'
<1> SUFFICES ASSUME Typed, Commissions, PeriodStep PROVE Commissions'
  OBVIOUS
<1>1. UNCHANGED <<withdrawal, late, crossed, tried>>
  BY DEF PeriodStep, Tick, markOrganizerPayoutPaid, closeResellerSettlement, closeOrganizerPayout,
         BeginClose, markResellerSettlementPaid, Preview, CreateClosed, StampRemitted, FlipSettled,
         Crash, docs, hist
<1>2. \A s \in Sales : /\ sale'[s].status = sale[s].status /\ sale'[s].channel = sale[s].channel
                       /\ sale'[s].soldAt = sale[s].soldAt
                       /\ sale'[s].commissionWithdrawn = sale[s].commissionWithdrawn
  <2>1. CASE \E h \in Handlers : StampRemitted(h)
    BY <2>1, Shape DEF StampRemitted, Sale
  <2>2. CASE ~\E h \in Handlers : StampRemitted(h)
    <3>1. sale' = sale
      BY <2>2 DEF PeriodStep, Tick, markOrganizerPayoutPaid, closeResellerSettlement,
                  closeOrganizerPayout, BeginClose, markResellerSettlementPaid, Preview,
                  CreateClosed, FlipSettled, Crash
    <3> QED BY <3>1
  <2> QED BY <2>1, <2>2
<1>3. \A g \in Handlers : job'[g].at \in Withdrawing => job'[g] = job[g]
  <2>1. CASE Tick \/ \E p \in Periods : markOrganizerPayoutPaid(p)
    BY <2>1 DEF Tick, markOrganizerPayoutPaid
  <2>2. ASSUME NEW h \in Handlers, NEW l \in Ledgers, NEW p \in Periods, BeginClose(h, l, p)
        PROVE  \A g \in Handlers : job'[g].at \in Withdrawing => job'[g] = job[g]
    BY <2>2, Shape DEF BeginClose, Closing, Withdrawing, Idle, Job
  <2>3. ASSUME NEW h \in Handlers, NEW p \in Periods, markResellerSettlementPaid(h, p)
        PROVE  \A g \in Handlers : job'[g].at \in Withdrawing => job'[g] = job[g]
    BY <2>3 DEF markResellerSettlementPaid, Begins, Withdrawing, Idle, Typed, TypeOK
  <2>4. ASSUME NEW h \in Handlers, Preview(h)
        PROVE  \A g \in Handlers : job'[g].at \in Withdrawing => job'[g] = job[g]
    <3>1. \E sum : job' = [job EXCEPT ![h].at = "create", ![h].sum = sum]
      BY <2>4 DEF Preview
    <3> QED BY <3>1, Shape DEF Withdrawing, Typed, TypeOK, Job
  <2>5. ASSUME NEW h \in Handlers, CreateClosed(h) \/ FlipSettled(h) \/ Crash(h)
        PROVE  \A g \in Handlers : job'[g].at \in Withdrawing => job'[g] = job[g]
    BY <2>5 DEF CreateClosed, FlipSettled, Crash, Ends, Withdrawing, Idle, Typed, TypeOK
  <2>6. ASSUME NEW h \in Handlers, StampRemitted(h)
        PROVE  \A g \in Handlers : job'[g].at \in Withdrawing => job'[g] = job[g]
    BY <2>6, Shape DEF StampRemitted, Goes, Withdrawing, Typed, TypeOK, Job
  <2> QED BY <2>1, <2>2, <2>3, <2>4, <2>5, <2>6
      DEF PeriodStep, closeResellerSettlement, closeOrganizerPayout, Ledgers
<1>4. /\ \A r \in Requests : withdrawal[r].amount \subseteq Sales
      /\ \A g \in Handlers : job[g].sum.owed \subseteq Sales
      /\ \A g \in Handlers : job[g].at \in {"pay", "flip"} => job[g].r \in Requests
  BY Shape DEF Withdrawal, Job, Typed
<1>5. SalesKept
  BY <1>2 DEF SalesKept
<1> QED BY <1>1, <1>2, <1>3, <1>4, <1>5, CommissionsKept

LEMMA WithdrawalStepClosings == Typed /\ Closings /\ WithdrawalStep => Closings'
<1> SUFFICES ASSUME Typed, Closings, WithdrawalStep PROVE Closings'
  OBVIOUS
<1>1. UNCHANGED <<settlement, payout, late, together>>
  BY DEF WithdrawalStep, Tick, approve, reject, CreateRequest, markPaid, requestWithdrawal,
         CountCommission, StampWithdrawn, FlipPaid, Crash, docs, hist
<1>2. \A s \in Sales : /\ sale'[s].status = sale[s].status /\ sale'[s].channel = sale[s].channel
                       /\ sale'[s].soldAt = sale[s].soldAt
                       /\ sale'[s].resellerRemitted = sale[s].resellerRemitted
  <2>1. CASE \E h \in Handlers : StampWithdrawn(h)
    BY <2>1, Shape DEF StampWithdrawn, Sale
  <2>2. CASE ~\E h \in Handlers : StampWithdrawn(h)
    <3>1. sale' = sale
      BY <2>2 DEF WithdrawalStep, Tick, approve, reject, CreateRequest, markPaid,
                  requestWithdrawal, CountCommission, FlipPaid, Crash
    <3> QED BY <3>1
  <2> QED BY <2>1, <2>2
<1>3. \A g \in Handlers : job'[g].at \in PeriodSteps => job'[g] = job[g]
  <2>1. CASE Tick \/ \E r \in Requests : approve(r) \/ reject(r)
    BY <2>1 DEF Tick, approve, reject, hist
  <2>2. ASSUME NEW h \in Handlers, NEW r \in Requests, CreateRequest(h, r) \/ markPaid(h, r)
        PROVE  \A g \in Handlers : job'[g].at \in PeriodSteps => job'[g] = job[g]
    <3>1. CASE CreateRequest(h, r)
      BY <3>1 DEF CreateRequest, Ends, PeriodSteps, Idle, Typed, TypeOK
    <3>2. CASE markPaid(h, r)
      BY <3>2 DEF markPaid, Begins, PeriodSteps, Idle, Typed, TypeOK
    <3> QED BY <2>2, <3>1, <3>2
  <2>3. ASSUME NEW h \in Handlers, requestWithdrawal(h)
        PROVE  \A g \in Handlers : job'[g].at \in PeriodSteps => job'[g] = job[g]
    <3>1. job'[h].at = "ask"
      BY <2>3 DEF requestWithdrawal, Idle
    <3>2. \A g \in Handlers \ {h} : IF Asking(g) THEN job'[g].at \in {"ask", "count"}
                                                ELSE job'[g] = job[g]
      BY <2>3, Shape DEF requestWithdrawal, Asking, Job
    <3> QED BY <3>1, <3>2 DEF PeriodSteps
  <2>4. ASSUME NEW h \in Handlers, CountCommission(h)
        PROVE  \A g \in Handlers : job'[g].at \in PeriodSteps => job'[g] = job[g]
    BY <2>4, Shape DEF CountCommission, Ends, PeriodSteps, Idle, Typed, TypeOK, Job
  <2>5. ASSUME NEW h \in Handlers, FlipPaid(h) \/ Crash(h)
        PROVE  \A g \in Handlers : job'[g].at \in PeriodSteps => job'[g] = job[g]
    BY <2>5 DEF FlipPaid, Crash, Ends, PeriodSteps, Idle, Typed, TypeOK
  <2>6. ASSUME NEW h \in Handlers, StampWithdrawn(h)
        PROVE  \A g \in Handlers : job'[g].at \in PeriodSteps => job'[g] = job[g]
    BY <2>6, Shape DEF StampWithdrawn, Goes, PeriodSteps, Typed, TypeOK, Job
  <2> QED BY <2>1, <2>2, <2>3, <2>4, <2>5, <2>6 DEF WithdrawalStep
<1>4. /\ \A l \in Ledgers, p \in Periods : Closed(l)[p].owed \subseteq Sales
      /\ \A h \in Handlers : job[h].sum.owed \subseteq Sales /\ job[h].ledger \in Ledgers
  BY Shape DEF Frozen, Job
<1>5. SalesKept
  BY <1>2 DEF SalesKept
<1> QED BY <1>1, <1>2, <1>3, <1>4, <1>5, ClosingsKept

LEMMA NextIInv == IInv /\ [Next]_vars => IInv'
<1> SUFFICES ASSUME IInv, [Next]_vars PROVE IInv'
  OBVIOUS
<1>1. Typed /\ Commissions /\ Closings
  BY DEF IInv
<1>2. Typed'
  BY <1>1, NextTyped
<1>3. CASE \E s \in Sales : Complete(s) \/ \E c \in Channels : Sell(s, c)
  BY <1>1, <1>2, <1>3, SaleCommissions, SaleClosings DEF IInv
<1>4. CASE WithdrawalStep
  <2>1. Closings'
    BY <1>1, <1>4, WithdrawalStepClosings
  <2>2. Commissions'
    <3>1. CASE PeriodStep
      BY <1>1, <3>1, PeriodStepCommissions
    <3>2. CASE ~PeriodStep
      BY <1>1, <1>4, <3>2, DecideCommissions, CreateCommissions, BeginPayCommissions,
         AskCommissions, CountCommissions, StampCommissions, FlipCommissions
      DEF WithdrawalStep, PeriodStep
    <3> QED BY <3>1, <3>2
  <2> QED BY <1>2, <2>1, <2>2 DEF IInv
<1>5. CASE PeriodStep
  <2>1. Commissions'
    BY <1>1, <1>5, PeriodStepCommissions
  <2>2. Closings'
    <3>1. CASE WithdrawalStep
      BY <1>1, <3>1, WithdrawalStepClosings
    <3>2. CASE ~WithdrawalStep
      BY <1>1, <1>5, <3>2, BeginClosings, PreviewClosings, CreateClosings, SettleClosings,
         StampClosings
      DEF WithdrawalStep, PeriodStep, closeResellerSettlement, closeOrganizerPayout, Ledgers
    <3> QED BY <3>1, <3>2
  <2> QED BY <1>2, <2>1, <2>2 DEF IInv
<1>6. CASE UNCHANGED vars
  <2>1. UNCHANGED <<sale, withdrawal, settlement, payout, job, late, crossed, tried, together>>
    BY <1>6 DEF vars, docs, hist
  <2>2. /\ SalesKept
        /\ \A r \in Requests : withdrawal[r].amount \subseteq Sales
        /\ \A g \in Handlers : job[g].at \in {"pay", "flip"} => job[g].r \in Requests
        /\ \A l \in Ledgers, p \in Periods : Closed(l)[p].owed \subseteq Sales
        /\ \A h \in Handlers : job[h].sum.owed \subseteq Sales /\ job[h].ledger \in Ledgers
    <3>1. SalesKept
      BY <2>1 DEF SalesKept
    <3>2. /\ \A r \in Requests : withdrawal[r].amount \subseteq Sales
          /\ \A l \in Ledgers, p \in Periods : Closed(l)[p].owed \subseteq Sales
      BY <1>1, Shape DEF Withdrawal, Frozen
    <3>3. /\ \A g \in Handlers : job[g].at \in {"pay", "flip"} => job[g].r \in Requests
          /\ \A h \in Handlers : job[h].sum.owed \subseteq Sales /\ job[h].ledger \in Ledgers
      BY <1>1, Shape DEF Typed, Job
    <3> QED BY <3>1, <3>2, <3>3
  <2>3. Commissions' /\ Closings'
    BY <1>1, <2>1, <2>2, CommissionsKept, ClosingsKept
  <2> QED BY <1>2, <2>3 DEF IInv
<1> QED BY <1>3, <1>4, <1>5, <1>6 DEF Next, Step, WithdrawalStep, PeriodStep

\* The invariant holds throughout every behaviour.
THEOREM Invariance == Spec => []IInv
<1> QED BY InitIInv, NextIInv, PTL DEF Spec

\* The documents, the stamps and what each handler has read keep their types.
THEOREM TypeCorrect == Spec => []TypeOK
<1>1. IInv => TypeOK
  BY DEF IInv, Typed
<1> QED BY <1>1, Invariance, PTL

\* No commission is paid in two withdrawals, however many handlers pay, crash
\* and pay again, but for the two exceptions the property names.
THEOREM PaidOnce == Spec => []CommissionPaidOnce
<1>1. IInv => CommissionPaidOnce
  <2> SUFFICES ASSUME IInv, NEW r \in Requests, NEW q \in Requests, r # q,
                      withdrawal[r].status = "paid", withdrawal[q].status = "paid",
                      withdrawal[r].amount \cap withdrawal[q].amount # {}
               PROVE  {r, q} \cap crossed # {}
    BY DEF CommissionPaidOnce
  <2>1. Harmless(r) \/ Harmless(q)
    BY DEF IInv, Commissions, PairsOK
  <2> QED BY <2>1 DEF Harmless
<1> QED BY <1>1, Invariance, PTL

\* A sale stamped as withdrawn is in a withdrawal that is paid or can still be.
THEOREM StampsBacked == Spec => []StampedIsPaid
<1>1. IInv => StampedIsPaid
  <2> SUFFICES ASSUME IInv, NEW s \in Sales \ late, sale[s].commissionWithdrawn
               PROVE  \E r \in Requests : /\ s \in withdrawal[r].amount
                                          /\ withdrawal[r].status # "rejected" \/ r \in crossed
    BY DEF StampedIsPaid
  <2>1. PICK r \in tried : s \in withdrawal[r].amount
    BY DEF IInv, Commissions, Backed, Stamped
  <2>2. r \in Requests
    BY DEF IInv, Typed, TypeOK
  <2>3. withdrawal[r].status = "rejected" => r \in crossed
    BY <2>2 DEF IInv, Commissions, RequestOK
  <2> QED BY <2>1, <2>2, <2>3
<1> QED BY <1>1, Invariance, PTL

\* A sale is owed once per ledger and in the period it falls into.
THEOREM PeriodsAddUp == Spec => []ClosedPeriodsAddUp
<1>1. IInv => ClosedPeriodsAddUp
  <2> SUFFICES ASSUME IInv PROVE ClosedPeriodsAddUp
    OBVIOUS
  <2>1. \A p : periodMatch(p) = {s \in Sales : Matched(s, p)}
    BY DEF periodMatch, Completed, Matched
  <2>2. \A l \in Ledgers : \A p, q \in Periods :
          p # q /\ Closed(l)[p].owed \cap Closed(l)[q].owed # {}
            => {[l |-> l, p |-> p], [l |-> l, p |-> q]} \cap together # {}
    BY DEF IInv, Closings, ApartOK
  <2>3. \A s \in Sales \ late :
          sale[s].resellerRemitted => \E p \in Periods : s \in settlement[p].owed
    BY DEF IInv, Closings, Remitted
  <2>4. \A s \in Sales \ late, p \in Periods :
          payout[p].status # "none" /\ s \in periodMatch(p)
            => s \in payout[p].owed \cup payout[p].fee
    BY <2>1 DEF IInv, Closings, PeriodOK
  <2> QED BY <2>2, <2>3, <2>4 DEF ClosedPeriodsAddUp
<1> QED BY <1>1, Invariance, PTL
=============================================================================
