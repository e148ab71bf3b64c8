----------------------------- MODULE TicketSales -----------------------------
(***************************************************************************)
(* Ticket sales of one tier of one event: the five asynchronous payment    *)
(* rails of TicketService (initiate, finalize, reconcile), the synchronous *)
(* sale (sellTickets), the inventory holds of ReservationService and the   *)
(* counters EventService keeps on the tier.                                *)
(*                                                                         *)
(* A step of a process is one await of the code: one read or one write of  *)
(* one document, or one call to a payment provider.  The counters are read *)
(* into `doc' by one step (Event.findById) and written back by a later one *)
(* (event.save, which writes the counter this handler changed and no       *)
(* other), so that two handlers may lose each other's updates.             *)
(*                                                                         *)
(* Left out: prices and fees (one amount per sale, which the provider      *)
(* confirms exactly or not), names, phones, SMS and e-mail, the event's    *)
(* lifecycle (the event is published) and the check-in of tickets.         *)
(***************************************************************************)
EXTENDS Integers, FiniteSets, FiniteSetsExt

CONSTANTS
    Sales,      \* the purchases buyers may attempt; one TicketSale each
    Qty,        \* Qty[s]: tickets asked for by s
    Capacity,   \* ticketType.quantity
    Rails,      \* the payment methods offered
    Handlers,   \* HTTP requests the server may have in flight at once
    Overlap,    \* FALSE: a request or a job starts only when nothing runs
    MaxFaults,  \* bound: requests and jobs cut short by an error or a crash
    MaxRefunds, \* bound: refunded tickets of one sale
    NoSale      \* the sale of an idle process

Polled     == {"MTN_MOMO", "PEACH_CARD", "DELTAPAY"}
NoAutoFail == {"YOCO", "YEBOPAY"}
Reconciled == {"PEACH_CARD", "DELTAPAY", "YEBOPAY"}
AllRails   == Polled \cup NoAutoFail \cup {"CASH"}

\* The background jobs; a reconcile job carries the name of its rail.
Sweeper     == "sweeper"
Reconcilers == Reconciled \cap Rails
Jobs        == {Sweeper} \cup Reconcilers
Procs       == Handlers \cup Jobs

ASSUME SalesAssumption ==
    /\ Qty \in [Sales -> Nat \ {0}]
    /\ Capacity \in Nat \ {0}
    /\ Rails \subseteq AllRails
    /\ Handlers \cap ({Sweeper} \cup Reconciled) = {}
    /\ Overlap \in BOOLEAN
    /\ MaxFaults \in Nat /\ MaxRefunds \in Nat
    /\ NoSale \notin Sales

VARIABLES
    rail,      \* paymentMethod of each sale
    status,    \* paymentStatus; "none" before the document exists
    ref,       \* the provider's reference is stored on the sale
    sent,      \* history: the sales whose buyer was sent to the payment page
    hold,      \* TicketReservation.status; "none" before it exists
    lapsed,    \* the reservation's expiresAt is past
    minted,    \* tickets that exist for the sale
    refunded,  \* of those, the ones refunded
    tier,      \* the counters stored on the event: [reserved, sold]
    checkout,  \* what the provider knows of the payment
    posted,    \* webhook events the provider has posted, in any order, again
               \* and again or never delivered
    job,       \* each process: where it is, its sale and what it has read
    todo,      \* the rest of the list a job works through
    faults

saleVars == <<rail, status, ref, sent, minted, refunded>>
holdVars == <<hold, lapsed>>
payVars  == <<checkout, posted>>
vars     == <<saleVars, holdVars, payVars, tier, job, todo, faults>>

NoDoc   == [reserved |-> 0, sold |-> 0]
IdleJob == [pc |-> "idle", sale |-> NoSale, goal |-> "none", ans |-> "none",
            doc |-> NoDoc, n |-> 0, dirty |-> FALSE]

Tier    == [reserved : Nat, sold : Nat]
Answers == {"success", "mismatch", "rejected"}
PCs     == {"idle", "next", "create", "res_read", "res_write", "res_create",
            "provider", "store", "load", "query", "ask", "claim", "mint",
            "find", "hold_read", "hold_write", "hold_save", "fail",
            "sweep_fail", "sold_read", "sold_write", "commit"}
Job     == [pc : PCs, sale : Sales \cup {NoSale},
            goal : {"none", "confirm", "release", "sweep", "sell"},
            ans : Answers \cup {"none"}, doc : Tier, n : Nat,
           dirty : BOOLEAN]   \* the sale in hand has a reference not saved

TypeOK ==
    /\ rail     \in [Sales -> Rails]
    /\ status   \in [Sales -> {"none", "PENDING", "COMPLETED", "FAILED"}]
    /\ ref      \in [Sales -> BOOLEAN]
    /\ sent     \in SUBSET Sales
    /\ hold     \in [Sales -> {"none", "held", "confirmed", "released"}]
    /\ lapsed   \in [Sales -> BOOLEAN]
    /\ minted   \in [Sales -> Nat]
    /\ refunded \in [Sales -> Nat]
    /\ tier     \in Tier
    /\ checkout \in [Sales -> {"none", "open", "paid", "mismatch", "rejected"}]
    /\ posted   \in [Sales -> SUBSET Answers]
    /\ job      \in [Procs -> Job]
    /\ todo     \in [Procs -> SUBSET Sales]
    /\ faults   \in Nat

Init ==
    /\ rail     \in [Sales -> Rails]
    /\ status   = [s \in Sales |-> "none"]
    /\ ref      = [s \in Sales |-> FALSE]
    /\ sent     = {}
    /\ hold     = [s \in Sales |-> "none"]
    /\ lapsed   = [s \in Sales |-> FALSE]
    /\ minted   = [s \in Sales |-> 0]
    /\ refunded = [s \in Sales |-> 0]
    /\ tier     = NoDoc
    /\ checkout = [s \in Sales |-> "none"]
    /\ posted   = [s \in Sales |-> {}]
    /\ job      = [p \in Procs |-> IdleJob]
    /\ todo     = [p \in Procs |-> {}]
    /\ faults   = 0

-----------------------------------------------------------------------------
(* Helpers.                                                                *)

NonNeg(x) == IF x < 0 THEN 0 ELSE x                        \* Math.max(0, x)

\* computeAvailable: what the tier can still sell.
ComputeAvailable(t) == NonNeg(Capacity - t.sold - t.reserved)

At(p, label) == job[p].pc = label
Goto(p, label) == job' = [job EXCEPT ![p].pc = label]

MayStart(p) ==
    /\ At(p, "idle")
    /\ Overlap \/ \A q \in Procs : At(q, "idle")

Begin(p, label, s) ==
    job' = [job EXCEPT ![p] = [IdleJob EXCEPT !.pc = label, !.sale = s]]

\* The handler returns or throws; a job goes on with the rest of its list.
Finish(p) ==
    job' = [job EXCEPT ![p] =
              [IdleJob EXCEPT !.pc = IF todo[p] = {} THEN "idle" ELSE "next"]]

\* Success mints; a rejection, or a confirmed amount or currency other than
\* the one asked for, releases the hold and fails the sale.
Decide(p, a) ==
    job' = [job EXCEPT ![p] =
              [@ EXCEPT !.ans  = a,
                        !.pc   = IF a = "success" THEN "claim" ELSE "find",
                        !.goal = IF a = "success" THEN "confirm" ELSE "release"]]

\* No document and no request for s yet.
Unborn(s) == status[s] = "none" /\ \A q \in Procs : job[q].sale # s

-----------------------------------------------------------------------------
(* initiate*Purchase: check, PENDING sale, hold, provider, reference.      *)

Initiate(p, s) ==
    /\ MayStart(p)
    /\ rail[s] # "CASH" /\ Unborn(s)
    /\ ComputeAvailable(tier) >= Qty[s]
    /\ Begin(p, "create", s)
    /\ UNCHANGED <<saleVars, holdVars, payVars, tier, todo, faults>>

CreateSale(p) ==
    /\ At(p, "create")
    /\ status' = [status EXCEPT ![job[p].sale] = "PENDING"]
    /\ Goto(p, "res_read")
    /\ UNCHANGED <<rail, ref, sent, minted, refunded, holdVars, payVars, tier, todo, faults>>

\* adjustReserved(+quantity): the read, then the write.
ReserveRead(p) ==
    /\ At(p, "res_read")
    /\ job' = [job EXCEPT ![p].pc = "res_write", ![p].doc = tier]
    /\ UNCHANGED <<saleVars, holdVars, payVars, tier, todo, faults>>

ReserveWrite(p) ==
    /\ At(p, "res_write")
    /\ tier' = [tier EXCEPT !.reserved = job[p].doc.reserved + Qty[job[p].sale]]
    /\ job' = [job EXCEPT ![p].pc = "res_create", ![p].doc = NoDoc]
    /\ UNCHANGED <<saleVars, holdVars, payVars, todo, faults>>

CreateHold(p) ==
    /\ At(p, "res_create")
    /\ hold' = [hold EXCEPT ![job[p].sale] = "held"]
    /\ Goto(p, "provider")
    /\ UNCHANGED <<saleVars, lapsed, payVars, tier, todo, faults>>

\* The provider opens a checkout, or the call throws -- before or after the
\* provider has opened one -- and the hold is released and the sale failed.
CallProvider(p) ==
    /\ At(p, "provider")
    /\ \E ok, opened \in BOOLEAN :
         /\ ok => opened
         /\ checkout' = [checkout EXCEPT ![job[p].sale] =
                           IF opened THEN "open" ELSE @]
         /\ job' = [job EXCEPT ![p].pc   = IF ok THEN "store" ELSE "find",
                               ![p].goal = IF ok THEN "none" ELSE "release"]
    /\ UNCHANGED <<saleVars, holdVars, posted, tier, todo, faults>>

\* The reference is saved and the buyer sent to pay.  A save that throws may
\* have been written all the same; the catch keeps the document, on which the
\* reference is still to be saved.
StoreRef(p) ==
    /\ At(p, "store")
    /\ \/ /\ ref' = [ref EXCEPT ![job[p].sale] = TRUE]
          /\ sent' = sent \cup {job[p].sale}
          /\ Finish(p)
       \/ /\ \E written \in BOOLEAN : ref' = [ref EXCEPT ![job[p].sale] = @ \/ written]
          /\ job' = [job EXCEPT ![p].pc = "find", ![p].goal = "release", ![p].dirty = TRUE]
          /\ UNCHANGED sent
    /\ UNCHANGED <<rail, status, minted, refunded, holdVars, payVars, tier, todo, faults>>

-----------------------------------------------------------------------------
(* sellTickets: availability and charge; tickets and sale inside a         *)
(* transaction, updateTicketsSold outside it, then the commit.             *)

SellTickets(p, s) ==
    /\ MayStart(p)
    /\ rail[s] = "CASH" /\ Unborn(s)
    /\ ComputeAvailable(tier) >= Qty[s]
    /\ job' = [job EXCEPT ![p] =
                 [IdleJob EXCEPT !.pc = "sold_read", !.sale = s, !.goal = "sell"]]
    /\ UNCHANGED <<saleVars, holdVars, payVars, tier, todo, faults>>

CommitSale(p) ==
    /\ At(p, "commit")
    /\ status' = [status EXCEPT ![job[p].sale] = "COMPLETED"]
    /\ minted' = [minted EXCEPT ![job[p].sale] = Qty[job[p].sale]]
    /\ Finish(p)
    /\ UNCHANGED <<rail, ref, sent, refunded, holdVars, payVars, tier, todo, faults>>

\* Mutant of RefundTicket: the tier's sold count is left alone.
RefundKeepsSold(s) ==
    /\ Overlap \/ \A q \in Procs : At(q, "idle")
    /\ refunded[s] < minted[s] /\ refunded[s] < MaxRefunds
    /\ refunded' = [refunded EXCEPT ![s] = @ + 1]
    /\ UNCHANGED <<rail, status, ref, sent, minted, holdVars, payVars, tier, job, todo, faults>>

\* refundTicket runs in one transaction; sold has a schema minimum of 0.
RefundTicket(s) ==
    /\ Overlap \/ \A q \in Procs : At(q, "idle")
    /\ refunded[s] < minted[s] /\ refunded[s] < MaxRefunds
    /\ tier.sold >= 1
    /\ refunded' = [refunded EXCEPT ![s] = @ + 1]
    /\ tier' = [tier EXCEPT !.sold = @ - 1]
    /\ UNCHANGED <<rail, status, ref, sent, minted, holdVars, payVars, job, todo, faults>>

-----------------------------------------------------------------------------
(* finalize*Sale: the ways in, the early return, the provider's answer.    *)

\* A status poll or a callback of a polled rail: the finalizer asks itself.
StartPoll(p, s) ==
    /\ MayStart(p)
    /\ rail[s] \in Polled /\ ref[s]
    /\ Begin(p, "load", s)
    /\ UNCHANGED <<saleVars, holdVars, payVars, tier, todo, faults>>

\* A verified webhook of YOCO or YEBOPAY: the event is the answer.
StartWebhook(p, s) ==
    /\ MayStart(p)
    /\ rail[s] \in NoAutoFail /\ ref[s]
    /\ \E e \in posted[s] :
         job' = [job EXCEPT ![p] =
                   [IdleJob EXCEPT !.pc = "load", !.sale = s, !.ans = e]]
    /\ UNCHANGED <<saleVars, holdVars, payVars, tier, todo, faults>>

\* The buyer's browser comes back from the YeboPay page.
StartReturn(p, s) ==
    /\ MayStart(p)
    /\ rail[s] = "YEBOPAY" /\ ref[s]
    /\ Begin(p, "query", s)
    /\ UNCHANGED <<saleVars, holdVars, payVars, tier, todo, faults>>

\* What the provider answers when asked, with the amount guard applied.
Outcome(s) ==
    CASE checkout[s] = "paid"     -> "success"
      [] checkout[s] = "mismatch" -> "mismatch"
      [] checkout[s] = "rejected" -> "rejected"
      [] OTHER                    -> "pending"

\* returnRedirect sends everything that is not COMPLETED as checkout.expired.
ReturnOutcome(s) ==
    IF checkout[s] \in {"paid", "mismatch"} THEN Outcome(s) ELSE "rejected"

\* getCheckout, asked before the sale is read; the reconcile job goes on to
\* the next sale while the checkout is open.
QueryCheckout(p) ==
    /\ At(p, "query")
    /\ LET a == IF p \in Handlers THEN ReturnOutcome(job[p].sale)
                ELSE Outcome(job[p].sale)
       IN  IF a = "pending" THEN Finish(p)
           ELSE job' = [job EXCEPT ![p].pc = "load", ![p].ans = a]
    /\ UNCHANGED <<saleVars, holdVars, payVars, tier, todo, faults>>

\* TicketSale.findOne: a sale that is not PENDING is returned as it is.
LoadSale(p) ==
    /\ At(p, "load")
    /\ IF status[job[p].sale] # "PENDING" THEN Finish(p)
       ELSE IF rail[job[p].sale] \in Polled THEN Goto(p, "ask")
       ELSE Decide(p, job[p].ans)
    /\ UNCHANGED <<saleVars, holdVars, payVars, tier, todo, faults>>

AskProvider(p) ==
    /\ At(p, "ask")
    /\ LET a == Outcome(job[p].sale)
       IN  IF a = "pending" THEN Finish(p) ELSE Decide(p, a)
    /\ UNCHANGED <<saleVars, holdVars, payVars, tier, todo, faults>>

\* Mutant of Claim: paymentStatus set without the PENDING filter.
ClaimUnconditional(p) ==
    /\ At(p, "claim")
    /\ status' = [status EXCEPT ![job[p].sale] = "COMPLETED"]
    /\ Goto(p, "mint")
    /\ UNCHANGED <<rail, ref, sent, minted, refunded, holdVars, payVars, tier, todo, faults>>

\* Mutant of Claim: a claim that finds nothing goes on to the tickets.
ClaimResultIgnored(p) ==
    /\ At(p, "claim")
    /\ status' = [status EXCEPT ![job[p].sale] = IF @ = "PENDING" THEN "COMPLETED" ELSE @]
    /\ Goto(p, "mint")
    /\ UNCHANGED <<rail, ref, sent, minted, refunded, holdVars, payVars, tier, todo, faults>>

\* findOneAndUpdate({_id, PENDING}, COMPLETED); a lost claim returns.
Claim(p) ==
    /\ At(p, "claim")
    /\ IF status[job[p].sale] = "PENDING"
       THEN /\ status' = [status EXCEPT ![job[p].sale] = "COMPLETED"]
            /\ Goto(p, "mint")
       ELSE Finish(p) /\ UNCHANGED status
    /\ UNCHANGED <<rail, ref, sent, minted, refunded, holdVars, payVars, tier, todo, faults>>

\* Mutant of MintTicket: the reservation is not confirmed after the loop.
MintWithoutConfirm(p) ==
    /\ At(p, "mint")
    /\ minted' = [minted EXCEPT ![job[p].sale] = @ + 1]
    /\ job' = [job EXCEPT ![p].n  = @ + 1,
                          ![p].pc = IF job[p].n + 1 < Qty[job[p].sale]
                                    THEN "mint" ELSE "sold_read"]
    /\ UNCHANGED <<rail, status, ref, sent, refunded, holdVars, payVars, tier, todo, faults>>

\* One ticket saved per turn of the loop, then confirm.
MintTicket(p) ==
    /\ At(p, "mint")
    /\ minted' = [minted EXCEPT ![job[p].sale] = @ + 1]
    /\ job' = [job EXCEPT ![p].n  = @ + 1,
                          ![p].pc = IF job[p].n + 1 < Qty[job[p].sale]
                                    THEN "mint" ELSE "find"]
    /\ UNCHANGED <<rail, status, ref, sent, refunded, holdVars, payVars, tier, todo, faults>>

-----------------------------------------------------------------------------
(* ReservationService.confirm, release and the body of sweepExpired:       *)
(* adjustReserved(-quantity), then the reservation's new status.           *)

\* What follows the hold: the counters, FAILED, or the conditional FAILED.
After(goal) == CASE goal = "confirm" -> "sold_read"
                 [] goal = "release" -> "fail"
                 [] OTHER            -> "sweep_fail"

FindHold(p) ==
    /\ At(p, "find")
    /\ Goto(p, IF hold[job[p].sale] = "held" THEN "hold_read"
               ELSE After(job[p].goal))
    /\ UNCHANGED <<saleVars, holdVars, payVars, tier, todo, faults>>

HoldRead(p) ==
    /\ At(p, "hold_read")
    /\ job' = [job EXCEPT ![p].pc = "hold_write", ![p].doc = tier]
    /\ UNCHANGED <<saleVars, holdVars, payVars, tier, todo, faults>>

\* A counter the handler found at 0 is not modified, hence not saved.
HoldWrite(p) ==
    /\ At(p, "hold_write")
    /\ LET d == job[p].doc.reserved
       IN  tier' = IF d = 0 THEN tier
                   ELSE [tier EXCEPT !.reserved = NonNeg(d - Qty[job[p].sale])]
    /\ job' = [job EXCEPT ![p].pc = "hold_save", ![p].doc = NoDoc]
    /\ UNCHANGED <<saleVars, holdVars, payVars, todo, faults>>

\* Mutant of HoldSave: the reservation's new status is not saved.
HoldSaveForgotten(p) ==
    /\ At(p, "hold_save")
    /\ Goto(p, After(job[p].goal))
    /\ UNCHANGED <<saleVars, holdVars, payVars, tier, todo, faults>>

HoldSave(p) ==
    /\ At(p, "hold_save")
    /\ hold' = [hold EXCEPT ![job[p].sale] =
                  IF job[p].goal = "confirm" THEN "confirmed" ELSE "released"]
    /\ Goto(p, After(job[p].goal))
    /\ UNCHANGED <<saleVars, lapsed, payVars, tier, todo, faults>>

\* sale.paymentStatus = FAILED; sale.save(), whatever is stored by now; in the
\* initiator's catch the same save stores a reference whose own save threw.
FailSale(p) ==
    /\ At(p, "fail")
    /\ status' = [status EXCEPT ![job[p].sale] = "FAILED"]
    /\ ref' = [ref EXCEPT ![job[p].sale] = @ \/ job[p].dirty]
    /\ Finish(p)
    /\ UNCHANGED <<rail, sent, minted, refunded, holdVars, payVars, tier, todo, faults>>

\* Mutant of SweepFail: the carve-out of YOCO and YEBOPAY is missing.
SweepFailEveryRail(p) ==
    /\ At(p, "sweep_fail")
    /\ status' = [status EXCEPT ![job[p].sale] =
                    IF @ = "PENDING" THEN "FAILED" ELSE @]
    /\ Finish(p)
    /\ UNCHANGED <<rail, ref, sent, minted, refunded, holdVars, payVars, tier, todo, faults>>

\* Mutant of SweepFail: the PENDING filter is missing.
SweepFailAnyStatus(p) ==
    /\ At(p, "sweep_fail")
    /\ status' = [status EXCEPT ![job[p].sale] =
                    IF rail[job[p].sale] \notin NoAutoFail THEN "FAILED" ELSE @]
    /\ Finish(p)
    /\ UNCHANGED <<rail, ref, sent, minted, refunded, holdVars, payVars, tier, todo, faults>>

\* The sweep's updateOne: PENDING sales only, and not of the rails left out.
SweepFail(p) ==
    /\ At(p, "sweep_fail")
    /\ status' = [status EXCEPT ![job[p].sale] =
                    IF @ = "PENDING" /\ rail[job[p].sale] \notin NoAutoFail
                    THEN "FAILED" ELSE @]
    /\ Finish(p)
    /\ UNCHANGED <<rail, ref, sent, minted, refunded, holdVars, payVars, tier, todo, faults>>

\* EventService.updateTicketsSold: the read, then the write.
SoldRead(p) ==
    /\ At(p, "sold_read")
    /\ job' = [job EXCEPT ![p].pc = "sold_write", ![p].doc = tier]
    /\ UNCHANGED <<saleVars, holdVars, payVars, tier, todo, faults>>

SoldWrite(p) ==
    /\ At(p, "sold_write")
    /\ tier' = [tier EXCEPT !.sold = job[p].doc.sold + Qty[job[p].sale]]
    /\ IF job[p].goal = "sell"
       THEN job' = [job EXCEPT ![p].pc = "commit", ![p].doc = NoDoc]
       ELSE Finish(p)
    /\ UNCHANGED <<saleVars, holdVars, payVars, todo, faults>>

-----------------------------------------------------------------------------
(* The background jobs: a list read once, then one item after the other.   *)

\* Mutant of StartSweep: only the holds of sales still PENDING are looked for.
StartSweepPendingOnly ==
    /\ MayStart(Sweeper)
    /\ LET found == {s \in Sales : /\ hold[s] = "held" /\ lapsed[s]
                                   /\ status[s] = "PENDING"}
       IN  /\ found # {}
           /\ todo' = [todo EXCEPT ![Sweeper] = found]
    /\ Goto(Sweeper, "next")
    /\ UNCHANGED <<saleVars, holdVars, payVars, tier, faults>>

StartSweep ==
    /\ MayStart(Sweeper)
    /\ LET found == {s \in Sales : hold[s] = "held" /\ lapsed[s]}
       IN  /\ found # {}
           /\ todo' = [todo EXCEPT ![Sweeper] = found]
    /\ Goto(Sweeper, "next")
    /\ UNCHANGED <<saleVars, holdVars, payVars, tier, faults>>

\* Mutant of StartReconcile: a sale is given up when its hold is gone.
StartReconcileHeldOnly(r) ==
    /\ MayStart(r)
    /\ LET stuck == {s \in Sales : /\ rail[s] = r /\ status[s] = "PENDING" /\ ref[s]
                                   /\ hold[s] = "held"}
       IN  /\ stuck # {}
           /\ todo' = [todo EXCEPT ![r] = stuck]
    /\ Goto(r, "next")
    /\ UNCHANGED <<saleVars, holdVars, payVars, tier, faults>>

StartReconcile(r) ==
    /\ MayStart(r)
    /\ LET stuck == {s \in Sales : rail[s] = r /\ status[s] = "PENDING" /\ ref[s]}
       IN  /\ stuck # {}
           /\ todo' = [todo EXCEPT ![r] = stuck]
    /\ Goto(r, "next")
    /\ UNCHANGED <<saleVars, holdVars, payVars, tier, faults>>

\* The sweep works on the reservation it read with the list.
NextItem(p) ==
    /\ At(p, "next")
    /\ \E s \in todo[p] :
         /\ todo' = [todo EXCEPT ![p] = @ \ {s}]
         /\ job' = [job EXCEPT ![p] =
              [IdleJob EXCEPT !.sale = s,
                              !.pc   = IF p = Sweeper THEN "hold_read"
                                       ELSE IF p = "YEBOPAY" THEN "query" ELSE "load",
                              !.goal = IF p = Sweeper THEN "sweep" ELSE "none"]]
    /\ UNCHANGED <<saleVars, holdVars, payVars, tier, faults>>

\* An await throws outside every try of the handler, or the server dies: the
\* handler's effects so far stay (a sale's transaction is rolled back).
Abort(p) ==
    /\ ~At(p, "idle") /\ ~At(p, "next")
    /\ faults < MaxFaults
    /\ faults' = faults + 1
    /\ Finish(p)
    /\ UNCHANGED <<saleVars, holdVars, payVars, tier, todo>>

-----------------------------------------------------------------------------
(* The providers and the clock.                                            *)

Post(s, e) == posted' = IF rail[s] \in NoAutoFail
                        THEN [posted EXCEPT ![s] = @ \cup {e}] ELSE posted

\* The buyer pays.  A DeltaPay session ends before the hold does.
Pay(s) ==
    /\ checkout[s] = "open"
    /\ rail[s] = "DELTAPAY" => ~lapsed[s]
    /\ \/ checkout' = [checkout EXCEPT ![s] = "paid"] /\ Post(s, "success")
       \/ checkout' = [checkout EXCEPT ![s] = "mismatch"] /\ Post(s, "mismatch")
    /\ UNCHANGED <<saleVars, holdVars, tier, job, todo, faults>>

\* The provider gives the payment up: declined, expired or cancelled.
Reject(s) ==
    /\ checkout[s] = "open"
    /\ checkout' = [checkout EXCEPT ![s] = "rejected"]
    /\ Post(s, "rejected")
    /\ UNCHANGED <<saleVars, holdVars, tier, job, todo, faults>>

\* Yoco posts payment.failed for an attempt; the buyer may try again.
DeclineAttempt(s) ==
    /\ rail[s] = "YOCO" /\ checkout[s] = "open"
    /\ Post(s, "rejected")
    /\ UNCHANGED <<saleVars, holdVars, checkout, tier, job, todo, faults>>

HoldLapses(s) ==
    /\ hold[s] = "held" /\ ~lapsed[s]
    /\ lapsed' = [lapsed EXCEPT ![s] = TRUE]
    /\ UNCHANGED <<saleVars, hold, payVars, tier, job, todo, faults>>

-----------------------------------------------------------------------------
Request(p, s) ==
    \/ Initiate(p, s)
    \/ SellTickets(p, s)
    \/ StartPoll(p, s)
    \/ StartWebhook(p, s)
    \/ StartReturn(p, s)

\* The next await of the process.
Step(p) ==
    \/ CreateSale(p)    \/ ReserveRead(p) \/ ReserveWrite(p) \/ CreateHold(p)
    \/ CallProvider(p)  \/ StoreRef(p)    \/ CommitSale(p)
    \/ QueryCheckout(p) \/ LoadSale(p)    \/ AskProvider(p)
    \/ Claim(p)         \/ MintTicket(p)
    \/ FindHold(p)      \/ HoldRead(p)    \/ HoldWrite(p)    \/ HoldSave(p)
    \/ FailSale(p)      \/ SweepFail(p)   \/ SoldRead(p)     \/ SoldWrite(p)
    \/ NextItem(p)

World(s) ==
    \/ RefundTicket(s)
    \/ Pay(s)
    \/ Reject(s)
    \/ DeclineAttempt(s)
    \/ HoldLapses(s)

Next ==
    \/ \E p \in Handlers, s \in Sales : Request(p, s)
    \/ \E p \in Procs : Step(p) \/ Abort(p)
    \/ StartSweep
    \/ \E r \in Reconcilers : StartReconcile(r)
    \/ \E s \in Sales : World(s)

Spec == Init /\ [][Next]_vars

\* setInterval starts the jobs again and again and the event loop resumes a
\* job whose await has returned.  Nobody is obliged to pay, to deliver a
\* webhook, to poll, or to let a request come to its end.
Fairness ==
    /\ WF_vars(StartSweep \/ Step(Sweeper))
    /\ \A r \in Reconcilers : WF_vars(StartReconcile(r) \/ Step(r))

FairSpec == Spec /\ Fairness

-----------------------------------------------------------------------------
(* Properties.                                                             *)

\* Polls, callbacks, webhooks, returns and reconcile jobs may all finalize
\* the same sale at once: its tickets are minted by one of them only.
NoDoubleMint == \A s \in Sales : minted[s] <= Qty[s]

\* A ticket of an asynchronous rail exists only for a payment the provider
\* took in exactly the amount and currency asked for.
MintOnlyPaid ==
    \A s \in Sales : minted[s] > 0 /\ rail[s] # "CASH" => checkout[s] = "paid"

\* Both: each ticket was paid for, and for each payment they are minted once.
MintsAreEarned == NoDoubleMint /\ MintOnlyPaid

\* Once every handler has returned and none was cut short, no settled sale
\* keeps inventory held, a completed sale has all its tickets, and a failed
\* sale of a polled rail has tickets only where the save of its reference threw
\* after it was written: the buyer was then never sent to pay, yet has paid.
Idle == \A p \in Procs : At(p, "idle")

QuietSalesAreWhole ==
    Idle /\ faults = 0 => \A s \in Sales :
        /\ hold[s] = "held" => status[s] = "PENDING"
        /\ status[s] = "COMPLETED" => minted[s] = Qty[s]
        /\ status[s] = "FAILED" /\ rail[s] \in Polled /\ minted[s] > 0
           => ref[s] /\ s \notin sent

\* The sweep never fails a sale of Yoco, whose webhook alone can mint it: a
\* Yoco sale whose buyer was sent to pay fails only after an event that says so.
YocoFailsOnEvidence ==
    \A s \in Sales : rail[s] = "YOCO" /\ s \in sent /\ status[s] = "FAILED"
                     => posted[s] \cap {"rejected", "mismatch"} # {}

\* "There is no path back": a failed sale stays failed on every rail, and a
\* completed one stays completed if it was cash, or if the finalizer asks the
\* provider itself and the initiator had sent the buyer to pay.
SettledIsFinal ==
    [][\A s \in Sales :
         \/ status[s] = "FAILED"
         \/ status[s] = "COMPLETED" /\ rail[s] = "CASH"
         \/ status[s] = "COMPLETED" /\ rail[s] \in Polled /\ s \in sent
         => status'[s] = status[s]]_vars

\* While handlers do not overlap, the counters of the tier are the holds and
\* the live tickets of the sales, each a number of places of the tier.
LivePlaces == UNION {{s} \X ((refunded[s] + 1)..minted[s]) : s \in Sales}
HeldPlaces == UNION {{s} \X (1..Qty[s]) : s \in {x \in Sales : hold[x] = "held"}}

LiveTickets == Cardinality(LivePlaces)
HeldTickets == Cardinality(HeldPlaces)

CountersExact ==
    Idle /\ faults = 0 => tier = [reserved |-> HeldTickets, sold |-> LiveTickets]

\* The tier never has more live tickets and holds than places.
NoOversell == Idle => LiveTickets + HeldTickets <= Capacity

\* The YeboPay rule of the sweep: a YeboPay sale the buyer was sent to pay is
\* failed only when YeboPay reports the checkout over.
YeboPayFailsOnlyWhenOver ==
    \A s \in Sales : rail[s] = "YEBOPAY" /\ s \in sent /\ status[s] = "FAILED"
                     => checkout[s] \in {"rejected", "mismatch"}

\* A hold whose time is up is given back.
LapsedHoldReleased ==
    \A s \in Sales : hold[s] = "held" /\ lapsed[s] ~> hold[s] # "held"

\* A payment taken on a rail with a reconcile job settles its sale, though
\* every redirect, poll and webhook be lost.
PaidIsSettled ==
    \A s \in Sales :
        rail[s] \in Reconciled /\ ref[s] /\ checkout[s] = "paid"
        ~> status[s] # "PENDING"

\* The awaits of initiators, finalizers, refunds and jobs, in whatever order and
\* however often they are cut short, amount to the promise: one decision a sale,
\* no ticket without its payment, none for a sale of a polled rail that failed
\* though its buyer had been sent to pay.
Promise == INSTANCE SalePromise
PromiseIsKept == Promise!Spec

=============================================================================
