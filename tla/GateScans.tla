------------------------------ MODULE GateScans ------------------------------
(***************************************************************************)
(* The tickets of one event at the gate and at the refund desk.            *)
(* ScanService.checkInTicket and TicketService.refundTicket each run in a  *)
(* MongoDB transaction that is never run again: a write to a document that *)
(* someone else has written since the snapshot ends the request with an    *)
(* error.  The row of a scan is written outside the transaction, before    *)
(* it commits.  The counters of the event that a refund lowers are those   *)
(* of EventTiers; here the event is one more document to conflict on.      *)
(***************************************************************************)
EXTENDS EventDesks, FiniteSets

CONSTANTS Sales,      \* the sales the tickets were bought in
          SaleOf      \* the sale of each ticket

ASSUME TicketsAssumption == IsFiniteSet(Tickets) /\ None \notin Tickets
ASSUME SaleOfAssumption == SaleOf \in [Tickets -> Sales]

VARIABLES
    status,    \* Ticket.status
    refunded,  \* TicketSale.refundedQuantity
    scans,     \* TicketScan rows of a ticket, by scanResult
    request,   \* per handler: its request, where it stands, what it has read
    stale,     \* per handler: documents to write that others have changed since
    asked,     \* requests begun
    failures,  \* faults so far
    admitted,  \* times a ticket was answered "checked in successfully"
    torn       \* success rows whose check-in did not commit

docVars   == <<status, refunded>>
countVars == <<asked, failures>>
histVars  == <<admitted, torn>>
gateVars  == <<docVars, scans, request, stale, countVars, histVars>>

Status  == {"sold", "checked_in", "refunded"}
Results == {"success", "already_scanned", "wrong_event", "cancelled"}

\* refuse: the snapshot has refused the scan and its row comes next.  ticket,
\* row, sale, event, commit: the write that comes next.
Stages == {"idle", "refuse", "ticket", "row", "sale", "event", "commit"}

GateRequest == [k : {"none", "checkin", "refund"}, t : Tickets \cup {None},
                at : Stages, said : Results, quantity : Int]

NoRequest == [k |-> "none", t |-> None, at |-> "idle", said |-> "success",
              quantity |-> 0]

GateInit ==
    /\ status = [t \in Tickets |-> "sold"]
    /\ refunded = [s \in Sales |-> 0]
    /\ scans = [t \in Tickets |-> [r \in Results |-> 0]]
    /\ request = [h \in Handlers |-> NoRequest]
    /\ stale = [h \in Handlers |-> {}]
    /\ asked = 0 /\ failures = 0
    /\ admitted = [t \in Tickets |-> 0]
    /\ torn = [t \in Tickets |-> 0]

-----------------------------------------------------------------------------
(* Documents and conflicts.                                                *)

TicketDoc(t) == <<"ticket", t>>
SaleDoc(s)   == <<"sale", s>>
EventDoc     == <<"event", None>>
Docs == {TicketDoc(t) : t \in Tickets} \cup {SaleDoc(s) : s \in Sales} \cup {EventDoc}

\* What a transaction writes in all, and what it has written already.
Writes(j) ==
    CASE j.k = "checkin" -> {TicketDoc(j.t)}
      [] j.k = "refund"  -> {TicketDoc(j.t), SaleDoc(SaleOf[j.t]), EventDoc}
      [] OTHER           -> {}

Written(j) ==
    CASE j.at \in {"row", "sale"} -> {TicketDoc(j.t)}
      [] j.at = "event"           -> {TicketDoc(j.t), SaleDoc(SaleOf[j.t])}
      [] j.at = "commit"          -> Writes(j)
      [] OTHER                    -> {}

\* The document the next step of a transaction writes.
Target(j) ==
    CASE j.at = "ticket" -> {TicketDoc(j.t)}
      [] j.at = "sale"   -> {SaleDoc(SaleOf[j.t])}
      [] j.at = "event"  -> {EventDoc}
      [] OTHER           -> {}

Locked(d, but) == \E g \in Handlers \ but : d \in Written(request[g])

\* Mutant: the saves are not given the session, so nothing refuses them.
NeverConflicts(h) == FALSE

\* The write is refused: the document has changed since, or is being changed.
Conflict(h) == \E d \in Target(request[h]) : d \in stale[h] \/ Locked(d, {h})

Running(g) == request[g].at \notin {"idle", "refuse"}

\* A commit makes the other snapshots out of date, where they will notice it.
Dirty(docs, but) ==
    [g \in Handlers |->
       IF g \in but THEN {}
       ELSE IF Running(g)
            THEN stale[g] \cup (docs \cap (Writes(request[g]) \ Written(request[g])))
       ELSE stale[g]]

Advances(h, at) == request' = [request EXCEPT ![h].at = at] /\ UNCHANGED stale
Closes(h) == request' = [request EXCEPT ![h] = NoRequest] /\ stale' = [stale EXCEPT ![h] = {}]

-----------------------------------------------------------------------------
(* A request and its snapshot.                                             *)

Opens(h, j) ==
    /\ request[h] = NoRequest /\ asked < MaxOps
    /\ asked' = asked + 1
    /\ request' = [request EXCEPT ![h] = j]
    /\ UNCHANGED <<docVars, scans, stale, failures, histVars>>

\* What the scan of t comes to, at a gate that works its event or does not.
Answer(t, ours) ==
    CASE ~ours                      -> "wrong_event"
      [] status[t] = "refunded"     -> "cancelled"
      [] status[t] = "checked_in"   -> "already_scanned"
      [] OTHER                      -> "success"

checkInTicket(h, t, ours) ==
    LET said == Answer(t, ours) IN
    Opens(h, [NoRequest EXCEPT !.k = "checkin", !.t = t, !.said = said,
                               !.at = IF said = "success" THEN "ticket" ELSE "refuse"])

\* The sale is read later, in the snapshot of the first read.
refundTicket(h, t) ==
    /\ status[t] = "sold"
    /\ Opens(h, [NoRequest EXCEPT !.k = "refund", !.t = t, !.at = "ticket",
                                  !.quantity = refunded[SaleOf[t]]])

-----------------------------------------------------------------------------
(* Steps of a request.                                                     *)

createScanRecord(h) == scans' = [scans EXCEPT ![request[h].t][request[h].said] = @ + 1]

\* The transaction is over; the refusal is recorded and answered.
Refuse(h) ==
    /\ request[h].at = "refuse"
    /\ createScanRecord(h) /\ Closes(h)
    /\ UNCHANGED <<docVars, countVars, histVars>>

\* Mutant: the row of the scan is written first, and stays when the save fails.
SaveTicketAfterRow(h) ==
    /\ request[h].at = "ticket"
    /\ createScanRecord(h)
    /\ IF Conflict(h) THEN Closes(h)
                     ELSE Advances(h, IF request[h].k = "checkin" THEN "commit" ELSE "sale")
    /\ UNCHANGED <<docVars, countVars, histVars>>

\* Mutant: the save of the ticket is not given the session.
SaveTicketAnyhow(h) ==
    /\ request[h].at = "ticket"
    /\ Advances(h, IF request[h].k = "checkin" THEN "row" ELSE "sale")
    /\ UNCHANGED <<docVars, scans, countVars, histVars>>

SaveTicket(h) ==
    /\ request[h].at = "ticket" /\ ~Conflict(h)
    /\ Advances(h, IF request[h].k = "checkin" THEN "row" ELSE "sale")
    /\ UNCHANGED <<docVars, scans, countVars, histVars>>

WriteScan(h) ==
    /\ request[h].at = "row"
    /\ createScanRecord(h) /\ Advances(h, "commit")
    /\ UNCHANGED <<docVars, countVars, histVars>>

SaveSale(h) ==
    /\ request[h].at = "sale" /\ ~Conflict(h)
    /\ Advances(h, "event")
    /\ UNCHANGED <<docVars, scans, countVars, histVars>>

SaveEvent(h) ==
    /\ request[h].at = "event" /\ ~Conflict(h)
    /\ Advances(h, "commit")
    /\ UNCHANGED <<docVars, scans, countVars, histVars>>

\* What the transaction has written becomes visible, and others out of date.
Commits(h) ==
    LET j == request[h] IN
    /\ status' = [status EXCEPT ![j.t] = IF j.k = "checkin" THEN "checked_in" ELSE "refunded"]
    /\ refunded' = IF j.k = "refund" THEN [refunded EXCEPT ![SaleOf[j.t]] = j.quantity + 1]
                                     ELSE refunded
    /\ request' = [request EXCEPT ![h] = NoRequest]
    /\ stale' = Dirty(Written(j), {h})

Admits(h) ==
    admitted' = IF request[h].k = "checkin" THEN [admitted EXCEPT ![request[h].t] = @ + 1]
                                            ELSE admitted

Commit(h) ==
    /\ request[h].at = "commit"
    /\ Commits(h) /\ Admits(h)
    /\ UNCHANGED <<scans, countVars, torn>>

\* The commit is made and its acknowledgement, or the answer, is lost.
CommitUnheard(h) ==
    /\ request[h].at = "commit" /\ failures < MaxFaults
    /\ failures' = failures + 1
    /\ Commits(h)
    /\ UNCHANGED <<scans, asked, histVars>>

\* A write conflict: the transaction is undone and the request fails.
Abort(h) ==
    /\ Conflict(h) /\ Closes(h)
    /\ UNCHANGED <<docVars, scans, countVars, histVars>>

\* The next write or the commit fails, or the process dies: everything is
\* undone but the row of the scan.
Fail(h) ==
    LET j == request[h] IN
    /\ j.at # "idle" /\ failures < MaxFaults
    /\ failures' = failures + 1 /\ Closes(h)
    /\ torn' = IF j.at = "commit" /\ j.k = "checkin" THEN [torn EXCEPT ![j.t] = @ + 1] ELSE torn
    /\ UNCHANGED <<docVars, scans, asked, admitted>>

-----------------------------------------------------------------------------
(* Other writers of the shared documents.                                  *)

\* A payout stamps the sale, a sale counts on the event, the ticket's PDF is
\* made: none of the figures here, but a document a transaction may have read.
Touch(d) ==
    /\ ~Locked(d, {})
    /\ stale' = Dirty({d}, {})
    /\ UNCHANGED <<docVars, scans, request, countVars, histVars>>

-----------------------------------------------------------------------------
Serve(h) ==
    \/ Refuse(h) \/ SaveTicket(h) \/ WriteScan(h) \/ SaveSale(h) \/ SaveEvent(h)
    \/ Commit(h) \/ CommitUnheard(h) \/ Abort(h) \/ Fail(h)

GateNext ==
    \/ \E h \in Handlers :
         \/ \E t \in Tickets : \/ \E ours \in BOOLEAN : checkInTicket(h, t, ours)
                               \/ refundTicket(h, t)
         \/ Serve(h)
    \/ \E d \in Docs : Touch(d)

GateSpec == GateInit /\ [][GateNext]_gateVars

-----------------------------------------------------------------------------
(* Properties.                                                             *)

GateTypeOK ==
    /\ status \in [Tickets -> Status]
    /\ refunded \in [Sales -> Int]
    /\ scans \in [Tickets -> [Results -> Nat]]
    /\ request \in [Handlers -> GateRequest]
    /\ \A h \in Handlers : request[h].at # "idle" => request[h].t \in Tickets /\ request[h].k # "none"
    /\ stale \in [Handlers -> SUBSET Docs]
    /\ asked \in 0..MaxOps /\ failures \in 0..MaxFaults
    /\ admitted \in [Tickets -> Nat]
    /\ torn \in [Tickets -> Nat]

\* However two gates and the refund desk overlap on one ticket, it lets one
\* person in at most, and never one whose money has been given back.
AdmittedOnce ==
    \A t \in Tickets : admitted[t] <= IF status[t] = "checked_in" THEN 1 ELSE 0

RefundedOf(s) == {t \in Tickets : SaleOf[t] = s /\ status[t] = "refunded"}

\* What analytics subtract from a sale is its refunded tickets: two refunds of
\* one sale never write the same figure, and an abandoned one leaves none.
RefundsAddUp == \A s \in Sales : refunded[s] = Cardinality(RefundedOf(s))

\* Check-ins whose row is written and whose commit is still to come.
Entering(t) ==
    {h \in Handlers : request[h].t = t /\ request[h].k = "checkin" /\ request[h].at = "commit"}

\* The audit trail of the gate, though it is written outside the transaction:
\* a success for every ticket checked in, one more only for a check-in whose
\* commit failed, and no refusal that was not true when it was given.
TrailMatchesTickets ==
    \A t \in Tickets :
        /\ scans[t]["success"] = (IF status[t] = "checked_in" THEN 1 ELSE 0)
                                   + Cardinality(Entering(t)) + torn[t]
        /\ scans[t]["already_scanned"] > 0 => status[t] = "checked_in"
        /\ scans[t]["cancelled"] > 0 => status[t] = "refunded"

\* The two records a ticket leaves elsewhere, on its sale and in the trail.
GateBooksAddUp == RefundsAddUp /\ TrailMatchesTickets

\* Whatever the transactions of the gate and of the refund desk do, step by step
\* and against each other, happens to a ticket and its sale in one instant.
Fate == INSTANCE TicketFate
FateIsSettledOnce == Fate!Spec
=============================================================================
