----------------------------- MODULE BusBookings -----------------------------
(***************************************************************************)
(* Bookings of one bus trip: BookingService (the asynchronous MoMo and     *)
(* card bookings, the counter sale, the finalizers, the reconcile job, the *)
(* sweep, boarding) and the seats TripService sets aside.  A trip either   *)
(* has a seat map or counts its passengers.                                *)
(*                                                                         *)
(* A step of a process is one write of one document, or one call to a      *)
(* provider, with the reads that decide it.  Reads that no later step      *)
(* depends on (route, fare, configuration, reseller) are left out, and so  *)
(* is the status of the trip, which nothing under src changes once the     *)
(* trip exists.                                                            *)
(***************************************************************************)
EXTENDS Integers, FiniteSets

CONSTANTS
    Bookings,   \* the bookings passengers may attempt, one sale each
    Seats,      \* the seats of the trip; their number is totalSeats
    Schemes,    \* the seat schemes considered
    Rails,      \* the payment methods offered
    Handlers,   \* HTTP requests the server may have in flight at once
    MaxFaults,  \* bound: processes cut short, and calls that outlast a hold
    NoPlace,    \* the place of a booking that was never claimed
    NoBooking   \* the booking of an idle process

Async == {"MTN_MOMO", "PEACH_CARD"}
Total == Cardinality(Seats)

Sweeper    == "sweeper"
Reconciler == "reconciler"
Jobs       == {Sweeper, Reconciler}
Procs      == Handlers \cup Jobs

ASSUME TripAssumption ==
    /\ IsFiniteSet(Seats) /\ IsFiniteSet(Bookings)
    /\ Schemes \subseteq {"SEATS", "COUNT"}
    /\ Rails \subseteq Async \cup {"CASH"}
    /\ Handlers \cap Jobs = {}
    /\ MaxFaults \in Nat
    /\ NoPlace \notin Seats \cup {"any"} /\ "any" \notin Seats
    /\ NoBooking \notin Bookings
    /\ Bookings \cap {"free", "reserved"} = {}

VARIABLES
    scheme,    \* Trip.seatScheme
    seat,      \* Seat: free, reserved, or the booking that has booked it
    soldCount, reservedCount,   \* Trip, of a trip that counts passengers
    rail,      \* BookingSale.paymentMethod
    place,     \* the seat asked for
    booking,   \* Booking.status
    sale,      \* BookingSale.paymentStatus
    ref,       \* the provider's reference is stored on the sale
    sent,      \* history: the bookings whose passenger was sent to pay
    lapsed,    \* the sale's reservationExpiresAt is past
    checkout,  \* what the provider knows of the payment
    job,       \* each process: where it is and its booking
    todo,      \* the rest of the list a job works through: a booking, and
               \* whether its sale had a reference when the list was read
    faults

tripVars == <<scheme, seat, soldCount, reservedCount>>
saleVars == <<rail, place, booking, sale, ref, sent, lapsed>>
vars     == <<tripVars, saleVars, checkout, job, todo, faults>>

IdleJob == [pc |-> "idle", b |-> NoBooking, n |-> 0, dirty |-> FALSE]

PCs == {"idle", "next", "save", "sale", "link", "provider", "store",
        "charge", "confirmed", "completed",
        "undo_early", "undo_charge", "undo_late", "unbook", "unbook_late", "unsell",
        "ask", "claim", "confirm", "fail", "cancel", "release", "reserve"}
Job == [pc : PCs, b : Bookings \cup {NoBooking}, n : Nat,
        dirty : BOOLEAN]   \* the sale in hand has a reference not saved

TypeOK ==
    /\ scheme \in Schemes
    /\ seat \in [Seats -> Bookings \cup {"free", "reserved"}]
    /\ soldCount \in Int /\ reservedCount \in Nat
    /\ rail \in [Bookings -> Rails]
    /\ place \in [Bookings -> Seats \cup {"any", NoPlace}]
    /\ booking \in [Bookings -> {"none", "PENDING", "CONFIRMED", "CANCELLED", "BOARDED"}]
    /\ sale \in [Bookings -> {"none", "PENDING", "COMPLETED", "FAILED"}]
    /\ ref \in [Bookings -> BOOLEAN]
    /\ sent \in SUBSET Bookings
    /\ lapsed \in [Bookings -> BOOLEAN]
    /\ checkout \in [Bookings -> {"none", "open", "paid", "mismatch", "rejected"}]
    /\ job \in [Procs -> Job]
    /\ todo \in [Procs -> SUBSET (Bookings \X BOOLEAN)]
    /\ faults \in Nat

\* createTrip: some seats, or a number of them, may be set aside at once.
Init ==
    /\ scheme \in Schemes
    /\ seat \in [Seats -> {"free", "reserved"}]
    /\ reservedCount \in 0..Total
    /\ IF scheme = "SEATS" THEN reservedCount = 0
                           ELSE seat = [n \in Seats |-> "free"]
    /\ soldCount = 0
    /\ rail \in [Bookings -> Rails]
    /\ place = [b \in Bookings |-> NoPlace]
    /\ booking = [b \in Bookings |-> "none"]
    /\ sale = [b \in Bookings |-> "none"]
    /\ ref = [b \in Bookings |-> FALSE]
    /\ sent = {}
    /\ lapsed = [b \in Bookings |-> FALSE]
    /\ checkout = [b \in Bookings |-> "none"]
    /\ job = [p \in Procs |-> IdleJob]
    /\ todo = [p \in Procs |-> {}]
    /\ faults = 0

-----------------------------------------------------------------------------
(* Helpers.                                                                *)

At(p, label)   == job[p].pc = label
Goto(p, label) == job' = [job EXCEPT ![p].pc = label]

\* The handler returns or throws; a job goes on with the rest of its list.
Finish(p) ==
    job' = [job EXCEPT ![p] =
              [IdleJob EXCEPT !.pc = IF todo[p] = {} THEN "idle" ELSE "next"]]

\* A write that may fail: on to the next label, or to the catch block.
OrUndo(p, next, undo) == Goto(p, next) \/ Goto(p, undo)

SetSale(p, s)    == sale' = [sale EXCEPT ![job[p].b] = s]
SetBooking(p, s) == booking' = [booking EXCEPT ![job[p].b] = s]

\* Mutant of ReleaseClaim: the seat is freed whoever has booked it.
ReleaseSeatOfAnyone(b) ==
    IF scheme = "SEATS"
    THEN /\ seat' = [seat EXCEPT ![place[b]] = "free"]
         /\ UNCHANGED soldCount
    ELSE /\ soldCount' = soldCount - 1
         /\ UNCHANGED seat

\* releaseBookingClaim: the seat only if it is still booked by b; a counted
\* passenger unconditionally.
ReleaseClaim(b) ==
    IF scheme = "SEATS"
    THEN /\ seat' = [n \in Seats |-> IF n = place[b] /\ seat[n] = b THEN "free" ELSE seat[n]]
         /\ UNCHANGED soldCount
    ELSE /\ soldCount' = soldCount - 1
         /\ UNCHANGED seat

-----------------------------------------------------------------------------
(* The claim, then a PENDING booking, a PENDING sale with its expiry, the  *)
(* link between them, the provider and its reference.                      *)

\* claimCapacity: one conditional update; without a match the answer is 409.
ClaimCapacity(p, b) ==
    /\ At(p, "idle") /\ place[b] = NoPlace
    /\ \/ /\ scheme = "SEATS"
          /\ \E n \in Seats :
               /\ seat[n] = "free"
               /\ seat' = [seat EXCEPT ![n] = b]
               /\ place' = [place EXCEPT ![b] = n]
          /\ UNCHANGED soldCount
       \/ /\ scheme = "COUNT"
          /\ soldCount + reservedCount < Total
          /\ soldCount' = soldCount + 1
          /\ place' = [place EXCEPT ![b] = "any"]
          /\ UNCHANGED seat
    /\ job' = [job EXCEPT ![p] =
         [IdleJob EXCEPT !.pc = IF rail[b] = "CASH" THEN "charge" ELSE "save", !.b = b]]
    /\ UNCHANGED <<scheme, reservedCount, rail, booking, sale, ref, sent, lapsed, checkout,
                   todo, faults>>

SaveBooking(p) ==
    /\ At(p, "save")
    /\ \/ SetBooking(p, "PENDING") /\ Goto(p, "sale")
       \/ Goto(p, "undo_early") /\ UNCHANGED booking
    /\ UNCHANGED <<tripVars, rail, place, sale, ref, sent, lapsed, checkout, todo, faults>>

CreateSale(p) ==
    /\ At(p, "sale")
    /\ \/ SetSale(p, "PENDING") /\ Goto(p, "link")
       \/ Goto(p, "undo_early") /\ UNCHANGED sale
    /\ UNCHANGED <<tripVars, rail, place, booking, ref, sent, lapsed, checkout, todo, faults>>

LinkSale(p) ==
    /\ At(p, "link")
    /\ OrUndo(p, "provider", "undo_early")
    /\ UNCHANGED <<tripVars, saleVars, checkout, todo, faults>>

\* requestToPay or createPayment: opened, or the call throws, before or after
\* the provider has opened the payment.
CallProvider(p) ==
    /\ At(p, "provider")
    /\ \E ok, opened \in BOOLEAN :
         /\ ok => opened
         /\ checkout' = [checkout EXCEPT ![job[p].b] = IF opened THEN "open" ELSE @]
         /\ Goto(p, IF ok THEN "store" ELSE "undo_late")
    /\ UNCHANGED <<tripVars, saleVars, todo, faults>>

\* The reference is saved and the passenger sent to pay; or the save throws, and
\* the catch block keeps a sale on which the reference is still to be saved.
StoreRef(p) ==
    /\ At(p, "store")
    /\ \/ /\ ref' = [ref EXCEPT ![job[p].b] = TRUE]
          /\ sent' = sent \cup {job[p].b}
          /\ Finish(p)
       \/ /\ job' = [job EXCEPT ![p].pc = "undo_late", ![p].dirty = TRUE]
          /\ UNCHANGED <<ref, sent>>
    /\ UNCHANGED <<tripVars, rail, place, booking, sale, lapsed, checkout, todo, faults>>

\* The catch blocks: the claim first, then the booking, and, once the sale is
\* out of its constructor, the sale.  The documents are saved as they are.
UndoClaim(p) ==
    /\ At(p, "undo_early") \/ At(p, "undo_late") \/ At(p, "undo_charge")
    /\ ReleaseClaim(job[p].b)
    /\ IF At(p, "undo_charge") THEN Finish(p)
       ELSE Goto(p, IF At(p, "undo_early") THEN "unbook" ELSE "unbook_late")
    /\ UNCHANGED <<scheme, reservedCount, saleVars, checkout, todo, faults>>

\* An updateOne in the first block finds nothing if the booking was not saved.
Unbook(p) ==
    /\ At(p, "unbook") \/ At(p, "unbook_late")
    /\ booking' = [booking EXCEPT ![job[p].b] = IF @ = "none" THEN @ ELSE "CANCELLED"]
    /\ IF At(p, "unbook") THEN Finish(p) ELSE Goto(p, "unsell")
    /\ UNCHANGED <<tripVars, rail, place, sale, ref, sent, lapsed, checkout, todo, faults>>

\* FAILED, and by the same save the reference whose own save threw.
Unsell(p) ==
    /\ At(p, "unsell")
    /\ SetSale(p, "FAILED")
    /\ ref' = [ref EXCEPT ![job[p].b] = @ \/ job[p].dirty]
    /\ Finish(p)
    /\ UNCHANGED <<tripVars, rail, place, booking, sent, lapsed, checkout, todo, faults>>

-----------------------------------------------------------------------------
(* sellSeat: the claim, the charge, then zone B, which releases nothing.   *)

Charge(p) ==
    /\ At(p, "charge")
    /\ \E ok, taken \in BOOLEAN :
         /\ ok => taken
         /\ checkout' = [checkout EXCEPT ![job[p].b] = IF taken THEN "paid" ELSE @]
         /\ Goto(p, IF ok THEN "confirmed" ELSE "undo_charge")
    /\ UNCHANGED <<tripVars, saleVars, todo, faults>>

SaveConfirmed(p) ==
    /\ At(p, "confirmed")
    /\ SetBooking(p, "CONFIRMED")
    /\ Goto(p, "completed")
    /\ UNCHANGED <<tripVars, rail, place, sale, ref, sent, lapsed, checkout, todo, faults>>

CreateCompleted(p) ==
    /\ At(p, "completed")
    /\ SetSale(p, "COMPLETED")
    /\ Finish(p)
    /\ UNCHANGED <<tripVars, rail, place, booking, ref, sent, lapsed, checkout, todo, faults>>

-----------------------------------------------------------------------------
(* finalizeMomoBooking and finalizeCardBooking, reached from a poll, a     *)
(* callback, a webhook, the browser's return, or a job.                    *)

\* The sale is read first; one that is not PENDING is reported as it is.
StartFinalize(p, b) ==
    /\ At(p, "idle") /\ rail[b] \in Async
    /\ ref[b] /\ sale[b] = "PENDING"
    /\ job' = [job EXCEPT ![p] = [IdleJob EXCEPT !.pc = "ask", !.b = b]]
    /\ UNCHANGED <<tripVars, saleVars, checkout, todo, faults>>

\* Mutant of AskProvider: the amount and the currency are not compared.
AskWithoutGuard(p) ==
    LET c == checkout[job[p].b] IN
    /\ At(p, "ask")
    /\ CASE c \in {"paid", "mismatch"} -> Goto(p, "claim")
         [] c = "rejected"             -> Goto(p, "fail")
         [] p = Sweeper                -> Goto(p, "fail")
         [] OTHER                      -> Finish(p)
    /\ UNCHANGED <<tripVars, saleVars, checkout, todo, faults>>

\* Mutant of AskProvider: a payment still pending is left alone by the sweep.
AskAndWait(p) ==
    LET c == checkout[job[p].b] IN
    /\ At(p, "ask")
    /\ CASE c = "paid"                   -> Goto(p, "claim")
         [] c \in {"mismatch", "rejected"} -> Goto(p, "fail")
         [] OTHER                        -> Finish(p)
    /\ UNCHANGED <<tripVars, saleVars, checkout, todo, faults>>

\* What the provider says, with the guard on amount and currency.  While the
\* payment is pending only the sweep goes on, and forces the expiry.
AskProvider(p) ==
    LET c == checkout[job[p].b] IN
    /\ At(p, "ask")
    /\ CASE c = "paid"                     -> Goto(p, "claim")
         [] c \in {"mismatch", "rejected"} -> Goto(p, "fail")
         [] p = Sweeper                    -> Goto(p, "fail")
         [] OTHER                          -> Finish(p)
    /\ UNCHANGED <<tripVars, saleVars, checkout, todo, faults>>

\* findOneAndUpdate({_id, PENDING}, COMPLETED); the loser reports what is stored.
ClaimSale(p) ==
    /\ At(p, "claim")
    /\ IF sale[job[p].b] = "PENDING"
       THEN SetSale(p, "COMPLETED") /\ Goto(p, "confirm")
       ELSE Finish(p) /\ UNCHANGED sale
    /\ UNCHANGED <<tripVars, rail, place, booking, ref, sent, lapsed, checkout, todo, faults>>

Confirm(p) ==
    /\ At(p, "confirm")
    /\ SetBooking(p, "CONFIRMED")
    /\ Finish(p)
    /\ UNCHANGED <<tripVars, rail, place, sale, ref, sent, lapsed, checkout, todo, faults>>

-----------------------------------------------------------------------------
(* failBookingSale, the arbiter: the sale, the booking, the claim.         *)

\* Mutant of FailSale: the sale is failed whatever its status.
FailUnconditionally(p) ==
    /\ At(p, "fail")
    /\ SetSale(p, "FAILED")
    /\ Goto(p, "cancel")
    /\ UNCHANGED <<tripVars, rail, place, booking, ref, sent, lapsed, checkout, todo, faults>>

FailSale(p) ==
    /\ At(p, "fail")
    /\ IF sale[job[p].b] = "PENDING"
       THEN SetSale(p, "FAILED") /\ Goto(p, "cancel")
       ELSE Finish(p) /\ UNCHANGED sale
    /\ UNCHANGED <<tripVars, rail, place, booking, ref, sent, lapsed, checkout, todo, faults>>

\* Mutant of CancelBooking: a booking already cancelled is released again.
CancelAnyway(p) ==
    /\ At(p, "cancel")
    /\ SetBooking(p, "CANCELLED") /\ Goto(p, "release")
    /\ UNCHANGED <<tripVars, rail, place, sale, ref, sent, lapsed, checkout, todo, faults>>

CancelBooking(p) ==
    /\ At(p, "cancel")
    /\ IF booking[job[p].b] = "PENDING"
       THEN SetBooking(p, "CANCELLED") /\ Goto(p, "release")
       ELSE Finish(p) /\ UNCHANGED booking
    /\ UNCHANGED <<tripVars, rail, place, sale, ref, sent, lapsed, checkout, todo, faults>>

\* Mutant of ReleaseFailed: nothing is released.
ReleaseForgotten(p) ==
    /\ At(p, "release")
    /\ Finish(p)
    /\ UNCHANGED <<tripVars, saleVars, checkout, todo, faults>>

ReleaseFailed(p) ==
    /\ At(p, "release")
    /\ ReleaseClaim(job[p].b)
    /\ Finish(p)
    /\ UNCHANGED <<scheme, reservedCount, saleVars, checkout, todo, faults>>

-----------------------------------------------------------------------------
(* The jobs, which read a list and work through it.                        *)

Sales(S) == {<<b, ref[b]>> : b \in S}

StartSweep ==
    /\ At(Sweeper, "idle")
    /\ LET found == {b \in Bookings : sale[b] = "PENDING" /\ lapsed[b]}
       IN  /\ found # {}
           /\ todo' = [todo EXCEPT ![Sweeper] = Sales(found)]
    /\ Goto(Sweeper, "next")
    /\ UNCHANGED <<tripVars, saleVars, checkout, faults>>

\* Mutant of StartReconcile: only lapsed sales are looked at.
ReconcileLapsed ==
    /\ At(Reconciler, "idle")
    /\ LET stuck == {b \in Bookings : /\ rail[b] = "PEACH_CARD" /\ ref[b]
                                      /\ sale[b] = "PENDING" /\ lapsed[b]}
       IN  /\ stuck # {}
           /\ todo' = [todo EXCEPT ![Reconciler] = Sales(stuck)]
    /\ Goto(Reconciler, "next")
    /\ UNCHANGED <<tripVars, saleVars, checkout, faults>>

StartReconcile ==
    /\ At(Reconciler, "idle")
    /\ LET stuck == {b \in Bookings : /\ rail[b] = "PEACH_CARD" /\ ref[b]
                                      /\ sale[b] = "PENDING"}
       IN  /\ stuck # {}
           /\ todo' = [todo EXCEPT ![Reconciler] = Sales(stuck)]
    /\ Goto(Reconciler, "next")
    /\ UNCHANGED <<tripVars, saleVars, checkout, faults>>

\* A sale that had no reference when the list was read is not asked about; one
\* that had is read again, and passed over once it is settled.
NextItem(p) ==
    /\ At(p, "next")
    /\ \E x \in todo[p] :
         LET rest  == todo[p] \ {x}
             label == IF ~x[2] THEN "fail"
                      ELSE IF sale[x[1]] = "PENDING" THEN "ask"
                      ELSE IF rest = {} THEN "idle" ELSE "next"
         IN  /\ todo' = [todo EXCEPT ![p] = rest]
             /\ job' = [job EXCEPT ![p] = [IdleJob EXCEPT !.pc = label,
                         !.b = IF label \in {"fail", "ask"} THEN x[1] ELSE NoBooking]]
    /\ UNCHANGED <<tripVars, saleVars, checkout, faults>>

\* An await throws outside every try or in a catch block, or the server dies.
Abort(p) ==
    /\ ~At(p, "idle") /\ ~At(p, "next")
    /\ faults < MaxFaults
    /\ faults' = faults + 1
    /\ Finish(p)
    /\ UNCHANGED <<tripVars, saleVars, checkout, todo>>

-----------------------------------------------------------------------------
(* The gate, and the operator who sets seats aside.                        *)

\* board: the conditional update that lets one scan succeed.
Board(b) ==
    /\ booking[b] = "CONFIRMED"
    /\ booking' = [booking EXCEPT ![b] = "BOARDED"]
    /\ UNCHANGED <<tripVars, rail, place, sale, ref, sent, lapsed, checkout, job, todo, faults>>

ReserveSeat(n) ==
    /\ scheme = "SEATS" /\ seat[n] = "free"
    /\ seat' = [seat EXCEPT ![n] = "reserved"]
    /\ UNCHANGED <<scheme, soldCount, reservedCount, saleVars, checkout, job, todo, faults>>

ReleaseSeat(n) ==
    /\ scheme = "SEATS" /\ seat[n] = "reserved"
    /\ seat' = [seat EXCEPT ![n] = "free"]
    /\ UNCHANGED <<scheme, soldCount, reservedCount, saleVars, checkout, job, todo, faults>>

\* setReservedCount: the trip is read and compared, and saved by a later step.
CheckReserved(p, n) ==
    /\ At(p, "idle") /\ scheme = "COUNT"
    /\ n # reservedCount /\ n + soldCount <= Total
    /\ job' = [job EXCEPT ![p] = [IdleJob EXCEPT !.pc = "reserve", !.n = n]]
    /\ UNCHANGED <<tripVars, saleVars, checkout, todo, faults>>

SaveReserved(p) ==
    /\ At(p, "reserve")
    /\ reservedCount' = job[p].n
    /\ Finish(p)
    /\ UNCHANGED <<scheme, seat, soldCount, saleVars, checkout, todo, faults>>

-----------------------------------------------------------------------------
(* The providers and the clock.                                            *)

Resolve(b) ==
    /\ checkout[b] = "open"
    /\ \E c \in {"paid", "mismatch", "rejected"} :
         checkout' = [checkout EXCEPT ![b] = c]
    /\ UNCHANGED <<tripVars, saleVars, job, todo, faults>>

\* The initiator has created the sale and has not returned.
BeingMade(b) ==
    \E p \in Handlers :
      job[p].b = b /\ job[p].pc \in {"link", "store", "undo_early", "undo_late",
                                    "unbook", "unbook_late", "unsell"}

WaitingForProvider(b) == \E p \in Handlers : job[p].b = b /\ At(p, "provider")

\* Five or fifteen minutes pass, longer than any write takes.  The call to the
\* provider has no time limit of its own: that one outlasts a hold is a fault.
HoldLapses(b) ==
    /\ sale[b] = "PENDING" /\ ~lapsed[b] /\ ~BeingMade(b)
    /\ IF WaitingForProvider(b) THEN faults < MaxFaults /\ faults' = faults + 1
                                ELSE UNCHANGED faults
    /\ lapsed' = [lapsed EXCEPT ![b] = TRUE]
    /\ UNCHANGED <<tripVars, rail, place, booking, sale, ref, sent, checkout, job, todo>>

-----------------------------------------------------------------------------
Step(p) ==
    \/ SaveBooking(p) \/ CreateSale(p)    \/ LinkSale(p)  \/ CallProvider(p)
    \/ StoreRef(p)    \/ UndoClaim(p)     \/ Unbook(p)    \/ Unsell(p)
    \/ Charge(p)      \/ SaveConfirmed(p) \/ CreateCompleted(p)
    \/ AskProvider(p) \/ ClaimSale(p)     \/ Confirm(p)
    \/ FailSale(p)    \/ CancelBooking(p) \/ ReleaseFailed(p)
    \/ NextItem(p)    \/ SaveReserved(p)

Next ==
    \/ \E p \in Handlers :
         \/ \E b \in Bookings : ClaimCapacity(p, b) \/ StartFinalize(p, b)
         \/ \E n \in 0..Total : CheckReserved(p, n)
    \/ \E p \in Procs : Step(p) \/ Abort(p)
    \/ StartSweep \/ StartReconcile
    \/ \E b \in Bookings : Board(b) \/ Resolve(b) \/ HoldLapses(b)
    \/ \E n \in Seats : ReserveSeat(n) \/ ReleaseSeat(n)

Spec == Init /\ [][Next]_vars

\* The steps of Step a job takes.
JobStep(p) ==
    \/ AskProvider(p) \/ ClaimSale(p) \/ Confirm(p)
    \/ FailSale(p) \/ CancelBooking(p) \/ ReleaseFailed(p) \/ NextItem(p)

\* setInterval starts the jobs again and again, and the event loop resumes them.
Fairness ==
    /\ WF_vars(StartSweep \/ JobStep(Sweeper))
    /\ WF_vars(StartReconcile \/ JobStep(Reconciler))

FairSpec == Spec /\ Fairness

-----------------------------------------------------------------------------
(* Properties.                                                             *)

Sold == {b \in Bookings : booking[b] \in {"CONFIRMED", "BOARDED"}}

\* A seat-mapped trip keeps the promise of SeatMap, through every race of the
\* finalizers, the sweep and the operator, and through every crash: a seat is
\* never held twice, and a passenger who was sold a seat never loses it.
seatView == [b \in Bookings |->
    IF scheme = "COUNT" \/ place[b] = NoPlace THEN "new"
    ELSE IF b \in Sold THEN "sold"
    ELSE IF seat[place[b]] = b THEN "held" ELSE "gone"]

placeView == [b \in Bookings |-> IF scheme = "COUNT" THEN NoPlace ELSE place[b]]

Map == INSTANCE SeatMap WITH st <- seatView, at <- placeView,
                             aside <- {n \in Seats : seat[n] = "reserved"}

SeatsHonoured == Map!Spec

\* No passenger is confirmed without having paid the exact fare.
ConfirmedHasPaid == \A b \in Sold : checkout[b] = "paid"

\* "Mongo guarantees exactly one of them wins the transition": no finalizer, job
\* or failing initiator takes a completed or a failed sale to another status.
SettledIsFinal ==
    [][\A b \in Bookings : sale[b] \in {"COMPLETED", "FAILED"} => sale'[b] = sale[b]]_vars

\* Before its hold has lapsed, a booking whose passenger was sent to pay is
\* failed only on the word of the provider.
FailsOnEvidence ==
    \A b \in Bookings : sale[b] = "FAILED" /\ b \in sent /\ ~lapsed[b]
                        => checkout[b] \in {"rejected", "mismatch"}

\* No booking is settled without its evidence, whoever settles it.
EndsOnEvidence == ConfirmedHasPaid /\ FailsOnEvidence

\* A trip that counts its passengers never has more of them than places, and
\* its count never falls below them.
CountCovers == scheme = "COUNT" => Cardinality(Sold) <= soldCount /\ soldCount <= Total

CountCoversWithoutFaults == faults = 0 => CountCovers

\* Once all is quiet and nothing was cut short, sale and booking agree, and the
\* trip has one place taken for each booking that is not cancelled, and no other.
Quiet == faults = 0 /\ \A p \in Procs : At(p, "idle")
Live  == {b \in Bookings : booking[b] \in {"PENDING", "CONFIRMED", "BOARDED"}}

QuietTripAddsUp ==
    Quiet =>
      /\ \A b \in Bookings :
           /\ sale[b] = "COMPLETED" => b \in Sold
           /\ sale[b] = "FAILED" => booking[b] = "CANCELLED"
           /\ booking[b] = "PENDING" => sale[b] = "PENDING"
      /\ IF scheme = "COUNT" THEN soldCount = Cardinality(Live)
         ELSE \A b \in Bookings : b \in Live <=> \E n \in Seats : seat[n] = b

\* A booking whose hold has lapsed is settled, whatever the provider says.
LapsedIsSettled ==
    \A b \in Bookings : sale[b] = "PENDING" /\ lapsed[b] ~> sale[b] # "PENDING"

\* A card payment settles its booking though every return, webhook and poll be
\* lost.
PaidCardIsSettled ==
    \A b \in Bookings : rail[b] = "PEACH_CARD" /\ ref[b] /\ checkout[b] = "paid"
                        ~> sale[b] # "PENDING"
=============================================================================
