-------------------------- MODULE BusBookingsProofs --------------------------
(***************************************************************************)
(* Proofs about BusBookings, for any bookings, seats, handlers, rails and  *)
(* any number of faults: the inductive invariant, what it says of settled  *)
(* and of failed sales, and the implementation of SeatMap; then, while     *)
(* nothing is cut short, a second invariant and what the trip counts.      *)
(***************************************************************************)
EXTENDS BusBookings, FiniteSetTheorems, TLAPS

-----------------------------------------------------------------------------
(* The inductive invariant.                                                *)

\* The seat is still the booking's.
Has(b) == scheme = "SEATS" => \E n \in Seats : place[b] = n /\ seat[n] = b

Creating == {"save", "sale", "link", "provider", "store", "charge", "confirmed",
             "completed", "undo_early", "undo_charge", "undo_late", "unbook",
             "unbook_late", "unsell"}
Settling == {"ask", "claim", "confirm", "fail", "cancel", "release"}

\* What holds of the booking of a process at each label.
Fits(l, b) ==
    /\ l \in Creating => place[b] # NoPlace /\ ~ref[b] /\ sale[b] # "COMPLETED"
    /\ l \in {"save", "charge", "undo_charge", "confirmed"} => booking[b] = "none"
    /\ l \in {"save", "sale", "charge", "undo_charge", "confirmed", "completed"} => sale[b] = "none"
    /\ l \in {"save", "sale", "charge", "confirmed", "completed"} => Has(b)
    /\ l = "sale" => booking[b] = "PENDING"
    /\ l = "confirmed" => checkout[b] = "paid"
    /\ l = "completed" => b \in Sold
    /\ l \in {"link", "provider", "store"} =>
         /\ sale[b] # "none"
         /\ sale[b] = "PENDING" => booking[b] = "PENDING" /\ Has(b)
    /\ l \in Creating \ {"completed"} => b \notin Sold
    /\ l \in {"ask", "claim", "confirm"} => ref[b]
    /\ l \in {"claim", "confirm"} => checkout[b] = "paid"
    /\ l = "confirm" => sale[b] = "COMPLETED"
    /\ l \in {"cancel", "release"} => sale[b] = "FAILED"
    /\ l = "release" => booking[b] = "CANCELLED"

JobOK(p) ==
    job[p].pc \in Creating \cup Settling => job[p].b \in Bookings /\ Fits(job[p].pc, job[p].b)

BookingOK(b) ==
    /\ place[b] = NoPlace => booking[b] = "none" /\ sale[b] = "none" /\ ~ref[b]
    /\ scheme = "SEATS" /\ place[b] # NoPlace => place[b] \in Seats
    /\ \A n \in Seats : seat[n] = b => place[b] = n
    /\ b \in Sold => checkout[b] = "paid" /\ sale[b] \in {"none", "COMPLETED"} /\ Has(b)
    /\ sale[b] = "PENDING" => booking[b] \in {"PENDING", "CANCELLED"}
    /\ sale[b] = "PENDING" /\ ref[b] => booking[b] = "PENDING" /\ Has(b)
    /\ sale[b] = "COMPLETED" => checkout[b] = "paid" /\ booking[b] # "CANCELLED"
                                /\ booking[b] # "none" /\ Has(b)
    /\ ref[b] => sale[b] # "none"

OneCreator ==
    \A p, q \in Procs : /\ job[p].pc \in Creating /\ job[q].pc \in Creating
                        /\ job[p].b = job[q].b
                        => p = q

ListOK == \A p \in Procs : \A x \in todo[p] : x[2] => ref[x[1]]

JobsOK == \A p \in Procs : JobOK(p)
BookingsOK == \A b \in Bookings : BookingOK(b)

IInv == TypeOK /\ JobsOK /\ BookingsOK /\ OneCreator /\ ListOK

-----------------------------------------------------------------------------
(* What a step leaves alone.                                               *)

\* A step that changes no booking but b, nor the seats of any other.
Only(b) ==
    /\ scheme' = scheme
    /\ \A c \in Bookings \ {b} :
         /\ place'[c] = place[c] /\ booking'[c] = booking[c] /\ sale'[c] = sale[c]
         /\ ref'[c] = ref[c] /\ checkout'[c] = checkout[c]
         /\ \A n \in Seats : seat'[n] = c <=> seat[n] = c

LEMMA OthersKept ==
    ASSUME NEW b \in Bookings, NEW c \in Bookings \ {b}, Only(b)
    PROVE  /\ Has(c)' <=> Has(c)
           /\ BookingOK(c) => BookingOK(c)'
<1>1. /\ scheme' = scheme
      /\ place'[c] = place[c] /\ booking'[c] = booking[c] /\ sale'[c] = sale[c]
      /\ ref'[c] = ref[c] /\ checkout'[c] = checkout[c]
      /\ \A n \in Seats : seat'[n] = c <=> seat[n] = c
  BY DEF Only
<1>2. Has(c)' <=> Has(c)
  BY <1>1 DEF Has
<1>3. (c \in Sold)' <=> c \in Sold
  BY <1>1 DEF Sold
<1>4. BookingOK(c) => BookingOK(c)'
  BY <1>1, <1>2, <1>3 DEF BookingOK
<1> QED BY <1>2, <1>4

LEMMA OthersFit ==
    ASSUME NEW b \in Bookings, NEW c \in Bookings \ {b}, Only(b),
           NEW l, Fits(l, c)
    PROVE  Fits(l, c)'
<1>1. /\ place'[c] = place[c] /\ booking'[c] = booking[c] /\ sale'[c] = sale[c]
      /\ ref'[c] = ref[c] /\ checkout'[c] = checkout[c] /\ (Has(c)' <=> Has(c))
  BY OthersKept DEF Only
<1>2. (c \in Sold)' <=> c \in Sold
  BY <1>1 DEF Sold
<1> QED BY <1>1, <1>2 DEF Fits

-----------------------------------------------------------------------------
(* How a process moves on.                                                 *)

LEMMA Labels ==
    /\ Creating \subseteq PCs /\ Settling \subseteq PCs
    /\ Creating \cap Settling = {}
    /\ {"idle", "next", "reserve"} \cap (Creating \cup Settling) = {}
    /\ IdleJob \in Job
BY DEF Creating, Settling, PCs, IdleJob, Job

LEMMA GotoJob ==
    ASSUME TypeOK, NEW p \in Procs, NEW l \in PCs, Goto(p, l)
    PROVE  /\ job' \in [Procs -> Job]
           /\ job'[p].pc = l /\ job'[p].b = job[p].b
           /\ \A q \in Procs \ {p} : job'[q] = job[q]
BY DEF TypeOK, Goto, Job

LEMMA FinishJob ==
    ASSUME TypeOK, NEW p \in Procs, Finish(p)
    PROVE  /\ job' \in [Procs -> Job]
           /\ job'[p].pc \in {"idle", "next"}
           /\ \A q \in Procs \ {p} : job'[q] = job[q]
BY DEF TypeOK, Finish, IdleJob, Job, PCs

\* A step of process p about booking b.
LEMMA MoveStep ==
    ASSUME IInv, TypeOK', NEW p \in Procs, NEW b \in Bookings, Only(b),
           \A q \in Procs \ {p} : job'[q] = job[q],
           job'[p].pc \in Creating
             => /\ job'[p].b = b
                /\ \A q \in Procs \ {p} : job[q].pc \in Creating => job[q].b # b,
           JobOK(p)',
           \A q \in Procs \ {p} : job[q].b = b => JobOK(q)',
           BookingOK(b)', ListOK'
    PROVE  IInv'
<1>1. BookingsOK'
  <2> SUFFICES ASSUME NEW c \in Bookings PROVE BookingOK(c)'
    BY DEF BookingsOK
  <2>1. CASE c = b
    BY <2>1
  <2>2. CASE c # b
    <3>1. BookingOK(c)
      BY DEF IInv, BookingsOK
    <3> QED BY <2>2, <3>1, OthersKept
  <2> QED BY <2>1, <2>2
<1>2. JobsOK'
  <2> SUFFICES ASSUME NEW q \in Procs PROVE JobOK(q)'
    BY DEF JobsOK
  <2>1. CASE q = p \/ job[q].b = b
    BY <2>1
  <2>2. CASE q # p /\ job[q].b # b
    <3>1. job'[q] = job[q]
      BY <2>2
    <3>2. JobOK(q)
      BY DEF IInv, JobsOK
    <3>3. CASE job[q].pc \in Creating \cup Settling
      <4>1. PICK l, c : l = job[q].pc /\ c = job[q].b
        OBVIOUS
      <4>2. c \in Bookings \ {b} /\ Fits(l, c)
        BY <2>2, <3>2, <3>3, <4>1 DEF JobOK
      <4>3. Fits(l, c)'
        BY <4>2, OthersFit
      <4> QED BY <3>1, <4>1, <4>2, <4>3 DEF JobOK
    <3>4. CASE job[q].pc \notin Creating \cup Settling
      BY <3>1, <3>4 DEF JobOK
    <3> QED BY <3>3, <3>4
  <2> QED BY <2>1, <2>2
<1>3. OneCreator'
  BY DEF IInv, OneCreator
<1> QED BY <1>1, <1>2, <1>3 DEF IInv

-----------------------------------------------------------------------------
(* Steps that change no document.                                          *)

DocVars == <<scheme, seat, place, booking, sale, ref, checkout>>

LEMMA DocsKept ==
    ASSUME NEW b \in Bookings, UNCHANGED DocVars
    PROVE  Only(b) /\ (BookingOK(b) => BookingOK(b)')
BY DEF DocVars, Only, BookingOK, Sold, Has

LEMMA FitsKept ==
    ASSUME UNCHANGED DocVars, NEW l, NEW b
    PROVE  Fits(l, b)' <=> Fits(l, b)
BY DEF DocVars, Fits, Sold, Has

LEMMA QuietStep ==
    ASSUME IInv, TypeOK', NEW p \in Procs, UNCHANGED DocVars,
           \A q \in Procs \ {p} : job'[q] = job[q],
           job'[p].pc \in Creating => job[p].pc \in Creating /\ job'[p].b = job[p].b,
           JobOK(p)', ListOK'
    PROVE  IInv'
<1>1. BookingsOK'
  <2> SUFFICES ASSUME NEW c \in Bookings PROVE BookingOK(c)'
    BY DEF BookingsOK
  <2> QED BY DocsKept DEF IInv, BookingsOK
<1>2. JobsOK'
  <2> SUFFICES ASSUME NEW q \in Procs, q # p PROVE JobOK(q)'
    BY DEF JobsOK
  <2>1. job'[q] = job[q] /\ JobOK(q)
    BY DEF IInv, JobsOK
  <2>2. PICK l, c : l = job[q].pc /\ c = job[q].b
    OBVIOUS
  <2> QED BY <2>1, <2>2, FitsKept DEF JobOK
<1>3. OneCreator'
  BY DEF IInv, OneCreator
<1> QED BY <1>1, <1>2, <1>3 DEF IInv

\* A process is at a label of the booking it works on.
LEMMA AtWork ==
    ASSUME IInv, NEW p \in Procs, NEW l \in Creating \cup Settling, At(p, l)
    PROVE  /\ job[p].b \in Bookings /\ Fits(l, job[p].b) /\ BookingOK(job[p].b)
           /\ place[job[p].b] \in Seats \cup {"any", NoPlace}
BY DEF IInv, JobsOK, JobOK, At, BookingsOK, TypeOK

\* A process that finishes knows nothing more.
LEMMA FinishOK ==
    ASSUME TypeOK, NEW p \in Procs, Finish(p)
    PROVE  JobOK(p)' /\ job'[p].pc \notin Creating
BY FinishJob, Labels DEF JobOK

\* A process goes on, and nothing else changes.
LEMMA GotoStep ==
    ASSUME IInv, NEW p \in Procs, NEW from \in Creating \cup Settling, At(p, from),
           NEW l \in Creating \cup Settling, Goto(p, l),
           UNCHANGED <<tripVars, saleVars, checkout, todo, faults>>,
           Fits(l, job[p].b), l \in Creating => from \in Creating
    PROVE  IInv'
<1>1. l \in PCs
  BY Labels
<1>2. TypeOK'
  BY <1>1, GotoJob DEF IInv, TypeOK, tripVars, saleVars
<1>3. UNCHANGED DocVars /\ ListOK'
  BY DEF tripVars, saleVars, DocVars, IInv, ListOK
<1>4. PICK c \in Bookings : c = job[p].b
  BY AtWork
<1>5. JobOK(p)'
  BY <1>1, <1>3, <1>4, GotoJob, FitsKept DEF JobOK, IInv
<1> QED BY <1>1, <1>2, <1>3, <1>5, GotoJob, QuietStep DEF IInv, At

LEMMA FinishStep ==
    ASSUME IInv, NEW p \in Procs, Finish(p), faults' \in Nat,
           UNCHANGED <<tripVars, saleVars, checkout, todo>>
    PROVE  IInv'
<1>1. TypeOK'
  BY FinishJob DEF IInv, TypeOK, tripVars, saleVars
<1>2. UNCHANGED DocVars /\ ListOK'
  BY DEF tripVars, saleVars, DocVars, IInv, ListOK
<1> QED BY <1>1, <1>2, FinishJob, FinishOK, QuietStep DEF IInv

\* An idle process, or a job between two items, begins.
LEMMA BeginStep ==
    ASSUME IInv, NEW p \in Procs, NEW j \in Job, job' = [job EXCEPT ![p] = j],
           UNCHANGED <<tripVars, saleVars, checkout, faults>>,
           todo' \in [Procs -> SUBSET (Bookings \X BOOLEAN)], ListOK',
           j.pc \notin Creating,
           j.pc \in Settling => j.b \in Bookings /\ Fits(j.pc, j.b)
    PROVE  IInv'
<1>1. /\ job' \in [Procs -> Job] /\ job'[p] = j
      /\ \A q \in Procs \ {p} : job'[q] = job[q]
  BY DEF IInv, TypeOK
<1>2. TypeOK'
  BY <1>1 DEF IInv, TypeOK, tripVars, saleVars
<1>3. UNCHANGED DocVars
  BY DEF tripVars, saleVars, DocVars
<1>4. PICK l, c : l = j.pc /\ c = j.b
  OBVIOUS
<1>5. JobOK(p)'
  BY <1>1, <1>3, <1>4, FitsKept DEF JobOK
<1> QED BY <1>1, <1>2, <1>3, <1>5, QuietStep

LEMMA LinkSaleStep == ASSUME IInv, NEW p \in Procs, LinkSale(p) PROVE IInv'
<1>1. PICK l \in {"provider", "undo_early"} : Goto(p, l)
  BY DEF LinkSale, OrUndo
<1>2. At(p, "link") /\ UNCHANGED <<tripVars, saleVars, checkout, todo, faults>>
  BY DEF LinkSale
<1>3. {"link", "provider", "undo_early"} \subseteq Creating
  BY DEF Creating
<1>4. Fits("link", job[p].b)
  BY <1>2, <1>3, AtWork
<1>5. Fits(l, job[p].b)
  BY <1>4 DEF Fits, Creating
<1> QED BY <1>1, <1>2, <1>3, <1>5, GotoStep

LEMMA AskProviderStep == ASSUME IInv, NEW p \in Procs, AskProvider(p) PROVE IInv'
<1>1. At(p, "ask") /\ UNCHANGED <<tripVars, saleVars, checkout, todo, faults>>
  BY DEF AskProvider
<1>2. {"ask", "claim", "fail"} \subseteq Settling /\ Settling \cap Creating = {}
  BY Labels DEF Settling
<1>3. Fits("ask", job[p].b)
  BY <1>1, <1>2, AtWork
<1>4. CASE Finish(p)
  BY <1>1, <1>4, FinishStep DEF IInv, TypeOK
<1>5. CASE Goto(p, "fail")
  <2>1. Fits("fail", job[p].b)
    BY DEF Fits, Creating
  <2> QED BY <1>1, <1>2, <1>5, <2>1, GotoStep
<1>6. CASE checkout[job[p].b] = "paid" /\ Goto(p, "claim")
  <2>1. Fits("claim", job[p].b)
    BY <1>3, <1>6 DEF Fits, Creating
  <2> QED BY <1>1, <1>2, <1>6, <2>1, GotoStep
<1>7. Finish(p) \/ Goto(p, "fail") \/ (checkout[job[p].b] = "paid" /\ Goto(p, "claim"))
  BY DEF AskProvider
<1> QED BY <1>4, <1>5, <1>6, <1>7

LEMMA StartFinalizeStep ==
    ASSUME IInv, NEW p \in Handlers, NEW b \in Bookings, StartFinalize(p, b)
    PROVE  IInv'
<1> DEFINE j == [IdleJob EXCEPT !.pc = "ask", !.b = b]
<1>1. p \in Procs /\ j \in Job /\ j.pc = "ask" /\ j.b = b
  BY DEF Procs, IdleJob, Job, PCs
<1>2. job' = [job EXCEPT ![p] = j] /\ UNCHANGED <<tripVars, saleVars, checkout, todo, faults>>
  BY DEF StartFinalize
<1>3. Fits("ask", b) /\ "ask" \notin Creating
  BY DEF StartFinalize, Fits, Creating
<1>4. ListOK' /\ todo' \in [Procs -> SUBSET (Bookings \X BOOLEAN)]
  BY <1>2 DEF IInv, ListOK, TypeOK, saleVars
<1> HIDE DEF j
<1> QED BY <1>1, <1>2, <1>3, <1>4, BeginStep

LEMMA CheckReservedStep ==
    ASSUME IInv, NEW p \in Handlers, NEW n \in 0..Total, CheckReserved(p, n)
    PROVE  IInv'
<1> DEFINE j == [IdleJob EXCEPT !.pc = "reserve", !.n = n]
<1>0. n \in Nat
  BY TripAssumption, FS_CardinalityType DEF Total
<1>1. p \in Procs /\ j \in Job /\ j.pc = "reserve"
  BY <1>0 DEF Procs, IdleJob, Job, PCs
<1>2. job' = [job EXCEPT ![p] = j] /\ UNCHANGED <<tripVars, saleVars, checkout, todo, faults>>
  BY DEF CheckReserved
<1>3. "reserve" \notin Creating \cup Settling
  BY Labels
<1>4. ListOK' /\ todo' \in [Procs -> SUBSET (Bookings \X BOOLEAN)]
  BY <1>2 DEF IInv, ListOK, TypeOK, saleVars
<1> HIDE DEF j
<1> QED BY <1>1, <1>2, <1>3, <1>4, BeginStep

LEMMA ReadListStep ==
    ASSUME IInv, NEW p \in Procs, NEW S \in SUBSET Bookings, At(p, "idle"),
           todo' = [todo EXCEPT ![p] = Sales(S)], Goto(p, "next"),
           UNCHANGED <<tripVars, saleVars, checkout, faults>>
    PROVE  IInv'
<1> DEFINE j == [job[p] EXCEPT !.pc = "next"]
<1>1. j \in Job /\ j.pc = "next"
  BY DEF IInv, TypeOK, Job, PCs
<1>2. job' = [job EXCEPT ![p] = j]
  BY DEF Goto
<1>3. Sales(S) \in SUBSET (Bookings \X BOOLEAN) /\ \A x \in Sales(S) : x[2] => ref[x[1]]
  BY DEF Sales, IInv, TypeOK
<1>4. todo' \in [Procs -> SUBSET (Bookings \X BOOLEAN)]
  BY <1>3 DEF IInv, TypeOK
<1>5. ListOK'
  BY <1>3 DEF IInv, TypeOK, ListOK, saleVars
<1>6. "next" \notin Creating \cup Settling
  BY Labels
<1> HIDE DEF j
<1> QED BY <1>1, <1>2, <1>4, <1>5, <1>6, BeginStep

LEMMA StartSweepStep == ASSUME IInv, StartSweep PROVE IInv'
<1>1. Sweeper \in Procs
  BY DEF Procs, Jobs
<1> QED BY <1>1, ReadListStep DEF StartSweep

LEMMA StartReconcileStep == ASSUME IInv, StartReconcile PROVE IInv'
<1>1. Reconciler \in Procs
  BY DEF Procs, Jobs
<1> QED BY <1>1, ReadListStep DEF StartReconcile

LEMMA NextItemStep == ASSUME IInv, NEW p \in Procs, NextItem(p) PROVE IInv'
<1>1. PICK x \in todo[p] :
        LET rest  == todo[p] \ {x}
            label == IF ~x[2] THEN "fail"
                     ELSE IF sale[x[1]] = "PENDING" THEN "ask"
                     ELSE IF rest = {} THEN "idle" ELSE "next"
        IN  /\ todo' = [todo EXCEPT ![p] = rest]
            /\ job' = [job EXCEPT ![p] = [IdleJob EXCEPT !.pc = label,
                        !.b = IF label \in {"fail", "ask"} THEN x[1] ELSE NoBooking]]
  BY DEF NextItem
<1> DEFINE label == IF ~x[2] THEN "fail"
                    ELSE IF sale[x[1]] = "PENDING" THEN "ask"
                    ELSE IF todo[p] \ {x} = {} THEN "idle" ELSE "next"
           j == [IdleJob EXCEPT !.pc = label,
                   !.b = IF label \in {"fail", "ask"} THEN x[1] ELSE NoBooking]
<1>2. x[1] \in Bookings /\ x[2] \in BOOLEAN /\ (x[2] => ref[x[1]])
  BY DEF IInv, TypeOK, ListOK
<1>3. label \in {"fail", "ask", "idle", "next"} /\ (label = "ask" => x[2])
  OBVIOUS
<1>4. j \in Job /\ j.pc = label /\ (label \in {"fail", "ask"} => j.b = x[1])
  BY <1>2, <1>3 DEF IdleJob, Job, PCs
<1>5. UNCHANGED <<tripVars, saleVars, checkout, faults>>
  BY DEF NextItem
<1>6. /\ todo' \in [Procs -> SUBSET (Bookings \X BOOLEAN)]
      /\ \A q \in Procs : todo'[q] \subseteq todo[q]
  BY <1>1 DEF IInv, TypeOK
<1>7. ListOK'
  BY <1>5, <1>6 DEF IInv, ListOK, saleVars
<1>8. label \notin Creating /\ (label \in Settling => label \in {"fail", "ask"})
  BY <1>3 DEF Creating, Settling
<1>9. label \in {"fail", "ask"} => Fits(label, x[1])
  BY <1>2, <1>3 DEF Fits, Creating
<1>10. job' = [job EXCEPT ![p] = j]
  BY <1>1
<1> HIDE DEF j, label
<1> QED BY <1>2, <1>4, <1>5, <1>6, <1>7, <1>8, <1>9, <1>10, BeginStep

LEMMA AbortStep == ASSUME IInv, NEW p \in Procs, Abort(p) PROVE IInv'
<1>1. faults' \in Nat
  BY DEF Abort, IInv, TypeOK
<1> QED BY <1>1, FinishStep DEF Abort

-----------------------------------------------------------------------------
(* Steps of a process on its booking.                                      *)

DocsTyped ==
    /\ scheme \in Schemes
    /\ seat \in [Seats -> Bookings \cup {"free", "reserved"}]
    /\ soldCount \in Int /\ reservedCount \in Nat
    /\ rail \in [Bookings -> Rails]
    /\ place \in [Bookings -> Seats \cup {"any", NoPlace}]
    /\ booking \in [Bookings -> {"none", "PENDING", "CONFIRMED", "CANCELLED", "BOARDED"}]
    /\ sale \in [Bookings -> {"none", "PENDING", "COMPLETED", "FAILED"}]
    /\ ref \in [Bookings -> BOOLEAN]
    /\ sent \in SUBSET Bookings
    /\ lapsed \in [Bookings -> BOOLEAN]
    /\ checkout \in [Bookings -> {"none", "open", "paid", "mismatch", "rejected"}]
    /\ todo \in [Procs -> SUBSET (Bookings \X BOOLEAN)]
    /\ faults \in Nat

LEMMA TypeParts ==
    /\ TypeOK <=> DocsTyped /\ job \in [Procs -> Job]
    /\ TypeOK' <=> DocsTyped' /\ job' \in [Procs -> Job]
BY DEF TypeOK, DocsTyped

\* A write about b by a process at label from leaves what others know of b true.
\* No other process is creating b if this one is.
StaysFit(from, b) ==
    /\ \A m \in Settling : Fits(m, b) => Fits(m, b)'
    /\ from \notin Creating => \A m \in Creating : Fits(m, b) => Fits(m, b)'

LEMMA WriteStep ==
    ASSUME IInv, TypeOK', NEW p \in Procs, NEW from \in Creating \cup Settling, At(p, from),
           NEW b \in Bookings, b = job[p].b, Only(b), StaysFit(from, b),
           \A q \in Procs \ {p} : job'[q] = job[q],
           job'[p].pc \in Creating => from \in Creating /\ job'[p].b = b,
           JobOK(p)', BookingOK(b)', UNCHANGED todo, \A c \in Bookings : ref[c] => ref'[c]
    PROVE  IInv'
<1>1. ASSUME NEW q \in Procs \ {p}, job[q].b = b PROVE JobOK(q)'
  <2>1. job'[q] = job[q] /\ JobOK(q)
    BY DEF IInv, JobsOK
  <2>2. PICK m : m = job[q].pc
    OBVIOUS
  <2>3. m \in Creating => from \notin Creating
    BY <1>1, <2>2 DEF IInv, OneCreator, At
  <2>4. m \in Creating \cup Settling => Fits(m, b)'
    BY <1>1, <2>1, <2>2, <2>3 DEF StaysFit, JobOK
  <2> QED BY <1>1, <2>1, <2>2, <2>4 DEF JobOK
<1>2. ListOK'
  BY DEF IInv, ListOK, TypeOK
<1>3. job'[p].pc \in Creating
        => \A q \in Procs \ {p} : job[q].pc \in Creating => job[q].b # b
  BY DEF IInv, OneCreator, At
<1> QED BY <1>1, <1>2, <1>3, MoveStep

\* A write after which the process goes on to label l.
LEMMA WriteThenGoto ==
    ASSUME IInv, DocsTyped', NEW p \in Procs, NEW from \in Creating \cup Settling, At(p, from),
           NEW b \in Bookings, b = job[p].b, Only(b), StaysFit(from, b), BookingOK(b)',
           NEW l \in Creating \cup Settling, Goto(p, l), Fits(l, b)',
           l \in Creating => from \in Creating,
           UNCHANGED todo, \A c \in Bookings : ref[c] => ref'[c]
    PROVE  IInv'
<1>1. l \in PCs
  BY Labels
<1>2. /\ job' \in [Procs -> Job] /\ job'[p].pc = l /\ job'[p].b = b
      /\ \A q \in Procs \ {p} : job'[q] = job[q]
  BY <1>1, GotoJob DEF IInv
<1>3. TypeOK' /\ JobOK(p)'
  BY <1>2, TypeParts DEF JobOK
<1> QED BY <1>2, <1>3, WriteStep

\* A write after which the process has done.
LEMMA WriteThenFinish ==
    ASSUME IInv, DocsTyped', NEW p \in Procs, NEW from \in Creating \cup Settling, At(p, from),
           NEW b \in Bookings, b = job[p].b, Only(b), StaysFit(from, b), BookingOK(b)',
           Finish(p), UNCHANGED todo, \A c \in Bookings : ref[c] => ref'[c]
    PROVE  IInv'
<1>1. /\ job' \in [Procs -> Job] /\ \A q \in Procs \ {p} : job'[q] = job[q]
  BY FinishJob DEF IInv
<1>2. TypeOK' /\ JobOK(p)' /\ job'[p].pc \notin Creating
  BY <1>1, TypeParts, FinishOK DEF IInv
<1> QED BY <1>1, <1>2, WriteStep

LEMMA SaveBookingStep == ASSUME IInv, NEW p \in Procs, SaveBooking(p) PROVE IInv'
<1>1. At(p, "save") /\ UNCHANGED <<tripVars, rail, place, sale, ref, sent, lapsed, checkout, todo, faults>>
  BY DEF SaveBooking
<1>2. {"save", "sale", "undo_early"} \subseteq Creating
  BY DEF Creating
<1>3. PICK b \in Bookings : b = job[p].b /\ Fits("save", b) /\ BookingOK(b)
  BY <1>1, <1>2, AtWork
<1>4. CASE Goto(p, "undo_early") /\ UNCHANGED booking
  <2>1. Fits("undo_early", job[p].b)
    BY <1>3 DEF Fits, Creating
  <2> QED BY <1>1, <1>2, <1>4, <2>1, GotoStep DEF saleVars
<1>5. CASE SetBooking(p, "PENDING") /\ Goto(p, "sale")
  <2>1. booking' = [booking EXCEPT ![b] = "PENDING"]
    BY <1>3, <1>5 DEF SetBooking
  <2>2. booking[b] = "none" /\ sale[b] = "none" /\ booking'[b] = "PENDING"
    BY <1>3, <2>1 DEF Fits, IInv, TypeOK
  <2>3. DocsTyped'
    BY <1>1, <2>1, TypeParts DEF IInv, DocsTyped, tripVars
  <2>4. Only(b)
    BY <1>1, <2>1 DEF Only, tripVars, IInv, TypeOK
  <2>5. Fits("sale", b)'
    BY <1>1, <1>3, <2>2 DEF Fits, Creating, Sold, Has, tripVars
  <2>6. StaysFit("save", b)
    BY <1>1, <1>2, <2>2 DEF StaysFit, Fits, Settling, Creating, Sold, Has, tripVars
  <2>7. BookingOK(b)'
    BY <1>1, <1>3, <2>2 DEF BookingOK, Fits, Creating, Sold, Has, tripVars
  <2> QED BY <1>1, <1>2, <1>3, <1>5, <2>3, <2>4, <2>5, <2>6, <2>7, WriteThenGoto
<1> QED BY <1>4, <1>5 DEF SaveBooking

LEMMA CreateSaleStep == ASSUME IInv, NEW p \in Procs, CreateSale(p) PROVE IInv'
<1>1. At(p, "sale") /\ UNCHANGED <<tripVars, rail, place, booking, ref, sent, lapsed, checkout, todo, faults>>
  BY DEF CreateSale
<1>2. {"sale", "link", "undo_early"} \subseteq Creating /\ Creating \cap Settling = {}
  BY Labels DEF Creating
<1>3. PICK b \in Bookings : b = job[p].b /\ Fits("sale", b) /\ BookingOK(b)
  BY <1>1, <1>2, AtWork
<1>4. CASE Goto(p, "undo_early") /\ UNCHANGED sale
  <2>1. Fits("undo_early", job[p].b)
    BY <1>3 DEF Fits, Creating
  <2> QED BY <1>1, <1>2, <1>4, <2>1, GotoStep DEF saleVars
<1>5. CASE SetSale(p, "PENDING") /\ Goto(p, "link")
  <2>1. sale' = [sale EXCEPT ![b] = "PENDING"]
    BY <1>3, <1>5 DEF SetSale, SetBooking
  <2>2. sale[b] = "none" /\ booking[b] = "PENDING" /\ sale'[b] = "PENDING" /\ ~ref[b]
    BY <1>3, <1>5, <2>1 DEF Fits, BookingOK, Creating, Sold, IInv, TypeOK
  <2>3. DocsTyped'
    BY <1>1, <2>1, TypeParts DEF IInv, DocsTyped, tripVars, saleVars
  <2>4. Only(b)
    BY <1>1, <2>1 DEF Only, tripVars, saleVars, IInv, TypeOK
  <2>5. Fits("link", b)'
    BY <1>1, <1>3, <2>2 DEF Fits, BookingOK, Creating, Sold, Has, tripVars, saleVars
  <2>6. StaysFit("sale", b)
    BY <1>1, <1>2, <1>3, <2>2 DEF StaysFit, Fits, BookingOK, Settling, Creating, Sold, Has, tripVars, saleVars
  <2>7. BookingOK(b)'
    BY <1>1, <1>3, <2>2 DEF BookingOK, Fits, Creating, Sold, Has, tripVars, saleVars
  <2> QED BY <1>1, <1>2, <1>3, <1>5, <2>3, <2>4, <2>5, <2>6, <2>7, WriteThenGoto DEF saleVars
<1> QED BY <1>3, <1>4, <1>5 DEF CreateSale

LEMMA StoreRefStep == ASSUME IInv, NEW p \in Procs, StoreRef(p) PROVE IInv'
<1>1. At(p, "store") /\ UNCHANGED <<tripVars, rail, place, booking, sale, lapsed, checkout, todo, faults>>
  BY DEF StoreRef
<1>2. {"store", "undo_late"} \subseteq Creating /\ Creating \cap Settling = {}
  BY Labels DEF Creating
<1>3. PICK b \in Bookings : b = job[p].b /\ Fits("store", b) /\ BookingOK(b)
  BY <1>1, <1>2, AtWork
<1>4. CASE ~Finish(p)
  <2> PICK r : r = [job[p] EXCEPT !.pc = "undo_late", !.dirty = TRUE]
    OBVIOUS
  <2>1. job' = [job EXCEPT ![p] = r] /\ UNCHANGED <<ref, sent>>
    BY <1>4 DEF StoreRef
  <2>2. r \in Job /\ r.pc = "undo_late" /\ r.b = b
    BY <1>3 DEF IInv, TypeOK, Job, PCs
  <2>3. /\ job' \in [Procs -> Job] /\ job'[p] = r
        /\ \A q \in Procs \ {p} : job'[q] = job[q]
    BY <2>1, <2>2 DEF IInv, TypeOK
  <2>4. TypeOK' /\ UNCHANGED DocVars /\ ListOK'
    BY <1>1, <2>1, <2>3 DEF IInv, TypeOK, ListOK, DocVars, tripVars
  <2>5. Fits("undo_late", b)'
    BY <1>3, <2>4, FitsKept DEF Fits, Creating
  <2>6. JobOK(p)'
    BY <2>2, <2>3, <2>5 DEF JobOK
  <2> QED BY <1>1, <1>2, <1>3, <2>2, <2>3, <2>4, <2>6, QuietStep DEF At
<1>5. CASE Finish(p)
  <2>0. job'[p].pc # "undo_late"
    BY <1>5, FinishJob DEF IInv
  <2> PICK r : r = [job[p] EXCEPT !.pc = "undo_late", !.dirty = TRUE]
    OBVIOUS
  <2>0a. job' = [job EXCEPT ![p] = r] => job'[p].pc = "undo_late"
    BY DEF IInv, TypeOK, Job
  <2>1. ref' = [ref EXCEPT ![b] = TRUE] /\ sent' = sent \cup {b}
    BY <1>3, <2>0, <2>0a DEF StoreRef
  <2>2. ref'[b]
    BY <1>3, <1>5, <2>1 DEF Fits, BookingOK, Creating, Sold, IInv, TypeOK
  <2>3. DocsTyped'
    BY <1>1, <2>1, TypeParts DEF IInv, DocsTyped, tripVars, saleVars
  <2>4. Only(b)
    BY <1>1, <2>1 DEF Only, tripVars, saleVars, IInv, TypeOK
  <2>5. StaysFit("store", b)
    BY <1>1, <1>2, <1>3, <2>2 DEF StaysFit, Fits, BookingOK, Settling, Creating, Sold, Has, tripVars, saleVars
  <2>6. BookingOK(b)'
    BY <1>1, <1>3, <2>2 DEF BookingOK, Fits, Creating, Sold, Has, tripVars, saleVars
  <2>7. \A c \in Bookings : ref[c] => ref'[c]
    BY <2>1 DEF IInv, TypeOK
  <2> QED BY <1>1, <1>2, <1>3, <1>5, <2>3, <2>4, <2>5, <2>6, <2>7, WriteThenFinish DEF saleVars
<1> QED BY <1>3, <1>4, <1>5 DEF StoreRef

LEMMA UnsellStep == ASSUME IInv, NEW p \in Procs, Unsell(p) PROVE IInv'
<1>1. At(p, "unsell") /\ UNCHANGED <<tripVars, rail, place, booking, sent, lapsed, checkout, todo, faults>>
  BY DEF Unsell
<1>2. {"unsell"} \subseteq Creating /\ Creating \cap Settling = {}
  BY Labels DEF Creating
<1>3. PICK b \in Bookings : b = job[p].b /\ Fits("unsell", b) /\ BookingOK(b)
  BY <1>1, <1>2, AtWork
<1>4. CASE SetSale(p, "FAILED") /\ Finish(p)
  <2>1. sale' = [sale EXCEPT ![b] = "FAILED"]
    BY <1>3, <1>4 DEF SetSale, SetBooking
  <2>0. /\ ref' \in [Bookings -> BOOLEAN] /\ (ref[b] => ref'[b])
        /\ \A c \in Bookings \ {b} : ref'[c] = ref[c]
    BY <1>3 DEF Unsell, IInv, TypeOK, Job
  <2>2. sale[b] # "COMPLETED" /\ sale'[b] = "FAILED"
    BY <1>3, <1>4, <2>1 DEF Fits, BookingOK, Creating, Sold, IInv, TypeOK
  <2>3. DocsTyped'
    BY <2>0, <1>1, <2>1, TypeParts DEF IInv, DocsTyped, tripVars, saleVars
  <2>4. Only(b)
    BY <2>0, <1>1, <2>1 DEF Only, tripVars, saleVars, IInv, TypeOK
  <2>5. StaysFit("unsell", b)
    BY <2>0, <1>1, <1>2, <1>3, <2>2 DEF StaysFit, Fits, BookingOK, Settling, Creating, Sold, Has, tripVars, saleVars
  <2>6. BookingOK(b)'
    BY <2>0, <1>1, <1>3, <2>2 DEF BookingOK, Fits, Creating, Sold, Has, tripVars, saleVars
  <2> QED BY <1>1, <1>2, <1>3, <1>4, <2>0, <2>3, <2>4, <2>5, <2>6, WriteThenFinish DEF saleVars
<1> QED BY <1>3, <1>4 DEF Unsell

LEMMA SaveConfirmedStep == ASSUME IInv, NEW p \in Procs, SaveConfirmed(p) PROVE IInv'
<1>1. At(p, "confirmed") /\ UNCHANGED <<tripVars, rail, place, sale, ref, sent, lapsed, checkout, todo, faults>>
  BY DEF SaveConfirmed
<1>2. {"confirmed", "completed"} \subseteq Creating /\ Creating \cap Settling = {}
  BY Labels DEF Creating
<1>3. PICK b \in Bookings : b = job[p].b /\ Fits("confirmed", b) /\ BookingOK(b)
  BY <1>1, <1>2, AtWork
<1>4. CASE SetBooking(p, "CONFIRMED") /\ Goto(p, "completed")
  <2>1. booking' = [booking EXCEPT ![b] = "CONFIRMED"]
    BY <1>3, <1>4 DEF SetSale, SetBooking
  <2>2. booking[b] = "none" /\ sale[b] = "none" /\ checkout[b] = "paid" /\ booking'[b] = "CONFIRMED"
    BY <1>3, <1>4, <2>1 DEF Fits, BookingOK, Creating, Sold, IInv, TypeOK
  <2>3. DocsTyped'
    BY <1>1, <2>1, TypeParts DEF IInv, DocsTyped, tripVars, saleVars
  <2>4. Only(b)
    BY <1>1, <2>1 DEF Only, tripVars, saleVars, IInv, TypeOK
  <2>5. Fits("completed", b)'
    BY <1>1, <1>3, <2>2 DEF Fits, BookingOK, Creating, Sold, Has, tripVars, saleVars
  <2>6. StaysFit("confirmed", b)
    BY <1>1, <1>2, <1>3, <2>2 DEF StaysFit, Fits, BookingOK, Settling, Creating, Sold, Has, tripVars, saleVars
  <2>7. BookingOK(b)'
    BY <1>1, <1>3, <2>2 DEF BookingOK, Fits, Creating, Sold, Has, tripVars, saleVars
  <2> QED BY <1>1, <1>2, <1>3, <1>4, <2>3, <2>4, <2>5, <2>6, <2>7, WriteThenGoto DEF saleVars
<1> QED BY <1>3, <1>4 DEF SaveConfirmed

LEMMA CreateCompletedStep == ASSUME IInv, NEW p \in Procs, CreateCompleted(p) PROVE IInv'
<1>1. At(p, "completed") /\ UNCHANGED <<tripVars, rail, place, booking, ref, sent, lapsed, checkout, todo, faults>>
  BY DEF CreateCompleted
<1>2. {"completed"} \subseteq Creating /\ Creating \cap Settling = {}
  BY Labels DEF Creating
<1>3. PICK b \in Bookings : b = job[p].b /\ Fits("completed", b) /\ BookingOK(b)
  BY <1>1, <1>2, AtWork
<1>4. CASE SetSale(p, "COMPLETED") /\ Finish(p)
  <2>1. sale' = [sale EXCEPT ![b] = "COMPLETED"]
    BY <1>3, <1>4 DEF SetSale, SetBooking
  <2>2. sale[b] = "none" /\ b \in Sold /\ sale'[b] = "COMPLETED"
    BY <1>3, <1>4, <2>1 DEF Fits, BookingOK, Creating, Sold, IInv, TypeOK
  <2>3. DocsTyped'
    BY <1>1, <2>1, TypeParts DEF IInv, DocsTyped, tripVars, saleVars
  <2>4. Only(b)
    BY <1>1, <2>1 DEF Only, tripVars, saleVars, IInv, TypeOK
  <2>5. StaysFit("completed", b)
    BY <1>1, <1>2, <1>3, <2>2 DEF StaysFit, Fits, BookingOK, Settling, Creating, Sold, Has, tripVars, saleVars
  <2>6. BookingOK(b)'
    BY <1>1, <1>3, <2>2 DEF BookingOK, Fits, Creating, Sold, Has, tripVars, saleVars
  <2> QED BY <1>1, <1>2, <1>3, <1>4, <2>3, <2>4, <2>5, <2>6, WriteThenFinish DEF saleVars
<1> QED BY <1>3, <1>4 DEF CreateCompleted

LEMMA ClaimSaleStep == ASSUME IInv, NEW p \in Procs, ClaimSale(p) PROVE IInv'
<1>1. At(p, "claim") /\ UNCHANGED <<tripVars, rail, place, booking, ref, sent, lapsed, checkout, todo, faults>>
  BY DEF ClaimSale
<1>2. {"claim", "confirm"} \subseteq Settling /\ Creating \cap Settling = {}
  BY Labels DEF Settling
<1>3. PICK b \in Bookings : b = job[p].b /\ Fits("claim", b) /\ BookingOK(b)
  BY <1>1, <1>2, AtWork
<1>4. CASE Finish(p) /\ UNCHANGED sale
  BY <1>1, <1>4, FinishStep DEF IInv, TypeOK, saleVars
<1>5. CASE sale[job[p].b] = "PENDING" /\ SetSale(p, "COMPLETED") /\ Goto(p, "confirm")
  <2>1. sale' = [sale EXCEPT ![b] = "COMPLETED"]
    BY <1>3, <1>5 DEF SetSale, SetBooking
  <2>2. sale[b] = "PENDING" /\ ref[b] /\ checkout[b] = "paid" /\ booking[b] = "PENDING" /\ sale'[b] = "COMPLETED"
    BY <1>3, <1>5, <2>1 DEF Fits, BookingOK, Creating, Sold, IInv, TypeOK
  <2>3. DocsTyped'
    BY <1>1, <2>1, TypeParts DEF IInv, DocsTyped, tripVars, saleVars
  <2>4. Only(b)
    BY <1>1, <2>1 DEF Only, tripVars, saleVars, IInv, TypeOK
  <2>5. Fits("confirm", b)'
    BY <1>1, <1>3, <2>2 DEF Fits, BookingOK, Creating, Sold, Has, tripVars, saleVars
  <2>6. StaysFit("claim", b)
    BY <1>1, <1>2, <1>3, <2>2 DEF StaysFit, Fits, BookingOK, Settling, Creating, Sold, Has, tripVars, saleVars
  <2>7. BookingOK(b)'
    BY <1>1, <1>3, <2>2 DEF BookingOK, Fits, Creating, Sold, Has, tripVars, saleVars
  <2> QED BY <1>1, <1>2, <1>3, <1>5, <2>3, <2>4, <2>5, <2>6, <2>7, WriteThenGoto DEF saleVars
<1> QED BY <1>3, <1>4, <1>5 DEF ClaimSale

LEMMA ConfirmStep == ASSUME IInv, NEW p \in Procs, Confirm(p) PROVE IInv'
<1>1. At(p, "confirm") /\ UNCHANGED <<tripVars, rail, place, sale, ref, sent, lapsed, checkout, todo, faults>>
  BY DEF Confirm
<1>2. {"confirm"} \subseteq Settling /\ Creating \cap Settling = {}
  BY Labels DEF Settling
<1>3. PICK b \in Bookings : b = job[p].b /\ Fits("confirm", b) /\ BookingOK(b)
  BY <1>1, <1>2, AtWork
<1>4. CASE SetBooking(p, "CONFIRMED") /\ Finish(p)
  <2>1. booking' = [booking EXCEPT ![b] = "CONFIRMED"]
    BY <1>3, <1>4 DEF SetSale, SetBooking
  <2>2. sale[b] = "COMPLETED" /\ ref[b] /\ checkout[b] = "paid" /\ booking'[b] = "CONFIRMED"
    BY <1>3, <1>4, <2>1 DEF Fits, BookingOK, Creating, Sold, IInv, TypeOK
  <2>3. DocsTyped'
    BY <1>1, <2>1, TypeParts DEF IInv, DocsTyped, tripVars, saleVars
  <2>4. Only(b)
    BY <1>1, <2>1 DEF Only, tripVars, saleVars, IInv, TypeOK
  <2>5. StaysFit("confirm", b)
    BY <1>1, <1>2, <1>3, <2>2 DEF StaysFit, Fits, BookingOK, Settling, Creating, Sold, Has, tripVars, saleVars
  <2>6. BookingOK(b)'
    BY <1>1, <1>3, <2>2 DEF BookingOK, Fits, Creating, Sold, Has, tripVars, saleVars
  <2> QED BY <1>1, <1>2, <1>3, <1>4, <2>3, <2>4, <2>5, <2>6, WriteThenFinish DEF saleVars
<1> QED BY <1>3, <1>4 DEF Confirm

LEMMA FailSaleStep == ASSUME IInv, NEW p \in Procs, FailSale(p) PROVE IInv'
<1>1. At(p, "fail") /\ UNCHANGED <<tripVars, rail, place, booking, ref, sent, lapsed, checkout, todo, faults>>
  BY DEF FailSale
<1>2. {"fail", "cancel"} \subseteq Settling /\ Creating \cap Settling = {}
  BY Labels DEF Settling
<1>3. PICK b \in Bookings : b = job[p].b /\ Fits("fail", b) /\ BookingOK(b)
  BY <1>1, <1>2, AtWork
<1>4. CASE Finish(p) /\ UNCHANGED sale
  BY <1>1, <1>4, FinishStep DEF IInv, TypeOK, saleVars
<1>5. CASE sale[job[p].b] = "PENDING" /\ SetSale(p, "FAILED") /\ Goto(p, "cancel")
  <2>1. sale' = [sale EXCEPT ![b] = "FAILED"]
    BY <1>3, <1>5 DEF SetSale, SetBooking
  <2>2. sale[b] = "PENDING" /\ b \notin Sold /\ sale'[b] = "FAILED"
    BY <1>3, <1>5, <2>1 DEF Fits, BookingOK, Creating, Sold, IInv, TypeOK
  <2>3. DocsTyped'
    BY <1>1, <2>1, TypeParts DEF IInv, DocsTyped, tripVars, saleVars
  <2>4. Only(b)
    BY <1>1, <2>1 DEF Only, tripVars, saleVars, IInv, TypeOK
  <2>5. Fits("cancel", b)'
    BY <1>1, <1>3, <2>2 DEF Fits, BookingOK, Creating, Sold, Has, tripVars, saleVars
  <2>6. StaysFit("fail", b)
    BY <1>1, <1>2, <1>3, <2>2 DEF StaysFit, Fits, BookingOK, Settling, Creating, Sold, Has, tripVars, saleVars
  <2>7. BookingOK(b)'
    BY <1>1, <1>3, <2>2 DEF BookingOK, Fits, Creating, Sold, Has, tripVars, saleVars
  <2> QED BY <1>1, <1>2, <1>3, <1>5, <2>3, <2>4, <2>5, <2>6, <2>7, WriteThenGoto DEF saleVars
<1> QED BY <1>3, <1>4, <1>5 DEF FailSale

LEMMA CancelBookingStep == ASSUME IInv, NEW p \in Procs, CancelBooking(p) PROVE IInv'
<1>1. At(p, "cancel") /\ UNCHANGED <<tripVars, rail, place, sale, ref, sent, lapsed, checkout, todo, faults>>
  BY DEF CancelBooking
<1>2. {"cancel", "release"} \subseteq Settling /\ Creating \cap Settling = {}
  BY Labels DEF Settling
<1>3. PICK b \in Bookings : b = job[p].b /\ Fits("cancel", b) /\ BookingOK(b)
  BY <1>1, <1>2, AtWork
<1>4. CASE Finish(p) /\ UNCHANGED booking
  BY <1>1, <1>4, FinishStep DEF IInv, TypeOK, saleVars
<1>5. CASE booking[job[p].b] = "PENDING" /\ SetBooking(p, "CANCELLED") /\ Goto(p, "release")
  <2>1. booking' = [booking EXCEPT ![b] = "CANCELLED"]
    BY <1>3, <1>5 DEF SetSale, SetBooking
  <2>2. booking[b] = "PENDING" /\ sale[b] = "FAILED" /\ booking'[b] = "CANCELLED"
    BY <1>3, <1>5, <2>1 DEF Fits, BookingOK, Creating, Sold, IInv, TypeOK
  <2>3. DocsTyped'
    BY <1>1, <2>1, TypeParts DEF IInv, DocsTyped, tripVars, saleVars
  <2>4. Only(b)
    BY <1>1, <2>1 DEF Only, tripVars, saleVars, IInv, TypeOK
  <2>5. Fits("release", b)'
    BY <1>1, <1>3, <2>2 DEF Fits, BookingOK, Creating, Sold, Has, tripVars, saleVars
  <2>6. StaysFit("cancel", b)
    BY <1>1, <1>2, <1>3, <2>2 DEF StaysFit, Fits, BookingOK, Settling, Creating, Sold, Has, tripVars, saleVars
  <2>7. BookingOK(b)'
    BY <1>1, <1>3, <2>2 DEF BookingOK, Fits, Creating, Sold, Has, tripVars, saleVars
  <2> QED BY <1>1, <1>2, <1>3, <1>5, <2>3, <2>4, <2>5, <2>6, <2>7, WriteThenGoto DEF saleVars
<1> QED BY <1>3, <1>4, <1>5 DEF CancelBooking

LEMMA CallProviderStep == ASSUME IInv, NEW p \in Procs, CallProvider(p) PROVE IInv'
<1>1. At(p, "provider") /\ UNCHANGED <<tripVars, saleVars, todo, faults>>
  BY DEF CallProvider
<1>2. {"provider", "store", "undo_late"} \subseteq Creating
  BY DEF Creating
<1>3. PICK b \in Bookings : b = job[p].b /\ Fits("provider", b) /\ BookingOK(b)
  BY <1>1, <1>2, AtWork
<1>4. PICK l \in {"store", "undo_late"} :
        /\ checkout' = [checkout EXCEPT ![b] = "open"] \/ (l = "undo_late" /\ checkout' = checkout)
        /\ Goto(p, l)
  BY <1>3 DEF CallProvider, IInv, TypeOK
<1>5. DocsTyped'
  BY <1>1, <1>4, TypeParts DEF IInv, DocsTyped, tripVars, saleVars
<1>6. Only(b)
  BY <1>1, <1>4 DEF Only, tripVars, saleVars, IInv, TypeOK
<1>7. l = "store" => checkout'[b] = "open"
  BY <1>4 DEF IInv, TypeOK
<1>8. Fits(l, b)'
  BY <1>1, <1>3, <1>4, <1>7 DEF Fits, Creating, Sold, Has, tripVars, saleVars
<1>9. StaysFit("provider", b)
  BY <1>1, <1>2, <1>3 DEF StaysFit, Fits, Settling, Creating, Sold, Has, tripVars, saleVars
<1>10. BookingOK(b)'
  BY <1>1, <1>3 DEF BookingOK, Fits, Creating, Sold, Has, tripVars, saleVars
<1> QED BY <1>1, <1>2, <1>3, <1>4, <1>5, <1>6, <1>8, <1>9, <1>10, WriteThenGoto DEF saleVars

LEMMA ChargeStep == ASSUME IInv, NEW p \in Procs, Charge(p) PROVE IInv'
<1>1. At(p, "charge") /\ UNCHANGED <<tripVars, saleVars, todo, faults>>
  BY DEF Charge
<1>2. {"charge", "confirmed", "undo_charge"} \subseteq Creating
  BY DEF Creating
<1>3. PICK b \in Bookings : b = job[p].b /\ Fits("charge", b) /\ BookingOK(b)
  BY <1>1, <1>2, AtWork
<1>4. PICK l \in {"confirmed", "undo_charge"} :
        /\ checkout' = [checkout EXCEPT ![b] = "paid"] \/ (l = "undo_charge" /\ checkout' = checkout)
        /\ Goto(p, l)
  BY <1>3 DEF Charge, IInv, TypeOK
<1>5. DocsTyped'
  BY <1>1, <1>4, TypeParts DEF IInv, DocsTyped, tripVars, saleVars
<1>6. Only(b)
  BY <1>1, <1>4 DEF Only, tripVars, saleVars, IInv, TypeOK
<1>7. l = "confirmed" => checkout'[b] = "paid"
  BY <1>4 DEF IInv, TypeOK
<1>8. Fits(l, b)'
  BY <1>1, <1>3, <1>4, <1>7 DEF Fits, Creating, Sold, Has, tripVars, saleVars
<1>9. StaysFit("charge", b)
  BY <1>1, <1>2, <1>3 DEF StaysFit, Fits, Settling, Creating, Sold, Has, tripVars, saleVars
<1>10. BookingOK(b)'
  BY <1>1, <1>3 DEF BookingOK, Fits, Creating, Sold, Has, tripVars, saleVars
<1> QED BY <1>1, <1>2, <1>3, <1>4, <1>5, <1>6, <1>8, <1>9, <1>10, WriteThenGoto DEF saleVars

\* The claim is given back: the seat that is b's, or a passenger of the count.
LEMMA ReleaseKeeps ==
    ASSUME IInv, NEW b \in Bookings, ReleaseClaim(b),
           UNCHANGED <<scheme, reservedCount, saleVars, checkout, todo, faults>>
    PROVE  /\ DocsTyped' /\ Only(b)
           /\ \A n \in Seats : seat'[n] = b => seat[n] = b
<1>1. \A c \in Bookings : c # "free"
  BY TripAssumption
<1>2. seat' \in [Seats -> Bookings \cup {"free", "reserved"}] /\ soldCount' \in Int
  BY DEF ReleaseClaim, IInv, TypeOK
<1>3. DocsTyped'
  BY <1>2, TypeParts DEF IInv, DocsTyped, saleVars
<1>4. \A n \in Seats : /\ seat'[n] = seat[n] \/ (seat[n] = b /\ seat'[n] = "free")
  BY DEF ReleaseClaim
<1>5. Only(b)
  BY <1>1, <1>4 DEF Only, saleVars
<1> QED BY <1>1, <1>3, <1>4, <1>5

LEMMA UndoClaimStep == ASSUME IInv, NEW p \in Procs, UndoClaim(p) PROVE IInv'
<1>1. PICK l \in {"undo_early", "undo_late", "undo_charge"} : At(p, l)
  BY DEF UndoClaim
<1>2. {"undo_early", "undo_late", "undo_charge", "unbook", "unbook_late"} \subseteq Creating
  BY DEF Creating
<1>3. PICK b \in Bookings : b = job[p].b /\ Fits(l, b) /\ BookingOK(b)
  BY <1>1, <1>2, AtWork
<1>4. /\ ReleaseClaim(b)
      /\ UNCHANGED <<scheme, reservedCount, saleVars, checkout, todo, faults>>
  BY <1>3 DEF UndoClaim
<1>5. /\ DocsTyped' /\ Only(b) /\ \A n \in Seats : seat'[n] = b => seat[n] = b
  BY <1>4, ReleaseKeeps
<1>6. StaysFit(l, b)
  BY <1>1, <1>2, <1>4 DEF StaysFit, Fits, Settling, Creating, Sold, saleVars
<1>7. BookingOK(b)'
  BY <1>3, <1>4, <1>5, <1>2 DEF BookingOK, Fits, Creating, Sold, saleVars
<1>8. CASE Finish(p)
  BY <1>1, <1>2, <1>3, <1>4, <1>5, <1>6, <1>7, <1>8, WriteThenFinish DEF saleVars
<1>9. ASSUME NEW m \in {"unbook", "unbook_late"}, Goto(p, m) PROVE IInv'
  <2>1. Fits(m, b)'
    BY <1>2, <1>3, <1>4 DEF Fits, Creating, Sold, saleVars
  <2> QED BY <1>1, <1>2, <1>3, <1>4, <1>5, <1>6, <1>7, <1>9, <2>1, WriteThenGoto DEF saleVars
<1> QED BY <1>8, <1>9 DEF UndoClaim

LEMMA ReleaseFailedStep == ASSUME IInv, NEW p \in Procs, ReleaseFailed(p) PROVE IInv'
<1>1. At(p, "release") /\ Finish(p)
  BY DEF ReleaseFailed
<1>2. "release" \in Settling
  BY DEF Settling
<1>3. PICK b \in Bookings : b = job[p].b /\ Fits("release", b) /\ BookingOK(b)
  BY <1>1, <1>2, AtWork
<1>4. /\ ReleaseClaim(b)
      /\ UNCHANGED <<scheme, reservedCount, saleVars, checkout, todo, faults>>
  BY <1>3 DEF ReleaseFailed
<1>5. /\ DocsTyped' /\ Only(b) /\ \A n \in Seats : seat'[n] = b => seat[n] = b
  BY <1>4, ReleaseKeeps
<1>6. sale[b] = "FAILED" /\ booking[b] = "CANCELLED"
  BY <1>3 DEF Fits
<1>7. StaysFit("release", b)
  BY <1>4, <1>6 DEF StaysFit, Fits, Settling, Creating, Sold, saleVars
<1>8. BookingOK(b)'
  BY <1>3, <1>4, <1>5, <1>6 DEF BookingOK, Sold, saleVars
<1> QED BY <1>1, <1>2, <1>3, <1>4, <1>5, <1>7, <1>8, WriteThenFinish DEF saleVars

LEMMA UnbookStep == ASSUME IInv, NEW p \in Procs, Unbook(p) PROVE IInv'
<1>1. PICK l \in {"unbook", "unbook_late"} : At(p, l)
  BY DEF Unbook
<1>2. {"unbook", "unbook_late", "unsell"} \subseteq Creating
  BY DEF Creating
<1>3. PICK b \in Bookings : b = job[p].b /\ Fits(l, b) /\ BookingOK(b)
  BY <1>1, <1>2, AtWork
<1>4. /\ booking' = [booking EXCEPT ![b] = IF @ = "none" THEN @ ELSE "CANCELLED"]
      /\ UNCHANGED <<tripVars, rail, place, sale, ref, sent, lapsed, checkout, todo, faults>>
  BY <1>3 DEF Unbook
<1>5. DocsTyped'
  BY <1>4, TypeParts DEF IInv, DocsTyped, tripVars
<1>6. Only(b)
  BY <1>4 DEF Only, tripVars, IInv, TypeOK
<1>7. /\ booking'[b] = IF booking[b] = "none" THEN "none" ELSE "CANCELLED"
      /\ ~ref[b] /\ sale[b] # "COMPLETED" /\ b \notin Sold
  BY <1>2, <1>3, <1>4 DEF IInv, TypeOK, Fits, Creating
<1>8. StaysFit(l, b)
  BY <1>2, <1>4, <1>7 DEF StaysFit, Fits, Settling, Creating, Sold, Has, tripVars
<1>9. BookingOK(b)'
  BY <1>3, <1>4, <1>7 DEF BookingOK, Sold, Has, tripVars
<1>10. CASE Finish(p)
  BY <1>1, <1>2, <1>3, <1>4, <1>5, <1>6, <1>8, <1>9, <1>10, WriteThenFinish
<1>11. CASE Goto(p, "unsell")
  <2>1. Fits("unsell", b)'
    BY <1>2, <1>3, <1>4, <1>7 DEF Fits, Creating, Sold, Has, tripVars
  <2> QED BY <1>1, <1>2, <1>3, <1>4, <1>5, <1>6, <1>8, <1>9, <1>11, <2>1, WriteThenGoto
<1> QED BY <1>10, <1>11 DEF Unbook

LEMMA SaveReservedStep == ASSUME IInv, NEW p \in Procs, SaveReserved(p) PROVE IInv'
<1>1. /\ reservedCount' = job[p].n /\ Finish(p)
      /\ UNCHANGED <<scheme, seat, soldCount, saleVars, checkout, todo, faults>>
  BY DEF SaveReserved
<1>2. job[p].n \in Nat
  BY DEF IInv, TypeOK, Job
<1>3. TypeOK'
  BY <1>1, <1>2, FinishJob DEF IInv, TypeOK, saleVars
<1>4. UNCHANGED DocVars /\ ListOK'
  BY <1>1 DEF saleVars, DocVars, IInv, ListOK
<1> QED BY <1>1, <1>3, <1>4, FinishJob, FinishOK, QuietStep DEF IInv

LEMMA ClaimCapacityStep ==
    ASSUME IInv, NEW p \in Handlers, NEW b \in Bookings, ClaimCapacity(p, b)
    PROVE  IInv'
<1>0. PICK l \in {"charge", "save"} : l = IF rail[b] = "CASH" THEN "charge" ELSE "save"
  OBVIOUS
<1> DEFINE j == [IdleJob EXCEPT !.pc = l, !.b = b]
<1>1. p \in Procs /\ j \in Job /\ j.pc = l /\ j.b = b
  BY DEF Procs, IdleJob, Job, PCs
<1>2. /\ place[b] = NoPlace /\ job' = [job EXCEPT ![p] = j]
      /\ UNCHANGED <<scheme, reservedCount, rail, booking, sale, ref, sent, lapsed, checkout, todo, faults>>
  BY <1>0 DEF ClaimCapacity
<1> HIDE DEF j
<1>3. /\ job' \in [Procs -> Job] /\ job'[p].pc = l /\ job'[p].b = b
      /\ \A q \in Procs \ {p} : job'[q] = job[q]
  BY <1>1, <1>2 DEF IInv, TypeOK
<1>4. BookingOK(b) /\ booking[b] = "none" /\ sale[b] = "none" /\ ~ref[b]
  BY <1>2 DEF IInv, BookingsOK, BookingOK
<1>5. NoPlace \notin Seats /\ "any" # NoPlace /\ \A c \in Bookings : c # "free"
  BY TripAssumption
<1>6. /\ place' \in [Bookings -> Seats \cup {"any", NoPlace}]
      /\ \A c \in Bookings \ {b} : place'[c] = place[c]
      /\ place'[b] # NoPlace
      /\ scheme = "SEATS" =>
           /\ place'[b] \in Seats
           /\ seat[place'[b]] = "free" /\ seat' = [seat EXCEPT ![place'[b]] = b]
      /\ scheme # "SEATS" => seat' = seat
      /\ soldCount' \in Int
  BY <1>5 DEF ClaimCapacity, IInv, TypeOK
<1>7. seat' \in [Seats -> Bookings \cup {"free", "reserved"}]
  BY <1>6 DEF IInv, TypeOK
<1>8. TypeOK'
  BY <1>2, <1>3, <1>6, <1>7 DEF IInv, TypeOK
<1>9. \A n \in Seats : seat'[n] = seat[n] \/ (seat[n] = "free" /\ n = place'[b] /\ seat'[n] = b)
  BY <1>6 DEF IInv, TypeOK
<1>10. Only(b)
  BY <1>2, <1>5, <1>6, <1>9 DEF Only
<1>11. Has(b)'
  BY <1>2, <1>6 DEF Has, IInv, TypeOK
<1>12. Fits(l, b)'
  BY <1>2, <1>4, <1>6, <1>11 DEF Fits, Creating, Sold
<1>13. BookingOK(b)'
  <2>1. \A n \in Seats : seat[n] # b
    <3>1. \A n \in Seats : seat[n] = b => place[b] = n
      BY <1>4 DEF BookingOK
    <3> QED BY <1>2, <1>5, <3>1
  <2>2. \A n \in Seats : seat'[n] = b => place'[b] = n
    BY <1>9, <2>1
  <2> QED BY <1>2, <1>4, <1>6, <2>2 DEF BookingOK, Sold
<1>14. ASSUME NEW q \in Procs \ {p}, job[q].b = b
       PROVE  job[q].pc \notin Creating /\ JobOK(q)'
  <2>1. job'[q] = job[q] /\ JobOK(q)
    BY <1>3 DEF IInv, JobsOK
  <2>2. PICK m : m = job[q].pc
    OBVIOUS
  <2>3. m \notin Creating
    BY <1>2, <1>14, <2>1, <2>2 DEF JobOK, Fits
  <2>4. m \in Settling => Fits(m, b)'
    <3>1. m \in Settling => Fits(m, b)
      BY <1>14, <2>1, <2>2 DEF JobOK
    <3> QED BY <1>2, <2>3, <3>1 DEF Fits, Settling, Creating, Sold
  <2> QED BY <1>14, <2>1, <2>2, <2>3, <2>4 DEF JobOK
<1>15. JobOK(p)' /\ ListOK'
  <2>1. ListOK'
    BY <1>2 DEF IInv, ListOK
  <2>2. JobOK(p)'
    BY <1>3, <1>12 DEF JobOK
  <2> QED BY <2>1, <2>2
<1> QED BY <1>1, <1>3, <1>8, <1>10, <1>13, <1>14, <1>15, MoveStep

-----------------------------------------------------------------------------
(* Steps of no process.                                                    *)

LEMMA WorldStep ==
    ASSUME IInv, TypeOK', UNCHANGED <<job, todo>>,
           \A c \in Bookings : ref[c] => ref'[c],
           \A c \in Bookings : BookingOK(c)' /\ \A l \in Creating \cup Settling :
                                                  Fits(l, c) => Fits(l, c)'
    PROVE  IInv'
<1>1. BookingsOK'
  BY DEF BookingsOK
<1>2. JobsOK'
  BY DEF IInv, JobsOK, JobOK
<1>3. OneCreator' /\ ListOK'
  BY DEF IInv, OneCreator, ListOK, TypeOK
<1> QED BY <1>1, <1>2, <1>3 DEF IInv

\* Such a step about one booking.
LEMMA WorldStepOf ==
    ASSUME IInv, TypeOK', UNCHANGED <<job, todo, ref>>, NEW b \in Bookings, Only(b),
           BookingOK(b)', \A l \in Creating \cup Settling : Fits(l, b) => Fits(l, b)'
    PROVE  IInv'
<1> SUFFICES ASSUME NEW c \in Bookings
             PROVE  BookingOK(c)' /\ \A l \in Creating \cup Settling :
                                         Fits(l, c) => Fits(l, c)'
  BY WorldStep
<1>1. CASE c = b
  BY <1>1
<1>2. CASE c # b
  <2>1. BookingOK(c)
    BY DEF IInv, BookingsOK
  <2>2. BookingOK(c)'
    BY <1>2, <2>1, OthersKept
  <2> QED BY <1>2, <2>2, OthersFit
<1> QED BY <1>1, <1>2

LEMMA BoardStep == ASSUME IInv, NEW b \in Bookings, Board(b) PROVE IInv'
<1>1. /\ booking[b] = "CONFIRMED" /\ booking' = [booking EXCEPT ![b] = "BOARDED"]
      /\ UNCHANGED <<tripVars, rail, place, sale, ref, sent, lapsed, checkout, job, todo, faults>>
  BY DEF Board
<1>2. TypeOK' /\ Only(b) /\ booking'[b] = "BOARDED"
  BY <1>1 DEF IInv, TypeOK, Only, tripVars
<1>3. BookingOK(b)
  BY DEF IInv, BookingsOK
<1>4. BookingOK(b)'
  BY <1>1, <1>2, <1>3 DEF BookingOK, Sold, Has, tripVars
<1>5. \A l \in Creating \cup Settling : Fits(l, b) => Fits(l, b)'
  BY <1>1, <1>2, <1>3 DEF BookingOK, Fits, Creating, Sold, Has, tripVars
<1> QED BY <1>1, <1>2, <1>4, <1>5, WorldStepOf

LEMMA ResolveStep == ASSUME IInv, NEW b \in Bookings, Resolve(b) PROVE IInv'
<1>1. PICK c \in {"paid", "mismatch", "rejected"} : checkout' = [checkout EXCEPT ![b] = c]
  BY DEF Resolve
<1>2. checkout[b] = "open" /\ UNCHANGED <<tripVars, saleVars, job, todo, faults>>
  BY DEF Resolve
<1>3. TypeOK' /\ Only(b)
  BY <1>1, <1>2 DEF IInv, TypeOK, Only, tripVars, saleVars
<1>4. BookingOK(b)
  BY DEF IInv, BookingsOK
<1>5. BookingOK(b)'
  BY <1>2, <1>4 DEF BookingOK, Sold, Has, tripVars, saleVars
<1>6. \A l \in Creating \cup Settling : Fits(l, b) => Fits(l, b)'
  BY <1>2, <1>4 DEF BookingOK, Fits, Creating, Sold, Has, tripVars, saleVars
<1> QED BY <1>2, <1>3, <1>5, <1>6, WorldStepOf DEF saleVars

LEMMA HoldLapsesStep == ASSUME IInv, NEW b \in Bookings, HoldLapses(b) PROVE IInv'
<1>1. /\ lapsed' = [lapsed EXCEPT ![b] = TRUE] /\ faults' \in {faults, faults + 1}
      /\ UNCHANGED <<tripVars, rail, place, booking, sale, ref, sent, checkout, job, todo>>
  BY DEF HoldLapses
<1>2. TypeOK' /\ UNCHANGED DocVars
  BY <1>1 DEF IInv, TypeOK, tripVars, DocVars
<1>3. \A c \in Bookings : BookingOK(c)'
  BY <1>2, DocsKept DEF IInv, BookingsOK
<1>4. \A c \in Bookings : \A l \in Creating \cup Settling : Fits(l, c) => Fits(l, c)'
  BY <1>2, FitsKept
<1> QED BY <1>1, <1>2, <1>3, <1>4, WorldStep

\* Seats that change hands between the operator and nobody.
LEMMA SetAsideStep ==
    ASSUME IInv, NEW n \in Seats, ReserveSeat(n) \/ ReleaseSeat(n)
    PROVE  IInv'
<1>1. /\ seat' = [seat EXCEPT ![n] = "reserved"] \/ seat' = [seat EXCEPT ![n] = "free"]
      /\ seat[n] \in {"free", "reserved"}
      /\ UNCHANGED <<scheme, soldCount, reservedCount, saleVars, checkout, job, todo, faults>>
  BY DEF ReserveSeat, ReleaseSeat
<1>2. TypeOK'
  BY <1>1 DEF IInv, TypeOK, saleVars
<1>3. ASSUME NEW c \in Bookings
      PROVE  BookingOK(c)' /\ \A l \in Creating \cup Settling : Fits(l, c) => Fits(l, c)'
  <2>1. c # "free" /\ c # "reserved"
    BY TripAssumption
  <2>2. \A m \in Seats : seat'[m] = c <=> seat[m] = c
    BY <1>1, <2>1 DEF IInv, TypeOK
  <2>3. Has(c)' <=> Has(c)
    BY <1>1, <2>2 DEF Has, saleVars
  <2>4. BookingOK(c)
    BY DEF IInv, BookingsOK
  <2>5. BookingOK(c)'
    BY <1>1, <2>2, <2>3, <2>4 DEF BookingOK, Sold, saleVars
  <2>6. \A l \in Creating \cup Settling : Fits(l, c) => Fits(l, c)'
    BY <1>1, <2>3 DEF Fits, Sold, saleVars
  <2> QED BY <2>5, <2>6
<1> QED BY <1>1, <1>2, <1>3, WorldStep DEF saleVars

-----------------------------------------------------------------------------
(* The invariant and what follows from it.                                 *)

LEMMA InitIInv == Init => IInv
<1> SUFFICES ASSUME Init PROVE IInv
  OBVIOUS
<1>1. reservedCount \in Nat
  BY TripAssumption, FS_CardinalityType DEF Init, Total
<1>2. TypeOK
  BY <1>1, Labels DEF Init, TypeOK
<1>3. \A p \in Procs : job[p].pc = "idle"
  BY DEF Init, IdleJob
<1>4. JobsOK /\ OneCreator /\ ListOK
  BY <1>3, Labels DEF Init, JobsOK, JobOK, OneCreator, ListOK
<1>5. ASSUME NEW b \in Bookings PROVE BookingOK(b)
  <2>1. \A n \in Seats : seat[n] # b
    BY TripAssumption DEF Init
  <2> QED BY <2>1 DEF Init, BookingOK, Sold
<1> QED BY <1>2, <1>4, <1>5 DEF IInv, BookingsOK

LEMMA StepIInv == ASSUME IInv, NEW p \in Procs, Step(p) PROVE IInv'
<1>1. CASE SaveBooking(p)
  BY <1>1, SaveBookingStep
<1>2. CASE CreateSale(p)
  BY <1>2, CreateSaleStep
<1>3. CASE LinkSale(p)
  BY <1>3, LinkSaleStep
<1>4. CASE CallProvider(p)
  BY <1>4, CallProviderStep
<1>5. CASE StoreRef(p)
  BY <1>5, StoreRefStep
<1>6. CASE UndoClaim(p)
  BY <1>6, UndoClaimStep
<1>7. CASE Unbook(p)
  BY <1>7, UnbookStep
<1>8. CASE Unsell(p)
  BY <1>8, UnsellStep
<1>9. CASE Charge(p)
  BY <1>9, ChargeStep
<1>10. CASE SaveConfirmed(p)
  BY <1>10, SaveConfirmedStep
<1>11. CASE CreateCompleted(p)
  BY <1>11, CreateCompletedStep
<1>12. CASE AskProvider(p)
  BY <1>12, AskProviderStep
<1>13. CASE ClaimSale(p)
  BY <1>13, ClaimSaleStep
<1>14. CASE Confirm(p)
  BY <1>14, ConfirmStep
<1>15. CASE FailSale(p)
  BY <1>15, FailSaleStep
<1>16. CASE CancelBooking(p)
  BY <1>16, CancelBookingStep
<1>17. CASE ReleaseFailed(p)
  BY <1>17, ReleaseFailedStep
<1>18. CASE NextItem(p)
  BY <1>18, NextItemStep
<1>19. CASE SaveReserved(p)
  BY <1>19, SaveReservedStep
<1> QED BY <1>1, <1>2, <1>3, <1>4, <1>5, <1>6, <1>7, <1>8, <1>9, <1>10,
         <1>11, <1>12, <1>13, <1>14, <1>15, <1>16, <1>17, <1>18, <1>19 DEF Step

LEMMA StutterStep == ASSUME IInv, UNCHANGED vars PROVE IInv'
<1>1. UNCHANGED DocVars /\ UNCHANGED <<job, todo, ref>>
  BY DEF vars, tripVars, saleVars, DocVars
<1>2. TypeOK'
  BY DEF IInv, TypeOK, vars, tripVars, saleVars
<1>3. \A c \in Bookings : BookingOK(c)'
  BY <1>1, DocsKept DEF IInv, BookingsOK
<1>4. \A c \in Bookings : \A l \in Creating \cup Settling : Fits(l, c) => Fits(l, c)'
  BY <1>1, FitsKept
<1> QED BY <1>1, <1>2, <1>3, <1>4, WorldStep

LEMMA NextIInv == IInv /\ [Next]_vars => IInv'
<1> SUFFICES ASSUME IInv, [Next]_vars PROVE IInv'
  OBVIOUS
<1>1. CASE UNCHANGED vars
  BY <1>1, StutterStep
<1>2. ASSUME NEW p \in Handlers, NEW b \in Bookings, ClaimCapacity(p, b) PROVE IInv'
  BY <1>2, ClaimCapacityStep
<1>3. ASSUME NEW p \in Handlers, NEW b \in Bookings, StartFinalize(p, b) PROVE IInv'
  BY <1>3, StartFinalizeStep
<1>4. ASSUME NEW p \in Handlers, NEW n \in 0..Total, CheckReserved(p, n) PROVE IInv'
  BY <1>4, CheckReservedStep
<1>5. ASSUME NEW p \in Procs, Step(p) PROVE IInv'
  BY <1>5, StepIInv
<1>6. ASSUME NEW p \in Procs, Abort(p) PROVE IInv'
  BY <1>6, AbortStep
<1>7. CASE StartSweep
  BY <1>7, StartSweepStep
<1>8. CASE StartReconcile
  BY <1>8, StartReconcileStep
<1>9. ASSUME NEW b \in Bookings, Board(b) \/ Resolve(b) \/ HoldLapses(b) PROVE IInv'
  BY <1>9, BoardStep, ResolveStep, HoldLapsesStep
<1>10. ASSUME NEW n \in Seats, ReserveSeat(n) \/ ReleaseSeat(n) PROVE IInv'
  BY <1>10, SetAsideStep
<1> QED BY <1>1, <1>2, <1>3, <1>4, <1>5, <1>6, <1>7, <1>8, <1>9, <1>10 DEF Next

(* In every reachable state the invariant holds.                           *)
THEOREM Invariance == Spec => []IInv
BY InitIInv, NextIInv, PTL DEF Spec

(* Seats, documents, processes and lists keep their types: no step writes  *)
(* to a seat, a status or a list anything the schema does not allow.       *)
THEOREM TypeCorrect == Spec => []TypeOK
<1>1. IInv => TypeOK
  BY DEF IInv
<1> QED BY <1>1, Invariance, PTL

(* No passenger is confirmed or boarded whose payment the provider did not *)
(* report as made, whatever overlaps and whatever is cut short.            *)
THEOREM ConfirmedPaid == Spec => []ConfirmedHasPaid
<1>1. IInv => ConfirmedHasPaid
  BY DEF IInv, BookingsOK, BookingOK, ConfirmedHasPaid, Sold
<1> QED BY <1>1, Invariance, PTL

-----------------------------------------------------------------------------
(* Settled sales.                                                          *)

Settled(b) == sale[b] \in {"COMPLETED", "FAILED"}

\* The writes of a sale, each with what its label says of it.
LEMMA SaleWritten ==
    ASSUME IInv, NEW p \in Procs,
           \/ CreateSale(p) \/ Unsell(p) \/ CreateCompleted(p) \/ ClaimSale(p) \/ FailSale(p),
           NEW b \in Bookings, Settled(b)
    PROVE  sale'[b] = sale[b]
<1>1. PICK l \in {"sale", "unsell", "completed", "claim", "fail"} : At(p, l)
  BY DEF CreateSale, Unsell, CreateCompleted, ClaimSale, FailSale
<1>2. l \in Creating \cup Settling
  BY <1>1 DEF Creating, Settling
<1>3. PICK c \in Bookings : c = job[p].b
  BY <1>1, <1>2, AtWork
<1>4. Fits(l, c) /\ job[p].pc = l
  BY <1>1, <1>2, <1>3, AtWork DEF At
<1>5. CASE CreateSale(p)
  <2>1. sale[c] = "none"
    BY <1>4, <1>5 DEF CreateSale, At, Fits
  <2>2. sale' = sale \/ sale' = [sale EXCEPT ![c] = "PENDING"]
    BY <1>3, <1>5 DEF CreateSale, SetSale
  <2>3. b # c
    BY <2>1 DEF Settled
  <2> QED BY <2>2, <2>3 DEF IInv, TypeOK
<1>6. CASE Unsell(p)
  <2>1. sale[c] # "COMPLETED"
    BY <1>4, <1>6 DEF Unsell, At, Fits, Creating
  <2>2. sale' = [sale EXCEPT ![c] = "FAILED"]
    BY <1>3, <1>6 DEF Unsell, SetSale
  <2> QED BY <2>1, <2>2 DEF Settled, IInv, TypeOK
<1>7. CASE CreateCompleted(p)
  <2>1. sale[c] = "none"
    BY <1>4, <1>7 DEF CreateCompleted, At, Fits
  <2>2. sale' = [sale EXCEPT ![c] = "COMPLETED"]
    BY <1>3, <1>7 DEF CreateCompleted, SetSale
  <2>3. b # c
    BY <2>1 DEF Settled
  <2> QED BY <2>2, <2>3 DEF IInv, TypeOK
<1>8. CASE ClaimSale(p) \/ FailSale(p)
  <2>1. sale' = sale \/ (sale[c] = "PENDING" /\ \E v \in {"COMPLETED", "FAILED"} :
                                                  sale' = [sale EXCEPT ![c] = v])
    BY <1>3, <1>8 DEF ClaimSale, FailSale, SetSale
  <2> QED BY <2>1 DEF Settled, IInv, TypeOK
<1> QED BY <1>5, <1>6, <1>7, <1>8

LEMMA SettledStep ==
    ASSUME IInv, Next, NEW b \in Bookings, Settled(b)
    PROVE  sale'[b] = sale[b]
<1>1. ASSUME NEW p \in Procs, Step(p)
      PROVE  sale'[b] = sale[b]
  <2>1. CASE CreateSale(p) \/ Unsell(p) \/ CreateCompleted(p) \/ ClaimSale(p) \/ FailSale(p)
    BY <2>1, SaleWritten
  <2>2. CASE \/ SaveBooking(p) \/ LinkSale(p) \/ CallProvider(p) \/ StoreRef(p)
             \/ UndoClaim(p) \/ Unbook(p) \/ Charge(p) \/ SaveConfirmed(p)
             \/ AskProvider(p) \/ Confirm(p) \/ CancelBooking(p) \/ ReleaseFailed(p)
             \/ NextItem(p) \/ SaveReserved(p)
    BY <2>2 DEF SaveBooking, LinkSale, CallProvider, StoreRef, UndoClaim, Unbook, Charge,
                SaveConfirmed, AskProvider, Confirm, CancelBooking, ReleaseFailed,
                NextItem, SaveReserved, saleVars
  <2> QED BY <1>1, <2>1, <2>2 DEF Step
<1>2. ASSUME NEW p \in Handlers, NEW c \in Bookings, ClaimCapacity(p, c) \/ StartFinalize(p, c)
      PROVE  sale' = sale
  BY <1>2 DEF ClaimCapacity, StartFinalize, saleVars
<1>3. ASSUME NEW p \in Handlers, NEW n \in 0..Total, CheckReserved(p, n) PROVE sale' = sale
  BY <1>3 DEF CheckReserved, saleVars
<1>4. ASSUME NEW p \in Procs, Abort(p) PROVE sale' = sale
  BY <1>4 DEF Abort, saleVars
<1>5. StartSweep \/ StartReconcile => sale' = sale
  BY DEF StartSweep, StartReconcile, saleVars
<1>6. ASSUME NEW c \in Bookings, Board(c) \/ Resolve(c) \/ HoldLapses(c) PROVE sale' = sale
  BY <1>6 DEF Board, Resolve, HoldLapses, saleVars
<1>7. ASSUME NEW n \in Seats, ReserveSeat(n) \/ ReleaseSeat(n) PROVE sale' = sale
  BY <1>7 DEF ReserveSeat, ReleaseSeat, saleVars
<1> QED BY <1>1, <1>2, <1>3, <1>4, <1>5, <1>6, <1>7 DEF Next

(* A completed sale stays completed and a failed one failed, whichever of  *)
(* the finalizers, the jobs and the failing initiator writes last.         *)
THEOREM SettledStays == Spec => SettledIsFinal
<1> DEFINE Kept == \A b \in Bookings :
                     sale[b] \in {"COMPLETED", "FAILED"} => sale'[b] = sale[b]
<1>1. IInv /\ [Next]_vars => [Kept]_vars
  <2> SUFFICES ASSUME IInv, Next PROVE Kept
    OBVIOUS
  <2> QED BY SettledStep DEF Settled
<1>2. Spec => [][Kept]_vars
  <2> HIDE DEF Kept
  <2> QED BY <1>1, Invariance, PTL DEF Spec
<1> QED BY <1>2 DEF SettledIsFinal

-----------------------------------------------------------------------------
(* Failed sales.                                                           *)

\* What justifies the failure of a booking whose passenger was sent to pay.
Grounds(b) ==
    lapsed[b] \/ (ref[b] /\ checkout[b] \in {"rejected", "mismatch"})

\* What a process knows before it fails a sale, and an initiator of a sale that
\* was failed before it has stored the reference.
EvidenceAt(p) ==
    /\ job[p].pc = "fail" => Grounds(job[p].b)
    /\ job[p].pc = "ask" /\ p = Sweeper => lapsed[job[p].b]
    /\ job[p].pc \in {"link", "provider", "store"} /\ sale[job[p].b] = "FAILED"
         => lapsed[job[p].b]

\* The sweep lists lapsed sales only, every other job sales with a reference.
EvidenceListed ==
    \A p \in Procs : \A x \in todo[p] : IF p = Sweeper THEN lapsed[x[1]] ELSE x[2]

\* Who was sent to pay has a reference on the sale.
SentHaveRef == \A b \in sent : ref[b]

Evidence == FailsOnEvidence /\ SentHaveRef /\ (\A p \in Procs : EvidenceAt(p)) /\ EvidenceListed

LEMMA LapsedStays ==
    ASSUME IInv, Next, NEW b \in Bookings, lapsed[b]
    PROVE  lapsed'[b]
<1>1. ASSUME NEW p \in Procs, Step(p) PROVE lapsed' = lapsed
  BY <1>1 DEF Step, SaveBooking, CreateSale, LinkSale, CallProvider, StoreRef, UndoClaim,
              Unbook, Unsell, Charge, SaveConfirmed, CreateCompleted, AskProvider, ClaimSale,
              Confirm, FailSale, CancelBooking, ReleaseFailed, NextItem, SaveReserved, saleVars
<1>2. ASSUME NEW c \in Bookings, HoldLapses(c) PROVE lapsed'[b]
  BY <1>2 DEF HoldLapses, IInv, TypeOK
<1>3. ASSUME NEW p \in Procs, Abort(p) PROVE lapsed' = lapsed
  BY <1>3 DEF Abort, saleVars
<1>4. ASSUME NEW p \in Handlers, NEW c \in Bookings, ClaimCapacity(p, c) \/ StartFinalize(p, c)
      PROVE  lapsed' = lapsed
  BY <1>4 DEF ClaimCapacity, StartFinalize, saleVars
<1>5. ASSUME NEW p \in Handlers, NEW n \in 0..Total, CheckReserved(p, n) PROVE lapsed' = lapsed
  BY <1>5 DEF CheckReserved, saleVars
<1>6. StartSweep \/ StartReconcile => lapsed' = lapsed
  BY DEF StartSweep, StartReconcile, saleVars
<1>7. ASSUME NEW c \in Bookings, Board(c) \/ Resolve(c) PROVE lapsed' = lapsed
  BY <1>7 DEF Board, Resolve, saleVars
<1>8. ASSUME NEW n \in Seats, ReserveSeat(n) \/ ReleaseSeat(n) PROVE lapsed' = lapsed
  BY <1>8 DEF ReserveSeat, ReleaseSeat, saleVars
<1> QED BY <1>1, <1>2, <1>3, <1>4, <1>5, <1>6, <1>7, <1>8 DEF Next

LEMMA GroundsStay ==
    ASSUME IInv, Next, NEW b \in Bookings, Grounds(b)
    PROVE  Grounds(b)'
<1>1. CASE lapsed[b]
  BY <1>1, LapsedStays DEF Grounds
<1>2. CASE ref[b] /\ checkout[b] \in {"rejected", "mismatch"}
  <2>1. ASSUME NEW p \in Procs, CallProvider(p) \/ Charge(p)
        PROVE  checkout'[b] = checkout[b] /\ ref'[b]
    <3>1. PICK l \in {"provider", "charge"} : At(p, l)
      BY <2>1 DEF CallProvider, Charge
    <3>2. PICK c \in Bookings : c = job[p].b
      BY <3>1, AtWork DEF Creating
    <3>3. ~ref[c]
      BY <3>1, <3>2, AtWork DEF Creating, Fits
    <3>4. /\ ref' = ref
          /\ checkout' = checkout \/ \E v : checkout' = [checkout EXCEPT ![c] = v]
      BY <2>1, <3>2 DEF CallProvider, Charge, saleVars
    <3>5. c # b
      BY <1>2, <3>3
    <3> QED BY <1>2, <3>4, <3>5 DEF IInv, TypeOK
  <2>2. ASSUME NEW p \in Procs, StoreRef(p) \/ Unsell(p)
        PROVE  checkout'[b] = checkout[b] /\ ref'[b]
    BY <1>2, <2>2 DEF StoreRef, Unsell, IInv, TypeOK
  <2>3. ASSUME NEW p \in Procs, Step(p), ~CallProvider(p), ~Charge(p), ~StoreRef(p), ~Unsell(p)
        PROVE  checkout' = checkout /\ ref' = ref
    BY <2>3 DEF Step, SaveBooking, CreateSale, LinkSale, UndoClaim,
              Unbook, SaveConfirmed, CreateCompleted, AskProvider, ClaimSale,
              Confirm, FailSale, CancelBooking, ReleaseFailed, NextItem, SaveReserved, saleVars
  <2>4. ASSUME NEW c \in Bookings, Resolve(c) PROVE checkout'[b] = checkout[b] /\ ref' = ref
    BY <1>2, <2>4 DEF Resolve, IInv, TypeOK, saleVars
  <2>5. ASSUME NEW p \in Procs, Abort(p) PROVE checkout' = checkout /\ ref' = ref
    BY <2>5 DEF Abort, saleVars
  <2>6. ASSUME NEW p \in Handlers, NEW c \in Bookings, ClaimCapacity(p, c) \/ StartFinalize(p, c)
        PROVE  checkout' = checkout /\ ref' = ref
    BY <2>6 DEF ClaimCapacity, StartFinalize, saleVars
  <2>7. ASSUME NEW p \in Handlers, NEW n \in 0..Total, CheckReserved(p, n)
        PROVE  checkout' = checkout /\ ref' = ref
    BY <2>7 DEF CheckReserved, saleVars
  <2>8. StartSweep \/ StartReconcile => checkout' = checkout /\ ref' = ref
    BY DEF StartSweep, StartReconcile, saleVars
  <2>9. ASSUME NEW c \in Bookings, Board(c) \/ HoldLapses(c)
        PROVE  checkout' = checkout /\ ref' = ref
    BY <2>9 DEF Board, HoldLapses
  <2>10. ASSUME NEW n \in Seats, ReserveSeat(n) \/ ReleaseSeat(n)
         PROVE  checkout' = checkout /\ ref' = ref
    BY <2>10 DEF ReserveSeat, ReleaseSeat, saleVars
  <2>11. checkout'[b] = checkout[b] /\ ref'[b]
    BY <1>2, <2>1, <2>2, <2>3, <2>4, <2>5, <2>6, <2>7, <2>8, <2>9, <2>10 DEF Next
  <2> QED BY <1>2, <2>11 DEF Grounds
<1> QED BY <1>1, <1>2 DEF Grounds

\* A sale that fails has its grounds, or no reference: then its own initiator
\* fails it.
LEMMA SaleFails ==
    ASSUME IInv, Evidence, Next, NEW b \in Bookings, sale[b] # "FAILED", sale'[b] = "FAILED"
    PROVE  Grounds(b) \/ \E p \in Procs : Unsell(p) /\ job[p].b = b
<1>1. ASSUME NEW p \in Procs, Step(p) PROVE FailSale(p) \/ Unsell(p)
  <2>1. CASE CreateSale(p) \/ CreateCompleted(p) \/ ClaimSale(p)
    <3>1. PICK l \in {"sale", "completed", "claim"} : At(p, l)
      BY <2>1 DEF CreateSale, CreateCompleted, ClaimSale
    <3>2. PICK c \in Bookings : c = job[p].b
      BY <3>1, AtWork DEF Creating, Settling
    <3>3. sale' = sale \/ \E v \in {"PENDING", "COMPLETED"} : sale' = [sale EXCEPT ![c] = v]
      BY <2>1, <3>2 DEF CreateSale, CreateCompleted, ClaimSale, SetSale
    <3> QED BY <3>3 DEF IInv, TypeOK
  <2>2. CASE \/ SaveBooking(p) \/ LinkSale(p) \/ CallProvider(p) \/ StoreRef(p)
             \/ UndoClaim(p) \/ Unbook(p) \/ Charge(p) \/ SaveConfirmed(p)
             \/ AskProvider(p) \/ Confirm(p) \/ CancelBooking(p) \/ ReleaseFailed(p)
             \/ NextItem(p) \/ SaveReserved(p)
    BY <2>2 DEF SaveBooking, LinkSale, CallProvider, StoreRef, UndoClaim, Unbook, Charge,
                SaveConfirmed, AskProvider, Confirm, CancelBooking, ReleaseFailed,
                NextItem, SaveReserved, saleVars
  <2> QED BY <1>1, <2>1, <2>2 DEF Step
<1>2. ASSUME NEW p \in Procs, FailSale(p) \/ Unsell(p)
      PROVE  job[p].b = b /\ (FailSale(p) => Grounds(b))
  <2>1. PICK l \in {"fail", "unsell"} : At(p, l) /\ (FailSale(p) => l = "fail")
    BY <1>2 DEF FailSale, Unsell
  <2>2. PICK c \in Bookings : c = job[p].b
    BY <2>1, AtWork DEF Creating, Settling
  <2>3. sale' = sale \/ sale' = [sale EXCEPT ![c] = "FAILED"]
    BY <1>2, <2>2 DEF FailSale, Unsell, SetSale
  <2>4. c = b
    BY <2>3 DEF IInv, TypeOK
  <2>5. FailSale(p) => Grounds(b)
    BY <2>1, <2>2, <2>4 DEF Evidence, EvidenceAt, At
  <2> QED BY <2>2, <2>4, <2>5
<1>3. ASSUME NEW p \in Handlers, NEW c \in Bookings, ClaimCapacity(p, c) \/ StartFinalize(p, c)
      PROVE  FALSE
  BY <1>3 DEF ClaimCapacity, StartFinalize, saleVars
<1>4. ASSUME NEW p \in Handlers, NEW n \in 0..Total, CheckReserved(p, n) PROVE FALSE
  BY <1>4 DEF CheckReserved, saleVars
<1>5. ASSUME NEW p \in Procs, Abort(p) PROVE FALSE
  BY <1>5 DEF Abort, saleVars
<1>6. StartSweep \/ StartReconcile => FALSE
  BY DEF StartSweep, StartReconcile, saleVars
<1>7. ASSUME NEW c \in Bookings, Board(c) \/ Resolve(c) \/ HoldLapses(c) PROVE FALSE
  BY <1>7 DEF Board, Resolve, HoldLapses, saleVars
<1>8. ASSUME NEW n \in Seats, ReserveSeat(n) \/ ReleaseSeat(n) PROVE FALSE
  BY <1>8 DEF ReserveSeat, ReleaseSeat, saleVars
<1>9. PICK p \in Procs : Step(p)
  BY <1>3, <1>4, <1>5, <1>6, <1>7, <1>8 DEF Next
<1> QED BY <1>1, <1>2, <1>9

\* Only an initiator whose reference is saved sends a passenger to pay.
LEMMA SentGrows ==
    ASSUME IInv, Next, NEW b \in sent', b \notin sent
    PROVE  \E p \in Procs : StoreRef(p) /\ job[p].b = b /\ b \in Bookings /\ ref'[b]
<1>1. ASSUME NEW p \in Procs, Step(p), ~StoreRef(p) PROVE sent' = sent
  BY <1>1 DEF Step, SaveBooking, CreateSale, LinkSale, CallProvider, UndoClaim,
          Unbook, Unsell, Charge, SaveConfirmed, CreateCompleted, AskProvider, ClaimSale,
          Confirm, FailSale, CancelBooking, ReleaseFailed, NextItem, SaveReserved, saleVars
<1>2. ASSUME NEW p \in Procs, Abort(p) PROVE sent' = sent
  BY <1>2 DEF Abort, saleVars
<1>3. ASSUME NEW p \in Handlers, NEW c \in Bookings, ClaimCapacity(p, c) \/ StartFinalize(p, c)
      PROVE  sent' = sent
  BY <1>3 DEF ClaimCapacity, StartFinalize, saleVars
<1>4. ASSUME NEW p \in Handlers, NEW n \in 0..Total, CheckReserved(p, n) PROVE sent' = sent
  BY <1>4 DEF CheckReserved, saleVars
<1>5. StartSweep \/ StartReconcile => sent' = sent
  BY DEF StartSweep, StartReconcile, saleVars
<1>6. ASSUME NEW c \in Bookings, Board(c) \/ Resolve(c) \/ HoldLapses(c) PROVE sent' = sent
  BY <1>6 DEF Board, Resolve, HoldLapses, saleVars
<1>7. ASSUME NEW n \in Seats, ReserveSeat(n) \/ ReleaseSeat(n) PROVE sent' = sent
  BY <1>7 DEF ReserveSeat, ReleaseSeat, saleVars
<1>8. PICK p \in Procs : StoreRef(p)
  BY <1>1, <1>2, <1>3, <1>4, <1>5, <1>6, <1>7 DEF Next
<1>9. PICK c \in Bookings : c = job[p].b
  BY <1>8, AtWork DEF StoreRef, Creating
<1>10. sent' = sent \cup {c} /\ ref' = [ref EXCEPT ![c] = TRUE]
  BY <1>8, <1>9 DEF StoreRef
<1> QED BY <1>8, <1>9, <1>10 DEF IInv, TypeOK

\* A reference once stored is never taken off.
LEMMA RefStays ==
    ASSUME IInv, Next, NEW b \in Bookings, ref[b] PROVE ref'[b]
<1>1. ASSUME NEW p \in Procs, StoreRef(p) \/ Unsell(p) PROVE ref'[b]
  BY <1>1 DEF StoreRef, Unsell, IInv, TypeOK
<1>2. ASSUME NEW p \in Procs, Step(p), ~StoreRef(p), ~Unsell(p) PROVE ref' = ref
  BY <1>2 DEF Step, SaveBooking, CreateSale, LinkSale, CallProvider, UndoClaim,
          Unbook, Charge, SaveConfirmed, CreateCompleted, AskProvider, ClaimSale,
          Confirm, FailSale, CancelBooking, ReleaseFailed, NextItem, SaveReserved, saleVars
<1>3. ASSUME NEW p \in Procs, Abort(p) PROVE ref' = ref
  BY <1>3 DEF Abort, saleVars
<1>4. ASSUME NEW p \in Handlers, NEW c \in Bookings, ClaimCapacity(p, c) \/ StartFinalize(p, c)
      PROVE  ref' = ref
  BY <1>4 DEF ClaimCapacity, StartFinalize, saleVars
<1>5. ASSUME NEW p \in Handlers, NEW n \in 0..Total, CheckReserved(p, n) PROVE ref' = ref
  BY <1>5 DEF CheckReserved, saleVars
<1>6. StartSweep \/ StartReconcile => ref' = ref
  BY DEF StartSweep, StartReconcile, saleVars
<1>7. ASSUME NEW c \in Bookings, Board(c) \/ Resolve(c) \/ HoldLapses(c) PROVE ref' = ref
  BY <1>7 DEF Board, Resolve, HoldLapses, saleVars
<1>8. ASSUME NEW n \in Seats, ReserveSeat(n) \/ ReleaseSeat(n) PROVE ref' = ref
  BY <1>8 DEF ReserveSeat, ReleaseSeat, saleVars
<1> QED BY <1>1, <1>2, <1>3, <1>4, <1>5, <1>6, <1>7, <1>8 DEF Next

LEMMA EvidenceOfReferences ==
    ASSUME IInv, Evidence, Next PROVE SentHaveRef'
<1> SUFFICES ASSUME NEW b \in sent' PROVE ref'[b]
  BY DEF SentHaveRef
<1>1. CASE b \in sent
  BY <1>1, RefStays DEF Evidence, SentHaveRef, IInv, TypeOK
<1>2. CASE b \notin sent
  BY <1>2, SentGrows
<1> QED BY <1>1, <1>2

\* A sale that has failed while its initiator saved the reference had lapsed.
LEMMA EvidenceOfFailure ==
    ASSUME IInv, Evidence, Next PROVE FailsOnEvidence'
<1> SUFFICES ASSUME NEW b \in Bookings, sale'[b] = "FAILED", b \in sent', ~lapsed'[b]
             PROVE  checkout'[b] \in {"rejected", "mismatch"}
  BY DEF FailsOnEvidence
<1>1. Grounds(b) => checkout'[b] \in {"rejected", "mismatch"}
  BY GroundsStay DEF Grounds
<1>2. CASE sale[b] = "FAILED" /\ b \in sent
  BY <1>1, <1>2 DEF Evidence, FailsOnEvidence, SentHaveRef, Grounds
<1>3. ASSUME sale[b] # "FAILED", ~Grounds(b) PROVE FALSE
  <2>1. PICK p \in Procs : Unsell(p) /\ job[p].b = b
    BY <1>3, SaleFails
  <2>2. ~ref[b]
    BY <2>1, AtWork DEF Unsell, Creating, Fits
  <2>3. sent' = sent
    BY <2>1 DEF Unsell
  <2> QED BY <2>2, <2>3 DEF Evidence, SentHaveRef
<1>4. ASSUME sale[b] = "FAILED", b \notin sent PROVE FALSE
  <2>1. PICK p \in Procs : StoreRef(p) /\ job[p].b = b
    BY <1>4, SentGrows
  <2>2. lapsed[b]
    BY <1>4, <2>1 DEF StoreRef, At, Evidence, EvidenceAt
  <2> QED BY <2>2, LapsedStays
<1> QED BY <1>1, <1>2, <1>3, <1>4

LEMMA EvidenceOfLists ==
    ASSUME IInv, Evidence, Next PROVE EvidenceListed'
<1> DEFINE Good(p, x) == IF p = Sweeper THEN lapsed[x[1]] ELSE x[2]
<1>1. ASSUME NEW p \in Procs, NEW x \in todo[p]
      PROVE  (IF p = Sweeper THEN lapsed'[x[1]] ELSE x[2])
  <2>1. x[1] \in Bookings /\ Good(p, x)
    BY DEF IInv, TypeOK, Evidence, EvidenceListed
  <2> QED BY <2>1, LapsedStays
<1>2. ASSUME \A p \in Procs : todo'[p] \subseteq todo[p] PROVE EvidenceListed'
  BY <1>1, <1>2 DEF EvidenceListed
<1>3. CASE StartSweep
  <2> DEFINE found == {b \in Bookings : sale[b] = "PENDING" /\ lapsed[b]}
  <2>1. todo' = [todo EXCEPT ![Sweeper] = Sales(found)] /\ lapsed' = lapsed
    BY <1>3 DEF StartSweep, saleVars
  <2>2. ASSUME NEW x \in Sales(found) PROVE lapsed[x[1]]
    BY DEF Sales
  <2>3. /\ todo'[Sweeper] = Sales(found)
        /\ \A p \in Procs \ {Sweeper} : todo'[p] = todo[p]
    BY <2>1 DEF IInv, TypeOK, Procs, Jobs
  <2> HIDE DEF found
  <2> QED BY <1>1, <2>1, <2>2, <2>3 DEF EvidenceListed
<1>4. CASE StartReconcile
  <2> DEFINE stuck == {b \in Bookings : /\ rail[b] = "PEACH_CARD" /\ ref[b]
                                        /\ sale[b] = "PENDING"}
  <2>1. todo' = [todo EXCEPT ![Reconciler] = Sales(stuck)]
    BY <1>4 DEF StartReconcile
  <2>2. ASSUME NEW x \in Sales(stuck) PROVE x[2]
    BY DEF Sales
  <2>3. /\ todo'[Reconciler] = Sales(stuck) /\ Reconciler # Sweeper
        /\ \A p \in Procs \ {Reconciler} : todo'[p] = todo[p]
    BY <2>1 DEF IInv, TypeOK, Procs, Jobs, Reconciler, Sweeper
  <2> HIDE DEF stuck
  <2> QED BY <1>1, <2>2, <2>3 DEF EvidenceListed
<1>5. ASSUME NEW p \in Procs, Step(p) PROVE \A q \in Procs : todo'[q] \subseteq todo[q]
  <2>1. CASE NextItem(p)
    BY <2>1 DEF NextItem, IInv, TypeOK
  <2>2. CASE ~NextItem(p)
    BY <1>5, <2>2 DEF Step, SaveBooking, CreateSale, LinkSale, CallProvider, StoreRef,
              UndoClaim, Unbook, Unsell, Charge, SaveConfirmed, CreateCompleted, AskProvider,
              ClaimSale, Confirm, FailSale, CancelBooking, ReleaseFailed, SaveReserved
  <2> QED BY <2>1, <2>2
<1>6. ASSUME NEW p \in Procs, Abort(p) PROVE todo' = todo
  BY <1>6 DEF Abort
<1>7. ASSUME NEW p \in Handlers, NEW c \in Bookings, ClaimCapacity(p, c) \/ StartFinalize(p, c)
      PROVE  todo' = todo
  BY <1>7 DEF ClaimCapacity, StartFinalize
<1>8. ASSUME NEW p \in Handlers, NEW n \in 0..Total, CheckReserved(p, n) PROVE todo' = todo
  BY <1>8 DEF CheckReserved
<1>9. ASSUME NEW c \in Bookings, Board(c) \/ Resolve(c) \/ HoldLapses(c) PROVE todo' = todo
  BY <1>9 DEF Board, Resolve, HoldLapses
<1>10. ASSUME NEW n \in Seats, ReserveSeat(n) \/ ReleaseSeat(n) PROVE todo' = todo
  BY <1>10 DEF ReserveSeat, ReleaseSeat
<1> QED BY <1>2, <1>3, <1>4, <1>5, <1>6, <1>7, <1>8, <1>9, <1>10 DEF Next

Watched == {"fail", "ask", "link", "provider", "store"}

\* The steps that bring a process to one of these labels.
LEMMA ComesTo ==
    ASSUME IInv, Next, NEW p \in Procs, job'[p] # job[p], job'[p].pc \in Watched
    PROVE  \/ AskProvider(p) \/ NextItem(p) \/ CreateSale(p) \/ LinkSale(p) \/ CallProvider(p)
           \/ p \in Handlers /\ \E b \in Bookings : StartFinalize(p, b)
<1>1. ASSUME NEW q \in Procs, Finish(q) PROVE p = q => job'[p].pc \notin Watched
  BY <1>1, FinishJob DEF IInv, Watched
<1>2. ASSUME NEW q \in Procs, NEW l \in PCs, Goto(q, l) PROVE p = q => job'[p].pc = l
  BY <1>2, GotoJob DEF IInv
<1>3. ASSUME NEW q \in Procs, Step(q)
      PROVE  \/ AskProvider(p) \/ NextItem(p) \/ CreateSale(p) \/ LinkSale(p) \/ CallProvider(p)
  <2>1. p = q
    <3>1. NextItem(q) => \E j : job' = [job EXCEPT ![q] = j]
      BY DEF NextItem
    <3>2. Step(q) /\ ~NextItem(q) /\ ~StoreRef(q) => Finish(q) \/ \E l : Goto(q, l)
      BY DEF Step, SaveBooking, CreateSale, LinkSale, CallProvider, UndoClaim,
             Unbook, Unsell, Charge, SaveConfirmed, CreateCompleted, AskProvider, ClaimSale,
             Confirm, FailSale, CancelBooking, ReleaseFailed, SaveReserved, OrUndo
    <3>3. \A r \in Procs \ {q} : job'[r] = job[r]
      BY <1>3, <3>1, <3>2 DEF Goto, Finish, StoreRef, IInv, TypeOK
    <3> QED BY <3>3
  <2>2. CASE SaveBooking(q) \/ Charge(q) \/ SaveConfirmed(q)
    <3>1. PICK l \in {"sale", "undo_early", "confirmed", "undo_charge", "completed"} : Goto(q, l)
      BY <2>2 DEF SaveBooking, Charge, SaveConfirmed
    <3> QED BY <1>2, <2>1, <3>1 DEF PCs, Watched
  <2>3. CASE StoreRef(q) \/ UndoClaim(q) \/ Unbook(q) \/ Unsell(q) \/ CreateCompleted(q)
    <3>1. \/ Finish(q) \/ StoreRef(q)
          \/ \E l \in {"unbook", "unbook_late", "unsell"} : Goto(q, l)
      BY <2>3 DEF UndoClaim, Unbook, Unsell, CreateCompleted
    <3>2. StoreRef(q) => Finish(q) \/ job'[q].pc = "undo_late"
      BY DEF StoreRef, IInv, TypeOK, Job
    <3> QED BY <1>1, <1>2, <2>1, <3>1, <3>2 DEF PCs, Watched
  <2>4. CASE \/ ClaimSale(q) \/ Confirm(q) \/ FailSale(q) \/ CancelBooking(q)
             \/ ReleaseFailed(q) \/ SaveReserved(q)
    <3>1. Finish(q) \/ \E l \in {"confirm", "cancel", "release"} : Goto(q, l)
      BY <2>4 DEF ClaimSale, Confirm, FailSale, CancelBooking, ReleaseFailed, SaveReserved
    <3> QED BY <1>1, <1>2, <2>1, <3>1 DEF PCs, Watched
  <2> QED BY <1>3, <2>1, <2>2, <2>3, <2>4 DEF Step
<1>4. ASSUME NEW q \in Procs, Abort(q) PROVE FALSE
  <2>1. p = q
    BY <1>4, FinishJob DEF Abort, IInv
  <2> QED BY <1>1, <1>4, <2>1 DEF Abort
<1>5. ASSUME NEW q \in Handlers, NEW c \in Bookings, ClaimCapacity(q, c) PROVE FALSE
  BY <1>5 DEF ClaimCapacity, IInv, TypeOK, Watched, IdleJob
<1>6. ASSUME NEW q \in Handlers, NEW c \in Bookings, StartFinalize(q, c)
      PROVE  p = q
  BY <1>6 DEF StartFinalize, IInv, TypeOK
<1>7. ASSUME NEW q \in Handlers, NEW n \in 0..Total, CheckReserved(q, n) PROVE FALSE
  BY <1>7 DEF CheckReserved, IInv, TypeOK, Watched, IdleJob
<1>8. ASSUME NEW q \in Jobs, Goto(q, "next") PROVE FALSE
  BY <1>8 DEF Goto, IInv, TypeOK, Watched, Procs
<1>9. ~StartSweep /\ ~StartReconcile
  BY <1>8 DEF StartSweep, StartReconcile, Jobs
<1>10. ASSUME NEW c \in Bookings, Board(c) \/ Resolve(c) \/ HoldLapses(c) PROVE FALSE
  BY <1>10 DEF Board, Resolve, HoldLapses
<1>11. ASSUME NEW n \in Seats, ReserveSeat(n) \/ ReleaseSeat(n) PROVE FALSE
  BY <1>11 DEF ReserveSeat, ReleaseSeat
<1> QED BY <1>3, <1>4, <1>5, <1>6, <1>7, <1>9, <1>10, <1>11 DEF Next

LEMMA EvidenceOfSteps ==
    ASSUME IInv, Evidence, Next, NEW p \in Procs PROVE EvidenceAt(p)'
<1>1. CASE job'[p].pc \notin Watched
  BY <1>1 DEF EvidenceAt, Watched
<1>2. CASE job'[p] = job[p] /\ job[p].pc \in Watched
  <2>1. PICK l \in Watched, b \in Bookings : l = job[p].pc /\ b = job[p].b
    BY <1>2, AtWork DEF Watched, Creating, Settling, At
  <2>2. l \in {"link", "provider", "store"} /\ sale'[b] = "FAILED" => lapsed'[b]
    <3> SUFFICES ASSUME l \in {"link", "provider", "store"}, sale'[b] = "FAILED"
                 PROVE  lapsed[b]
      BY LapsedStays
    <3>1. ~ref[b] /\ l \in Creating
      BY <2>1, AtWork DEF At, Creating, Fits
    <3>2. CASE sale[b] = "FAILED"
      BY <2>1, <3>2 DEF Evidence, EvidenceAt
    <3>3. ASSUME NEW q \in Procs, Unsell(q), job[q].b = b PROVE FALSE
      <4>1. job[q].pc = "unsell" /\ job'[q] # job[q]
        BY <3>3 DEF Unsell, At, Finish, IdleJob, IInv, TypeOK
      <4>2. q # p
        BY <1>2, <4>1
      <4> QED BY <2>1, <3>1, <3>3, <4>1, <4>2 DEF IInv, OneCreator, Creating
    <3>4. CASE sale[b] # "FAILED"
      BY <3>1, <3>3, <3>4, SaleFails DEF Grounds
    <3> QED BY <3>2, <3>4
  <2>3. /\ l = "fail" => Grounds(b)'
        /\ l = "ask" /\ p = Sweeper => lapsed'[b]
    BY <2>1, GroundsStay, LapsedStays DEF Evidence, EvidenceAt
  <2> QED BY <1>2, <2>1, <2>2, <2>3 DEF EvidenceAt
<1>3. CASE job'[p] # job[p] /\ job'[p].pc \in Watched
  <2>1. CASE AskProvider(p)
    <3>1. PICK b \in Bookings : b = job[p].b /\ Fits("ask", b)
      BY <2>1, AtWork DEF AskProvider, Settling
    <3>2. CASE Finish(p)
      BY <1>3, <3>2, FinishJob DEF IInv, Watched
    <3>3. CASE ~Finish(p)
      <4>1. \E l \in {"claim", "fail"} : /\ Goto(p, l)
                                         /\ l = "fail" => \/ checkout[b] \in {"rejected", "mismatch"}
                                                          \/ p = Sweeper
        BY <2>1, <3>1, <3>3 DEF AskProvider
      <4>2. PICK l \in {"claim", "fail"} : /\ Goto(p, l)
                                           /\ l = "fail" => \/ checkout[b] \in {"rejected", "mismatch"}
                                                            \/ p = Sweeper
        BY <4>1
      <4>3. job'[p].pc = l /\ job'[p].b = b
        BY <3>1, <4>2, GotoJob DEF IInv, PCs
      <4>4. l = "fail"
        BY <1>3, <4>3 DEF Watched
      <4>5. p = Sweeper => lapsed[b]
        BY <2>1, <3>1 DEF AskProvider, At, Evidence, EvidenceAt
      <4>6. Grounds(b)'
        BY <3>1, <4>2, <4>4, <4>5, GroundsStay DEF Grounds, Fits
      <4> QED BY <4>3, <4>4, <4>6 DEF EvidenceAt
    <3> QED BY <3>2, <3>3
  <2>2. CASE NextItem(p)
    <3>1. PICK x \in todo[p] :
            /\ job'[p].pc = "fail" => ~x[2] /\ job'[p].b = x[1]
            /\ job'[p].pc = "ask" => job'[p].b = x[1]
            /\ job'[p].pc \in {"fail", "ask", "idle", "next"}
      BY <2>2 DEF NextItem, IInv, TypeOK, IdleJob
    <3>2. x[1] \in Bookings /\ (IF p = Sweeper THEN lapsed[x[1]] ELSE x[2])
      BY DEF IInv, TypeOK, Evidence, EvidenceListed
    <3>3. /\ job'[p].pc = "fail" => lapsed'[x[1]]
          /\ job'[p].pc = "ask" /\ p = Sweeper => lapsed'[x[1]]
      BY <3>1, <3>2, LapsedStays
    <3> QED BY <3>1, <3>3 DEF EvidenceAt, Grounds
  <2>3. CASE CreateSale(p)
    <3>1. PICK b \in Bookings : b = job[p].b
      BY <2>3, AtWork DEF CreateSale, Creating
    <3>2. Goto(p, "link") \/ Goto(p, "undo_early")
      BY <2>3 DEF CreateSale
    <3>3. /\ job'[p].pc = "link" /\ job'[p].b = b
          /\ Goto(p, "link")
      BY <1>3, <3>1, <3>2, GotoJob DEF IInv, PCs, Watched
    <3>4. ~Goto(p, "undo_early")
      BY <3>3, GotoJob DEF IInv, PCs
    <3>5. sale'[b] = "PENDING"
      BY <2>3, <3>1, <3>4 DEF CreateSale, SetSale, IInv, TypeOK
    <3> QED BY <3>3, <3>5 DEF EvidenceAt
  <2>4. CASE LinkSale(p) \/ CallProvider(p)
    <3>1. PICK l \in {"link", "provider"}, b \in Bookings : At(p, l) /\ b = job[p].b
      BY <2>4, AtWork DEF LinkSale, CallProvider, Creating
    <3>2. PICK m \in {"provider", "store", "undo_early", "undo_late"} : Goto(p, m)
      BY <2>4 DEF LinkSale, CallProvider, OrUndo
    <3>3. job'[p].pc = m /\ job'[p].b = b
      BY <3>1, <3>2, GotoJob DEF IInv, PCs
    <3>4. sale' = sale
      BY <2>4 DEF LinkSale, CallProvider, saleVars
    <3>5. sale[b] = "FAILED" => lapsed[b]
      BY <3>1 DEF At, Evidence, EvidenceAt
    <3>6. sale'[b] = "FAILED" => lapsed'[b]
      BY <3>4, <3>5, LapsedStays
    <3> QED BY <3>2, <3>3, <3>6 DEF EvidenceAt
  <2>5. ASSUME NEW b \in Bookings, StartFinalize(p, b), p \in Handlers PROVE EvidenceAt(p)'
    <3>1. job'[p].pc = "ask"
      BY <2>5 DEF StartFinalize, IInv, TypeOK, IdleJob
    <3>2. p # Sweeper
      BY <2>5, TripAssumption DEF Jobs
    <3> QED BY <3>1, <3>2 DEF EvidenceAt
  <2> QED BY <1>3, <2>1, <2>2, <2>3, <2>4, <2>5, ComesTo
<1> QED BY <1>1, <1>2, <1>3

LEMMA InitEvidence == Init => Evidence
BY DEF Init, IdleJob, Evidence, FailsOnEvidence, SentHaveRef, EvidenceAt, EvidenceListed

LEMMA NextEvidence == IInv /\ Evidence /\ [Next]_vars => Evidence'
<1> SUFFICES ASSUME IInv, Evidence, [Next]_vars PROVE Evidence'
  OBVIOUS
<1>1. CASE Next
  BY <1>1, EvidenceOfFailure, EvidenceOfReferences, EvidenceOfSteps, EvidenceOfLists DEF Evidence
<1>2. CASE UNCHANGED vars
  BY <1>2 DEF vars, tripVars, saleVars, Evidence, FailsOnEvidence, SentHaveRef, EvidenceAt,
              EvidenceListed, Grounds
<1> QED BY <1>1, <1>2

(* A passenger is confirmed only for the exact payment, and a booking whose *)
(* passenger was sent to pay fails, before its hold has lapsed, only on the *)
(* word of the provider, whichever process settles it.                      *)
THEOREM SettledOnEvidence == Spec => []EndsOnEvidence
<1>1. Spec => []Evidence
  BY InitEvidence, NextEvidence, Invariance, PTL DEF Spec
<1>2. Evidence /\ ConfirmedHasPaid => EndsOnEvidence
  BY DEF Evidence, EndsOnEvidence
<1> QED BY <1>1, <1>2, ConfirmedPaid, PTL

-----------------------------------------------------------------------------
(* The implementation of SeatMap.                                          *)

\* What a booking is to its passenger.
ViewOf(b) ==
    IF scheme = "COUNT" \/ place[b] = NoPlace THEN "new"
    ELSE IF b \in Sold THEN "sold"
    ELSE IF seat[place[b]] = b THEN "held" ELSE "gone"

Aside == {n \in Seats : seat[n] = "reserved"}

LEMMA ViewAt ==
    /\ seatView = [b \in Bookings |-> ViewOf(b)]
    /\ seatView' = [b \in Bookings |-> ViewOf(b)']
BY DEF seatView, ViewOf

LEMMA ViewKept ==
    ASSUME UNCHANGED <<scheme, seat, place, booking>>
    PROVE  UNCHANGED Map!svars
BY DEF Map!svars, seatView, placeView, Sold

\* A trip that counts its passengers has no seat to promise.
LEMMA CountView ==
    ASSUME scheme = "COUNT", UNCHANGED <<scheme, seat>>
    PROVE  UNCHANGED Map!svars
BY DEF Map!svars, seatView, placeView

\* A step about booking b moves only b.
LEMMA ViewMoves ==
    ASSUME IInv, NEW b \in Bookings, scheme = "SEATS",
           \A n \in Seats : seat'[n] = seat[n] \/ {seat[n], seat'[n]} = {b, "free"},
           UNCHANGED scheme,
           \A c \in Bookings \ {b} : place'[c] = place[c] /\ booking'[c] = booking[c]
    PROVE  /\ seatView' = [seatView EXCEPT ![b] = ViewOf(b)']
           /\ Aside' = Aside
           /\ place'[b] = place[b] => placeView' = placeView
<1>1. "free" \notin Bookings /\ b # "reserved" /\ NoPlace \notin Seats
  BY TripAssumption
<1>2. ASSUME NEW c \in Bookings \ {b} PROVE ViewOf(c)' = ViewOf(c)
  <2>1. place'[c] = place[c] /\ booking'[c] = booking[c]
    OBVIOUS
  <2>2. (c \in Sold)' <=> c \in Sold
    BY <2>1 DEF Sold
  <2>3. \A n \in Seats : seat'[n] = c <=> seat[n] = c
    BY <1>1
  <2>4. place[c] # NoPlace => place[c] \in Seats
    BY DEF IInv, BookingsOK, BookingOK
  <2> QED BY <2>1, <2>2, <2>3, <2>4 DEF ViewOf
<1>3. seatView' = [seatView EXCEPT ![b] = ViewOf(b)']
  BY <1>2, ViewAt
<1>4. Aside' = Aside
  <2>1. \A n \in Seats : seat'[n] = "reserved" <=> seat[n] = "reserved"
    BY <1>1
  <2> QED BY <2>1 DEF Aside
<1>5. place'[b] = place[b] => placeView' = placeView
  BY DEF placeView
<1> QED BY <1>3, <1>4, <1>5

\* A booking written without a change of hands.
LEMMA BookingWritten ==
    ASSUME IInv, NEW b \in Bookings, UNCHANGED <<scheme, seat, place>>,
           \A c \in Bookings \ {b} : booking'[c] = booking[c],
           (b \in Sold)' <=> b \in Sold
    PROVE  UNCHANGED Map!svars
<1>1. \A c \in Bookings : (c \in Sold)' <=> c \in Sold
  BY DEF Sold
<1>2. seatView' = seatView /\ placeView' = placeView
  BY <1>1 DEF seatView, placeView
<1> QED BY <1>2 DEF Map!svars

\* A booking confirmed.
LEMMA BookingSold ==
    ASSUME IInv, NEW b \in Bookings, UNCHANGED <<scheme, seat, place>>,
           booking' = [booking EXCEPT ![b] = "CONFIRMED"],
           place[b] # NoPlace, Has(b)
    PROVE  Map!Next \/ UNCHANGED Map!svars
<1>1. booking'[b] = "CONFIRMED" /\ \A c \in Bookings \ {b} : booking'[c] = booking[c]
  BY DEF IInv, TypeOK
<1>2. (b \in Sold)'
  BY <1>1 DEF Sold
<1>3. CASE b \in Sold
  BY <1>1, <1>2, <1>3, BookingWritten
<1>4. CASE scheme = "COUNT"
  BY <1>4, CountView
<1>5. CASE scheme = "SEATS" /\ b \notin Sold
  <2>1. ViewOf(b) = "held"
    BY <1>5 DEF ViewOf, Has
  <2>2. ViewOf(b)' = "sold"
    BY <1>2, <1>5 DEF ViewOf
  <2>3. seatView[b] = "held"
    BY <2>1, ViewAt
  <2>4. seatView' = [seatView EXCEPT ![b] = "sold"] /\ Aside' = Aside /\ placeView' = placeView
    BY <1>1, <1>5, <2>2, ViewMoves
  <2>5. Map!Sell(b)
    BY <2>3, <2>4 DEF Map!Sell, Aside
  <2> QED BY <2>5 DEF Map!Next
<1> QED BY <1>3, <1>4, <1>5, TripAssumption DEF IInv, TypeOK

\* A claim given back.
LEMMA SeatReleased ==
    ASSUME IInv, NEW b \in Bookings, ReleaseClaim(b), UNCHANGED <<scheme, place, booking>>,
           b \notin Sold, place[b] # NoPlace
    PROVE  Map!Next \/ UNCHANGED Map!svars
<1>1. CASE scheme # "SEATS"
  <2>1. scheme = "COUNT"
    BY <1>1, TripAssumption DEF IInv, TypeOK
  <2> QED BY <1>1, <2>1, CountView DEF ReleaseClaim
<1>2. CASE scheme = "SEATS"
  <2>1. seat' = [n \in Seats |-> IF n = place[b] /\ seat[n] = b THEN "free" ELSE seat[n]]
    BY <1>2 DEF ReleaseClaim
  <2>2. place[b] \in Seats /\ b # "free"
    BY <1>2, TripAssumption DEF IInv, BookingsOK, BookingOK
  <2>3. CASE seat[place[b]] # b
    <3>1. seat' = seat
      BY <2>1, <2>3 DEF IInv, TypeOK
    <3> QED BY <3>1, ViewKept
  <2>4. CASE seat[place[b]] = b
    <3>1. ViewOf(b) = "held"
      BY <1>2, <2>4 DEF ViewOf
    <3>2. (b \notin Sold)'
      BY DEF Sold
    <3>3. ViewOf(b)' = "gone"
      BY <1>2, <2>1, <2>2, <2>4, <3>2 DEF ViewOf
    <3>4. \A n \in Seats : seat'[n] = seat[n] \/ {seat[n], seat'[n]} = {b, "free"}
      BY <2>1
    <3>5. /\ seatView' = [seatView EXCEPT ![b] = "gone"]
          /\ Aside' = Aside /\ placeView' = placeView
      BY <1>2, <3>3, <3>4, ViewMoves
    <3>6. Map!GiveBack(b)
      BY <3>1, <3>5, ViewAt DEF Map!GiveBack, Aside
    <3> QED BY <3>6 DEF Map!Next
  <2> QED BY <2>3, <2>4
<1> QED BY <1>1, <1>2

\* A seat that is free, or set aside, is nobody's.
LEMMA NotTaken ==
    ASSUME IInv, scheme = "SEATS", NEW n \in Seats, seat[n] \in {"free", "reserved"}
    PROVE  ~Map!Taken(n)
<1> SUFFICES ASSUME NEW b \in Bookings, placeView[b] = n, seatView[b] \in {"held", "sold"}
             PROVE  FALSE
  BY DEF Map!Taken
<1>1. place[b] = n /\ ViewOf(b) \in {"held", "sold"}
  BY ViewAt DEF placeView
<1>2. BookingOK(b) /\ b # "free" /\ b # "reserved"
  BY TripAssumption DEF IInv, BookingsOK
<1>3. CASE b \in Sold
  BY <1>1, <1>2, <1>3 DEF BookingOK, Has
<1>4. CASE b \notin Sold
  BY <1>1, <1>2, <1>4 DEF ViewOf
<1> QED BY <1>3, <1>4

LEMMA ClaimTakes ==
    ASSUME IInv, NEW p \in Handlers, NEW b \in Bookings, ClaimCapacity(p, b)
    PROVE  Map!Next \/ UNCHANGED Map!svars
<1>1. place[b] = NoPlace /\ scheme' = scheme /\ booking' = booking
  BY DEF ClaimCapacity
<1>2. CASE scheme = "COUNT"
  <2>1. seat' = seat
    BY <1>2 DEF ClaimCapacity
  <2> QED BY <1>1, <1>2, <2>1, CountView
<1>3. CASE scheme = "SEATS"
  <2>1. PICK n \in Seats : /\ seat[n] = "free"
                           /\ seat' = [seat EXCEPT ![n] = b]
                           /\ place' = [place EXCEPT ![b] = n]
    BY <1>3 DEF ClaimCapacity
  <2>2. place'[b] = n /\ \A c \in Bookings \ {b} : place'[c] = place[c]
    BY <2>1 DEF IInv, TypeOK
  <2>3. n # NoPlace /\ seat'[n] = b /\ ~(b \in Sold)
    BY <1>1, <2>1, TripAssumption DEF IInv, TypeOK, BookingsOK, BookingOK, Sold
  <2>4. ViewOf(b) = "new" /\ ViewOf(b)' = "held"
    <3>1. ~(b \in Sold)'
      BY <1>1, <2>3 DEF Sold
    <3> QED BY <1>1, <1>3, <2>2, <2>3, <3>1 DEF ViewOf
  <2>5. \A m \in Seats : seat'[m] = seat[m] \/ {seat[m], seat'[m]} = {b, "free"}
    BY <2>1 DEF IInv, TypeOK
  <2>6. seatView' = [seatView EXCEPT ![b] = "held"] /\ Aside' = Aside
    BY <1>1, <1>3, <2>2, <2>4, <2>5, ViewMoves
  <2>7. placeView' = [placeView EXCEPT ![b] = n]
    BY <1>1, <1>3, <2>1, <2>2 DEF placeView
  <2>8. ~Map!Taken(n) /\ n \notin Aside /\ seatView[b] = "new"
    BY <1>3, <2>1, <2>4, NotTaken, ViewAt DEF Aside
  <2>9. Map!Take(b, n)
    BY <2>6, <2>7, <2>8 DEF Map!Take, Aside
  <2> QED BY <2>9 DEF Map!Next
<1> QED BY <1>2, <1>3 DEF ClaimCapacity

LEMMA OperatorMoves ==
    ASSUME IInv, NEW n \in Seats, ReserveSeat(n) \/ ReleaseSeat(n)
    PROVE  Map!Next
<1>1. scheme = "SEATS" /\ UNCHANGED <<scheme, place, booking>>
  BY DEF ReserveSeat, ReleaseSeat, saleVars
<1>2. \A c \in Bookings : \A m \in Seats : seat'[m] = c <=> seat[m] = c
  BY TripAssumption DEF ReserveSeat, ReleaseSeat, IInv, TypeOK
<1>3. seatView' = seatView /\ placeView' = placeView
  <2>1. ASSUME NEW c \in Bookings PROVE ViewOf(c)' = ViewOf(c)
    <3>1. (c \in Sold)' <=> c \in Sold
      BY <1>1 DEF Sold
    <3>2. place[c] # NoPlace => place[c] \in Seats
      BY <1>1 DEF IInv, BookingsOK, BookingOK
    <3> QED BY <1>1, <1>2, <3>1, <3>2 DEF ViewOf
  <2> QED BY <1>1, <2>1, ViewAt DEF placeView
<1>4. CASE ReserveSeat(n)
  <2>1. seat[n] = "free" /\ seat' = [seat EXCEPT ![n] = "reserved"]
    BY <1>4 DEF ReserveSeat
  <2>2. n \notin Aside /\ Aside' = Aside \cup {n}
    BY <2>1 DEF Aside, IInv, TypeOK
  <2>3. Map!SetAside(n)
    BY <1>1, <1>3, <2>1, <2>2, NotTaken DEF Map!SetAside, Aside
  <2> QED BY <2>3 DEF Map!Next
<1>5. CASE ReleaseSeat(n)
  <2>1. seat[n] = "reserved" /\ seat' = [seat EXCEPT ![n] = "free"]
    BY <1>5 DEF ReleaseSeat
  <2>2. n \in Aside /\ Aside' = Aside \ {n}
    BY <2>1 DEF Aside, IInv, TypeOK
  <2>3. Map!PutBack(n)
    BY <1>3, <2>2 DEF Map!PutBack, Aside
  <2> QED BY <2>3 DEF Map!Next
<1> QED BY <1>4, <1>5

\* Every step of a process is a step of SeatMap or leaves it where it is.
LEMMA StepImplements ==
    ASSUME IInv, NEW p \in Procs, Step(p)
    PROVE  Map!Next \/ UNCHANGED Map!svars
<1>1. CASE \/ CreateSale(p) \/ LinkSale(p) \/ CallProvider(p) \/ StoreRef(p) \/ Unsell(p)
           \/ Charge(p) \/ CreateCompleted(p) \/ AskProvider(p) \/ ClaimSale(p)
           \/ FailSale(p) \/ NextItem(p) \/ SaveReserved(p)
  <2>1. UNCHANGED <<scheme, seat, place, booking>>
    BY <1>1 DEF CreateSale, LinkSale, CallProvider, StoreRef, Unsell, Charge,
                CreateCompleted, AskProvider, ClaimSale, FailSale, NextItem, SaveReserved,
                tripVars, saleVars
  <2> QED BY <2>1, ViewKept
<1>2. CASE SaveBooking(p) \/ Unbook(p) \/ CancelBooking(p)
  <2>1. PICK l \in {"save", "unbook", "unbook_late", "cancel"} : At(p, l)
    BY <1>2 DEF SaveBooking, Unbook, CancelBooking
  <2>2. l \in Creating \cup Settling
    BY <2>1 DEF Creating, Settling
  <2>3. PICK b \in Bookings : b = job[p].b /\ Fits(l, b)
    BY <2>1, <2>2, AtWork
  <2>4. UNCHANGED <<scheme, seat, place>>
    BY <1>2 DEF SaveBooking, Unbook, CancelBooking, tripVars
  <2>5. booking' = booking \/
        \E v \in {"PENDING", "CANCELLED", "none"} : booking' = [booking EXCEPT ![b] = v]
    BY <1>2, <2>3 DEF SaveBooking, Unbook, CancelBooking, SetBooking
  <2>6. booking' = booking \/ b \notin Sold
    <3>1. CASE l # "cancel"
      BY <2>2, <2>3, <3>1 DEF Fits, Creating
    <3>2. CASE l = "cancel"
      BY <1>2, <2>1, <2>3, <3>2 DEF SaveBooking, Unbook, CancelBooking, At, Sold
    <3> QED BY <3>1, <3>2
  <2>7. CASE booking' = booking
    BY <2>4, <2>7, ViewKept
  <2>8. CASE booking' # booking
    <3>1. ~(b \in Sold)' /\ \A c \in Bookings \ {b} : booking'[c] = booking[c]
      BY <2>5, <2>8 DEF Sold, IInv, TypeOK
    <3> QED BY <2>4, <2>6, <2>8, <3>1, BookingWritten
  <2> QED BY <2>7, <2>8
<1>3. CASE SaveConfirmed(p) \/ Confirm(p)
  <2>1. PICK l \in {"confirmed", "confirm"} : At(p, l)
    BY <1>3 DEF SaveConfirmed, Confirm
  <2>2. l \in Creating \cup Settling
    BY <2>1 DEF Creating, Settling
  <2>3. PICK b \in Bookings : b = job[p].b /\ Fits(l, b) /\ BookingOK(b)
    BY <2>1, <2>2, AtWork
  <2>4. UNCHANGED <<scheme, seat, place>> /\ booking' = [booking EXCEPT ![b] = "CONFIRMED"]
    BY <1>3, <2>3 DEF SaveConfirmed, Confirm, SetBooking, tripVars
  <2>5. place[b] # NoPlace /\ Has(b)
    BY <2>3 DEF Fits, Creating, BookingOK
  <2> QED BY <2>4, <2>5, BookingSold
<1>4. CASE UndoClaim(p) \/ ReleaseFailed(p)
  <2>1. PICK l \in {"undo_early", "undo_late", "undo_charge", "release"} : At(p, l)
    BY <1>4 DEF UndoClaim, ReleaseFailed
  <2>2. l \in Creating \cup Settling
    BY <2>1 DEF Creating, Settling
  <2>3. PICK b \in Bookings : b = job[p].b /\ Fits(l, b) /\ BookingOK(b)
    BY <2>1, <2>2, AtWork
  <2>4. ReleaseClaim(b) /\ UNCHANGED <<scheme, place, booking>>
    BY <1>4, <2>3 DEF UndoClaim, ReleaseFailed, saleVars
  <2>5. place[b] # NoPlace /\ b \notin Sold
    BY <2>3 DEF Fits, Creating, BookingOK, Sold
  <2> QED BY <2>4, <2>5, SeatReleased
<1> QED BY <1>1, <1>2, <1>3, <1>4 DEF Step

LEMMA InitImplements == Init => Map!Init
BY DEF Init, Map!Init, seatView, placeView

LEMMA NextImplements == IInv /\ [Next]_vars => [Map!Next]_(Map!svars)
<1> SUFFICES ASSUME IInv, [Next]_vars PROVE Map!Next \/ UNCHANGED Map!svars
  OBVIOUS
<1>1. CASE UNCHANGED vars
  BY <1>1, ViewKept DEF vars, tripVars, saleVars
<1>2. ASSUME NEW p \in Handlers, NEW b \in Bookings, ClaimCapacity(p, b)
      PROVE  Map!Next \/ UNCHANGED Map!svars
  BY <1>2, ClaimTakes
<1>3. ASSUME NEW p \in Handlers, NEW b \in Bookings, StartFinalize(p, b)
      PROVE  UNCHANGED Map!svars
  BY <1>3, ViewKept DEF StartFinalize, tripVars, saleVars
<1>4. ASSUME NEW p \in Handlers, NEW n \in 0..Total, CheckReserved(p, n)
      PROVE  UNCHANGED Map!svars
  BY <1>4, ViewKept DEF CheckReserved, tripVars, saleVars
<1>5. ASSUME NEW p \in Procs, Step(p)
      PROVE  Map!Next \/ UNCHANGED Map!svars
  BY <1>5, StepImplements
<1>6. ASSUME NEW p \in Procs, Abort(p) PROVE UNCHANGED Map!svars
  BY <1>6, ViewKept DEF Abort, tripVars, saleVars
<1>7. StartSweep \/ StartReconcile => UNCHANGED Map!svars
  BY ViewKept DEF StartSweep, StartReconcile, tripVars, saleVars
<1>8. ASSUME NEW b \in Bookings, Board(b) PROVE UNCHANGED Map!svars
  <2>1. /\ UNCHANGED <<scheme, seat, place>>
        /\ booking[b] = "CONFIRMED" /\ booking' = [booking EXCEPT ![b] = "BOARDED"]
    BY <1>8 DEF Board, tripVars
  <2>2. /\ \A c \in Bookings \ {b} : booking'[c] = booking[c]
        /\ b \in Sold /\ (b \in Sold)'
    BY <2>1 DEF Sold, IInv, TypeOK
  <2> QED BY <2>1, <2>2, BookingWritten
<1>9. ASSUME NEW b \in Bookings, Resolve(b) \/ HoldLapses(b) PROVE UNCHANGED Map!svars
  BY <1>9, ViewKept DEF Resolve, HoldLapses, tripVars, saleVars
<1>10. ASSUME NEW n \in Seats, ReserveSeat(n) \/ ReleaseSeat(n) PROVE Map!Next
  BY <1>10, OperatorMoves
<1> QED BY <1>1, <1>2, <1>3, <1>4, <1>5, <1>6, <1>7, <1>8, <1>9, <1>10 DEF Next

(* A seat-mapped trip keeps the promise of SeatMap: no seat is held twice, *)
(* none that is sold is taken, given back or set aside, whatever requests, *)
(* jobs and cut-short processes do, and however often a claim is released. *)
THEOREM Implementation == Spec => SeatsHonoured
<1>1. Init => Map!Init
  BY InitImplements
<1>2. IInv /\ [Next]_vars => [Map!Next]_(Map!svars)
  BY NextImplements
<1> QED BY <1>1, <1>2, Invariance, PTL DEF Spec, SeatsHonoured, Map!Spec

-----------------------------------------------------------------------------
(* What the trip counts while no handler is cut short: a second invariant, *)
(* relative to IInv.  Then a booking has at most one process at a time     *)
(* that writes it, and where that process is tells the status of booking   *)
(* and sale and whether the booking is counted.                            *)

Owning     == Creating \cup {"confirm", "cancel", "release"}
Unclaiming == {"unbook", "unbook_late"}
Claiming   == Creating \ (Unclaiming \cup {"unsell"})

Own(p, b) == job[p].b = b /\ job[p].pc \in Owning

\* Booking and sale while the owner is at label l, or with no owner.
Shape(l, b) ==
    LET is(bk, sl) == booking[b] = bk /\ sale[b] = sl
    IN  /\ l \in {"save", "charge", "undo_charge", "confirmed"} => is("none", "none")
        /\ l = "sale" => is("PENDING", "none")
        /\ l \in {"link", "provider", "store", "undo_late", "unbook_late"}
             => is("PENDING", "PENDING")
        /\ l \in {"undo_early", "unbook"}
             => is("none", "none") \/ is("PENDING", "none") \/ is("PENDING", "PENDING")
        /\ l = "unsell" => is("CANCELLED", "PENDING")
        /\ l = "completed" => b \in Sold /\ sale[b] = "none"
        /\ l = "confirm" => is("PENDING", "COMPLETED")
        /\ l = "cancel" => is("PENDING", "FAILED") \/ is("CANCELLED", "FAILED")
        /\ l = "release" => is("CANCELLED", "FAILED")
        /\ l \notin Owning =>
             \/ is("none", "none") \/ is("PENDING", "PENDING")
             \/ is("CANCELLED", "none") \/ is("CANCELLED", "PENDING")
             \/ is("CANCELLED", "FAILED")
             \/ b \in Sold /\ sale[b] = "COMPLETED"

\* The booking is counted while its owner is at label l, or with no owner.
Counts(l, b) ==
    \/ l \in Claiming \cup {"release"}
    \/ b \in Live /\ l \notin Unclaiming

Counted == {b \in Bookings :
    \/ \E p \in Procs : job[p].b = b /\ job[p].pc \in Claiming \cup {"release"}
    \/ b \in Live /\ ~\E p \in Procs : job[p].b = b /\ job[p].pc \in Unclaiming}

OneOwner == \A p, q \in Procs : \A b \in Bookings : Own(p, b) /\ Own(q, b) => p = q

\* A creator's sale has neither lapsed nor a reference, so that nothing else
\* works on the booking; a finalizer's has one or the other.
Apart ==
    /\ \A p \in Procs : job[p].pc \in Creating => p \in Handlers /\ ~lapsed[job[p].b]
    /\ \A p \in Procs : job[p].pc \in Settling => lapsed[job[p].b] \/ ref[job[p].b]
    /\ \A p \in Procs : \A x \in todo[p] : lapsed[x[1]] \/ x[2]
    /\ \A b \in Bookings : lapsed[b] => sale[b] # "none"

Shaped ==
    /\ \A p \in Procs : job[p].pc \in Owning => Shape(job[p].pc, job[p].b)
    /\ \A b \in Bookings : (\A p \in Procs : ~Own(p, b)) => Shape("idle", b)

CountOK ==
    /\ scheme = "COUNT" => soldCount = Cardinality(Counted) /\ soldCount <= Total
    /\ scheme = "SEATS" => \A b \in Bookings : b \in Counted <=> \E n \in Seats : seat[n] = b

TripOK == OneOwner /\ Apart /\ Shaped /\ CountOK

-----------------------------------------------------------------------------
(* Labels, and what a booking without an owner is.                         *)

LEMMA OwningLabels ==
    /\ {"idle", "next", "reserve", "ask", "claim", "fail"} \cap Owning = {}
    /\ Creating \subseteq Owning /\ Claiming \subseteq Owning /\ Unclaiming \subseteq Owning
    /\ Owning \subseteq Creating \cup Settling
    /\ \A l : l \in Creating \/ l \in Settling \/ l \notin Owning
BY DEF Owning, Creating, Settling, Claiming, Unclaiming

LEMMA NoOwnerShape ==
    ASSUME NEW b, NEW l, l \notin Owning
    PROVE  /\ Shape(l, b) <=> Shape("idle", b)
           /\ (Shape(l, b) <=> Shape("idle", b))'
           /\ Counts(l, b) <=> b \in Live
           /\ (Counts(l, b) <=> b \in Live)'
BY DEF Shape, Counts, Owning, Creating, Claiming, Unclaiming

LEMMA OwnerIsBooking ==
    ASSUME IInv, NEW p \in Procs, job[p].pc \in Owning
    PROVE  job[p].b \in Bookings /\ Fits(job[p].pc, job[p].b) /\ Own(p, job[p].b)
BY OwningLabels DEF IInv, JobsOK, JobOK, Own

LEMMA NobodyYet ==
    ASSUME IInv, NEW b \in Bookings, place[b] = NoPlace
    PROVE  /\ \A p \in Procs : ~Own(p, b)
           /\ booking[b] = "none" /\ sale[b] = "none"
<1>1. booking[b] = "none" /\ sale[b] = "none"
  BY DEF IInv, BookingsOK, BookingOK
<1>2. ASSUME NEW p \in Procs, Own(p, b) PROVE FALSE
  <2>1. Fits(job[p].pc, b) /\ job[p].pc \in Owning
    BY <1>2, OwnerIsBooking DEF Own
  <2>2. PICK l : l = job[p].pc
    OBVIOUS
  <2> QED BY <1>1, <2>1, <2>2 DEF Fits, Owning
<1> QED BY <1>1, <1>2

\* A finalizer that finds the sale PENDING finds nobody else at the booking.
LEMMA NobodyElse ==
    ASSUME IInv, TripOK, NEW b \in Bookings, sale[b] = "PENDING",
           NEW q \in Procs, job[q].b = b, job[q].pc \in {"claim", "fail"}
    PROVE  \A p \in Procs : ~Own(p, b)
<1> SUFFICES ASSUME NEW p \in Procs, Own(p, b) PROVE FALSE
  OBVIOUS
<1>1. PICK l \in Owning : l = job[p].pc
  BY DEF Own
<1>2. Fits(l, b) /\ job[p].b = b
  BY <1>1, OwnerIsBooking DEF Own
<1>3. l \in Creating
  BY <1>1, <1>2 DEF Fits, Owning
<1>4. ~lapsed[b] /\ ~ref[b]
  BY <1>1, <1>2, <1>3 DEF TripOK, Apart, Fits
<1>5. lapsed[b] \/ ref[b]
  BY DEF TripOK, Apart, Settling
<1> QED BY <1>4, <1>5

-----------------------------------------------------------------------------
(* A step of p about b, from label l to label m.                           *)

\* The claim, of a trip that has room for it.
Taken(b) ==
    IF scheme = "SEATS"
    THEN \E n \in Seats : seat[n] = "free" /\ seat' = [seat EXCEPT ![n] = b]
    ELSE soldCount < Total /\ soldCount' = soldCount + 1

CountMove(b, l, m) ==
    \/ (Counts(m, b)' <=> Counts(l, b)) /\ UNCHANGED <<seat, soldCount>>
    \/ Counts(l, b) /\ ~Counts(m, b)' /\ ReleaseClaim(b)
    \/ ~Counts(l, b) /\ Counts(m, b)' /\ Taken(b)

TripMove(p, b, l, m) ==
    /\ job[p].pc = l /\ job'[p].pc = m
    /\ \A q \in Procs \ {p} : job'[q] = job[q]
    /\ l \in Owning => job[p].b = b
    /\ l \notin Owning => \A q \in Procs : ~Own(q, b)
    /\ m \in Creating \cup Settling => job'[p].b = b
    /\ Shape(m, b)'
    /\ m \in Creating => p \in Handlers /\ ~lapsed[b]
    /\ m \in Settling => lapsed[b] \/ ref[b]
    /\ UNCHANGED <<scheme, lapsed, todo>>
    /\ \A c \in Bookings : (ref[c] => ref'[c]) /\ (sale'[c] = "none" => sale[c] = "none")
    /\ \A c \in Bookings \ {b} : booking'[c] = booking[c] /\ sale'[c] = sale[c]
    /\ CountMove(b, l, m)

LEMMA MoveCounts ==
    ASSUME IInv, CountOK, NEW b \in Bookings, NEW l, NEW m, scheme' = scheme,
           CountMove(b, l, m),
           \A c \in Bookings \ {b} : c \in Counted' <=> c \in Counted,
           b \in Counted <=> Counts(l, b),
           b \in Counted' <=> Counts(m, b)'
    PROVE  CountOK'
<1> DEFINE C == Counted  D == Counted'
<1>1. C \subseteq Bookings /\ D \subseteq Bookings
  BY DEF Counted
<1>2. IsFiniteSet(C) /\ IsFiniteSet(D)
  BY <1>1, TripAssumption, FS_Subset
<1>3. scheme \in {"SEATS", "COUNT"} /\ soldCount \in Int /\ Total \in Int
      /\ seat \in [Seats -> Bookings \cup {"free", "reserved"}]
  BY TripAssumption, FS_CardinalityType DEF IInv, TypeOK, Total
<1>4. Cardinality(C) \in Nat /\ Cardinality(D) \in Nat
  BY <1>2, FS_CardinalityType
<1>5. \A c \in Bookings : c # "free" /\ c # "reserved"
  BY TripAssumption
<1>6. \A n \in Seats : seat[n] = b => place[b] = n
  BY DEF IInv, BookingsOK, BookingOK
<1> HIDE DEF C, D
<1>7. CASE (b \in D <=> b \in C) /\ UNCHANGED <<seat, soldCount>>
  <2>1. C = D
    BY <1>1, <1>7 DEF C, D
  <2>2. Counted' = Counted
    BY <2>1 DEF C, D
  <2> QED BY <1>7, <2>2 DEF CountOK
<1>8. CASE b \in C /\ b \notin D /\ ReleaseClaim(b)
  <2>1. D = C \ {b}
    BY <1>1, <1>8 DEF C, D
  <2>2. Cardinality(D) = Cardinality(C) - 1
    BY <1>2, <1>8, <2>1, FS_RemoveElement
  <2>3. CASE scheme = "COUNT"
    <3>1. soldCount' = soldCount - 1 /\ soldCount = Cardinality(C) /\ soldCount <= Total
      BY <1>8, <2>3 DEF ReleaseClaim, CountOK, C
    <3> QED BY <1>3, <1>4, <2>2, <2>3, <3>1 DEF CountOK, D, Total
  <2>4. CASE scheme = "SEATS"
    <3>1. \A n \in Seats : seat'[n] = IF seat[n] = b THEN "free" ELSE seat[n]
      BY <1>6, <1>8, <2>4 DEF ReleaseClaim
    <3>2. ASSUME NEW c \in Bookings PROVE c \in D <=> \E n \in Seats : seat'[n] = c
      BY <1>5, <2>1, <2>4, <3>1 DEF CountOK, C
    <3> QED BY <2>4, <3>2 DEF CountOK, D
  <2> QED BY <1>3, <2>3, <2>4
<1>9. CASE b \notin C /\ b \in D /\ Taken(b)
  <2>1. D = C \cup {b}
    BY <1>1, <1>9 DEF C, D
  <2>2. Cardinality(D) = Cardinality(C) + 1
    BY <1>2, <1>9, <2>1, FS_AddElement
  <2>3. CASE scheme = "COUNT"
    <3>1. soldCount' = soldCount + 1 /\ soldCount = Cardinality(C) /\ soldCount < Total
      BY <1>9, <2>3 DEF Taken, CountOK, C
    <3> QED BY <1>3, <1>4, <2>2, <2>3, <3>1 DEF CountOK, D, Total
  <2>4. CASE scheme = "SEATS"
    <3>1. PICK n \in Seats : seat[n] = "free" /\ seat' = [seat EXCEPT ![n] = b]
      BY <1>9, <2>4 DEF Taken
    <3>2. \A k \in Seats : seat'[k] = IF k = n THEN b ELSE seat[k]
      BY <1>3, <3>1
    <3>3. ASSUME NEW c \in Bookings PROVE c \in D <=> \E k \in Seats : seat'[k] = c
      BY <1>5, <2>1, <2>4, <3>1, <3>2 DEF CountOK, C
    <3> QED BY <2>4, <3>3 DEF CountOK, D
  <2> QED BY <1>3, <2>3, <2>4
<1> QED BY <1>7, <1>8, <1>9 DEF CountMove, C, D

LEMMA MoveTrip ==
    ASSUME IInv, IInv', TripOK, NEW p \in Procs, NEW b \in Bookings, NEW l, NEW m,
           TripMove(p, b, l, m)
    PROVE  TripOK'
<1> USE DEF TripMove
<1>1. ASSUME NEW q \in Procs \ {p}
      PROVE  ~Own(q, b) /\ job'[q] = job[q] /\ \A c : Own(q, c)' <=> Own(q, c)
  BY DEF TripOK, OneOwner, Own
<1>2. ASSUME NEW c \in Bookings \ {b} PROVE ~Own(p, c) /\ ~Own(p, c)'
  BY OwningLabels DEF Own
<1>3. OneOwner'
  BY <1>1, <1>2 DEF TripOK, OneOwner
<1>4. Apart'
  <2>1. ASSUME NEW q \in Procs, job'[q].pc \in Creating
        PROVE  q \in Handlers /\ ~lapsed'[job'[q].b]
    BY <2>1, <1>1 DEF TripOK, Apart
  <2>2. ASSUME NEW q \in Procs, job'[q].pc \in Settling
        PROVE  lapsed'[job'[q].b] \/ ref'[job'[q].b]
    <3>1. job'[q].b \in Bookings
      BY <2>2 DEF IInv, JobsOK, JobOK
    <3> QED BY <2>2, <3>1, <1>1 DEF TripOK, Apart
  <2>3. \A q \in Procs : \A x \in todo'[q] : lapsed'[x[1]] \/ x[2]
    BY DEF TripOK, Apart
  <2>4. \A c \in Bookings : lapsed'[c] => sale'[c] # "none"
    BY DEF TripOK, Apart
  <2> QED BY <2>1, <2>2, <2>3, <2>4 DEF Apart
<1>5. Shaped'
  <2>1. ASSUME NEW k, NEW c \in Bookings \ {b} PROVE Shape(k, c)' <=> Shape(k, c)
    BY DEF Shape, Sold
  <2>2. ASSUME NEW q \in Procs, job'[q].pc \in Owning PROVE Shape(job[q].pc, job[q].b)'
    <3>1. CASE q = p
      BY <2>2, <3>1, OwningLabels DEF Shape, Sold
    <3>2. CASE q # p
      <4>1. PICK k, c : k = job[q].pc /\ c = job[q].b
        OBVIOUS
      <4>2. Own(q, c) /\ job'[q] = job[q]
        BY <1>1, <2>2, <3>2, <4>1 DEF Own
      <4>3. c \in Bookings \ {b} /\ Shape(k, c)
        BY <1>1, <3>2, <4>1, <4>2, OwnerIsBooking DEF Own, TripOK, Shaped
      <4>4. Shape(k, c)'
        BY <2>1, <4>3
      <4> QED BY <4>1, <4>2, <4>4 DEF Shape, Sold
    <3> QED BY <3>1, <3>2
  <2>3. ASSUME NEW c \in Bookings, \A q \in Procs : ~Own(q, c)'
        PROVE  Shape("idle", c)'
    <3>1. CASE c = b
      <4>1. m \notin Owning
        BY <2>3, <3>1, OwningLabels DEF Own
      <4> QED BY <3>1, <4>1, NoOwnerShape
    <3>2. CASE c # b
      <4>1. \A q \in Procs : ~Own(q, c)
        BY <1>1, <1>2, <2>3, <3>2
      <4> QED BY <2>1, <3>2, <4>1 DEF TripOK, Shaped
    <3> QED BY <3>1, <3>2
  <2> QED BY <2>2, <2>3 DEF Shaped
<1>6. ASSUME NEW c \in Bookings \ {b} PROVE c \in Counted' <=> c \in Counted
  <2>1. (c \in Live)' <=> c \in Live
    BY DEF Live
  <2>2. ASSUME NEW q \in Procs, NEW S \in SUBSET Owning
        PROVE  (job'[q].b = c /\ job'[q].pc \in S) <=> (job[q].b = c /\ job[q].pc \in S)
    BY <1>1, <1>2 DEF Own
  <2>3. Claiming \cup {"release"} \subseteq Owning /\ Unclaiming \subseteq Owning
    BY OwningLabels DEF Owning
  <2> QED BY <2>1, <2>2, <2>3 DEF Counted
<1>7. b \in Counted <=> Counts(l, b)
  <2>1. ASSUME NEW S \in SUBSET Owning
        PROVE  (\E q \in Procs : job[q].b = b /\ job[q].pc \in S) <=> l \in S
    BY <1>1 DEF Own
  <2>2. Claiming \cup {"release"} \subseteq Owning /\ Unclaiming \subseteq Owning
    BY OwningLabels DEF Owning
  <2> QED BY <2>1, <2>2 DEF Counted, Counts
<1>8. b \in Counted' <=> Counts(m, b)'
  <2>1. ASSUME NEW S \in SUBSET Owning
        PROVE  (\E q \in Procs : job'[q].b = b /\ job'[q].pc \in S) <=> m \in S
    BY <1>1, OwningLabels DEF Own
  <2>2. Claiming \cup {"release"} \subseteq Owning /\ Unclaiming \subseteq Owning
    BY OwningLabels DEF Owning
  <2> QED BY <2>1, <2>2 DEF Counted, Counts
<1>9. CountOK'
  BY <1>6, <1>7, <1>8, MoveCounts DEF TripOK
<1> QED BY <1>3, <1>4, <1>5, <1>9 DEF TripOK

-----------------------------------------------------------------------------
(* The steps of the processes.                                             *)

\* The process at work on b, as both invariants see it.
LEMMA OwnerAt ==
    ASSUME IInv, TripOK, NEW p \in Procs, NEW l \in Owning, At(p, l)
    PROVE  \E b \in Bookings : /\ b = job[p].b /\ Own(p, b) /\ Shape(l, b)
                               /\ Fits(l, b) /\ BookingOK(b)
                               /\ l \in Creating => p \in Handlers /\ ~lapsed[b]
                               /\ l \in Settling => lapsed[b] \/ ref[b]
<1>1. job[p].pc = l /\ job[p].b \in Bookings /\ Fits(l, job[p].b) /\ Own(p, job[p].b)
  BY OwnerIsBooking DEF At
<1>2. Shape(l, job[p].b)
  BY <1>1 DEF TripOK, Shaped
<1> QED BY <1>1, <1>2 DEF TripOK, Apart, IInv, BookingsOK

\* A process goes on to label m with the same booking.
Turns(p, m) ==
    /\ job'[p].pc = m /\ job'[p].b = job[p].b
    /\ \A q \in Procs \ {p} : job'[q] = job[q]

LEMMA GotoTurns ==
    ASSUME IInv, NEW p \in Procs, NEW m \in PCs, Goto(p, m) PROVE Turns(p, m)
BY GotoJob DEF IInv, Turns

\* An owner goes on to label m, or has done.
LEMMA OwnerMoves ==
    ASSUME IInv, IInv', TripOK, NEW p \in Procs, NEW l \in Owning, At(p, l),
           NEW b \in Bookings, b = job[p].b, NEW m \in PCs,
           \/ Turns(p, m) /\ m \in Owning /\ (m \in Creating => l \in Creating)
                          /\ (m \in Settling => l \in Settling)
           \/ Finish(p) /\ m = job'[p].pc,
           Shape(m, b)', CountMove(b, l, m),
           UNCHANGED <<scheme, lapsed, todo>>,
           \A c \in Bookings : (ref[c] => ref'[c]) /\ (sale'[c] = "none" => sale[c] = "none"),
           \A c \in Bookings \ {b} : booking'[c] = booking[c] /\ sale'[c] = sale[c]
    PROVE  TripOK'
<1>1. job[p].pc = l /\ TypeOK
  BY DEF At, IInv
<1>2. /\ job'[p].pc = m /\ \A q \in Procs \ {p} : job'[q] = job[q]
      /\ m \in Creating \cup Settling => job'[p].b = b
      /\ m \in Creating => l \in Creating
      /\ m \in Settling => l \in Settling
  <2>1. CASE Turns(p, m) /\ m \in Owning /\ (m \in Creating => l \in Creating)
                         /\ (m \in Settling => l \in Settling)
    BY <1>1, <2>1 DEF Turns
  <2>2. CASE Finish(p) /\ m = job'[p].pc
    BY <1>1, <2>2, FinishJob, Labels
  <2> QED BY <2>1, <2>2
<1>3. TripMove(p, b, l, m)
  BY <1>1, <1>2 DEF TripMove, TripOK, Apart
<1> QED BY <1>3, MoveTrip

\* A step that leaves every booking, sale and place to its owner.
LEMMA QuietTrip ==
    ASSUME IInv, IInv', TripOK, NEW p \in Procs,
           job[p].pc \notin Owning, job'[p].pc \notin Owning,
           \A q \in Procs \ {p} : job'[q] = job[q],
           job'[p].pc \in Settling => lapsed[job'[p].b] \/ ref[job'[p].b],
           UNCHANGED <<scheme, seat, soldCount, booking, sale, ref, lapsed>>,
           \A q \in Procs : \A x \in todo'[q] : lapsed[x[1]] \/ x[2]
    PROVE  TripOK'
<1>1. \A q \in Procs : (job'[q].pc \in Owning \/ job[q].pc \in Owning) => job'[q] = job[q]
  OBVIOUS
<1>2. \A q \in Procs : \A c : Own(q, c)' <=> Own(q, c)
  BY <1>1 DEF Own
<1>3. OneOwner'
  BY <1>2 DEF TripOK, OneOwner
<1>4. Apart'
  BY OwningLabels DEF TripOK, Apart
<1>5. Shaped'
  <2>1. \A k, c : Shape(k, c)' <=> Shape(k, c)
    BY DEF Shape, Sold
  <2>2. ASSUME NEW q \in Procs, job'[q].pc \in Owning PROVE Shape(job[q].pc, job[q].b)'
    <3>1. job'[q] = job[q] /\ Shape(job[q].pc, job[q].b)
      BY <1>1, <2>2 DEF TripOK, Shaped
    <3> QED BY <3>1 DEF Shape, Sold
  <2>3. ASSUME NEW c \in Bookings, \A q \in Procs : ~Own(q, c)' PROVE Shape("idle", c)'
    BY <1>2, <2>1, <2>3 DEF TripOK, Shaped
  <2> QED BY <2>2, <2>3 DEF Shaped
<1>6. Counted' = Counted
  <2>1. ASSUME NEW c, NEW q \in Procs, NEW S \in SUBSET Owning
        PROVE  (job'[q].b = c /\ job'[q].pc \in S) <=> (job[q].b = c /\ job[q].pc \in S)
    BY <1>1
  <2>2. Claiming \cup {"release"} \subseteq Owning /\ Unclaiming \subseteq Owning
    BY OwningLabels DEF Owning
  <2> QED BY <2>1, <2>2 DEF Counted, Live
<1>7. CountOK'
  BY <1>6 DEF TripOK, CountOK, Total
<1> QED BY <1>3, <1>4, <1>5, <1>7 DEF TripOK

\* The creator's steps that write no claim.
LEMMA CreatorTrip ==
    ASSUME IInv, IInv', TripOK, NEW p \in Procs,
           \/ SaveBooking(p) \/ CreateSale(p) \/ LinkSale(p) \/ CallProvider(p)
           \/ StoreRef(p) \/ Unbook(p) \/ Unsell(p) \/ Charge(p)
           \/ SaveConfirmed(p) \/ CreateCompleted(p)
    PROVE  TripOK'
<1> USE DEF saleVars, tripVars
<1>1. PICK l \in Creating : At(p, l)
  BY DEF SaveBooking, CreateSale, LinkSale, CallProvider, StoreRef, Unbook, Unsell, Charge,
         SaveConfirmed, CreateCompleted, Creating
<1>2. l \in Owning
  BY <1>1, OwningLabels
<1>3. PICK b \in Bookings : /\ b = job[p].b /\ Own(p, b) /\ Shape(l, b)
                            /\ Fits(l, b) /\ BookingOK(b)
  BY <1>1, <1>2, OwnerAt
<1>4. /\ UNCHANGED <<scheme, lapsed, todo, seat, soldCount>>
      /\ \A c \in Bookings : (ref[c] => ref'[c]) /\ (sale'[c] = "none" => sale[c] = "none")
      /\ \A c \in Bookings \ {b} : booking'[c] = booking[c] /\ sale'[c] = sale[c]
  BY <1>3 DEF SaveBooking, CreateSale, LinkSale, CallProvider, StoreRef, Unbook, Unsell,
              Charge, SaveConfirmed, CreateCompleted, SetSale, SetBooking, IInv, TypeOK
<1> DEFINE bk == booking'[b]  sl == sale'[b]
<1>5. Creating \subseteq PCs /\ Creating \cap Settling = {}
  BY Labels
<1>6a. ASSUME NEW m \in Creating, Turns(p, m), Shape(m, b)', CountMove(b, l, m) PROVE TripOK'
  BY <1>1, <1>2, <1>3, <1>4, <1>5, <1>6a, OwnerMoves, OwningLabels
<1>6. ASSUME NEW m \in Creating, Goto(p, m), Shape(m, b)', CountMove(b, l, m) PROVE TripOK'
  BY <1>5, <1>6, <1>6a, GotoTurns
<1>7. ASSUME Finish(p), Shape("idle", b)', (b \in Live)' <=> Counts(l, b) PROVE TripOK'
  <2>1. PICK m \in {"idle", "next"} : m = job'[p].pc
    BY <1>7, FinishJob DEF IInv
  <2>2. m \notin Owning /\ m \in PCs
    BY OwningLabels DEF PCs
  <2>3. Shape(m, b)' /\ CountMove(b, l, m)
    BY <1>4, <1>7, <2>2, NoOwnerShape DEF CountMove
  <2> QED BY <1>1, <1>2, <1>3, <1>4, <1>7, <2>1, <2>2, <2>3, OwnerMoves
<1>8. CASE SaveBooking(p)
  <2>1. l = "save" /\ booking[b] = "none" /\ sale[b] = "none"
    BY <1>1, <1>3, <1>8 DEF SaveBooking, At, Shape
  <2>2. \/ Goto(p, "sale") /\ bk = "PENDING" /\ sl = "none"
        \/ Goto(p, "undo_early") /\ bk = "none" /\ sl = "none"
    BY <1>3, <1>8, <2>1 DEF SaveBooking, SetBooking, IInv, TypeOK
  <2> QED BY <1>4, <1>6, <2>1, <2>2 DEF Shape, CountMove, Counts, Claiming, Creating, Owning,
                                        Unclaiming
<1>9. CASE CreateSale(p)
  <2>1. l = "sale" /\ booking[b] = "PENDING" /\ sale[b] = "none"
    BY <1>1, <1>3, <1>9 DEF CreateSale, At, Shape
  <2>2. \/ Goto(p, "link") /\ bk = "PENDING" /\ sl = "PENDING"
        \/ Goto(p, "undo_early") /\ bk = "PENDING" /\ sl = "none"
    BY <1>3, <1>9, <2>1 DEF CreateSale, SetSale, IInv, TypeOK
  <2> QED BY <1>4, <1>6, <2>1, <2>2 DEF Shape, CountMove, Counts, Claiming, Creating, Owning,
                                        Unclaiming
<1>10. CASE LinkSale(p)
  <2>1. l = "link" /\ booking[b] = "PENDING" /\ sale[b] = "PENDING"
    BY <1>1, <1>3, <1>10 DEF LinkSale, At, Shape
  <2>2. /\ Goto(p, "provider") \/ Goto(p, "undo_early")
        /\ bk = "PENDING" /\ sl = "PENDING"
    BY <1>10, <2>1 DEF LinkSale, OrUndo
  <2> QED BY <1>4, <1>6, <2>1, <2>2 DEF Shape, CountMove, Counts, Claiming, Creating, Owning,
                                        Unclaiming
<1>11. CASE CallProvider(p)
  <2>1. l = "provider" /\ booking[b] = "PENDING" /\ sale[b] = "PENDING"
    BY <1>1, <1>3, <1>11 DEF CallProvider, At, Shape
  <2>2. /\ Goto(p, "store") \/ Goto(p, "undo_late")
        /\ bk = "PENDING" /\ sl = "PENDING"
    BY <1>11, <2>1 DEF CallProvider
  <2> QED BY <1>4, <1>6, <2>1, <2>2 DEF Shape, CountMove, Counts, Claiming, Creating, Owning,
                                        Unclaiming
<1>12. CASE StoreRef(p)
  <2>1. l = "store" /\ booking[b] = "PENDING" /\ sale[b] = "PENDING"
    BY <1>1, <1>3, <1>12 DEF StoreRef, At, Shape
  <2> PICK r : r = [job[p] EXCEPT !.pc = "undo_late", !.dirty = TRUE]
    OBVIOUS
  <2>2. /\ Finish(p) \/ job' = [job EXCEPT ![p] = r]
        /\ bk = "PENDING" /\ sl = "PENDING"
    BY <1>12, <2>1 DEF StoreRef
  <2>3. job' = [job EXCEPT ![p] = r] => Turns(p, "undo_late")
    BY DEF Turns, IInv, TypeOK, Job
  <2> QED BY <1>4, <1>6a, <1>7, <2>1, <2>2, <2>3 DEF Shape, CountMove, Counts, Claiming, Creating,
                                              Owning, Unclaiming, Live
<1>13. CASE Unbook(p)
  <2>0. booking' = [booking EXCEPT ![b] = IF @ = "none" THEN @ ELSE "CANCELLED"] /\ sl = sale[b]
    BY <1>3, <1>13 DEF Unbook
  <2>1. CASE l = "unbook"
    <3>1. Finish(p)
      BY <1>1, <1>13, <2>1 DEF Unbook, At
    <3>2. /\ (bk = "none" /\ sl = "none") \/ (bk = "CANCELLED" /\ sl \in {"none", "PENDING"})
      BY <1>3, <2>0, <2>1 DEF Shape, IInv, TypeOK
    <3> QED BY <1>7, <2>1, <3>1, <3>2 DEF Shape, Counts, Claiming, Creating, Owning, Unclaiming, Live
  <2>2. CASE l = "unbook_late"
    <3>1. Goto(p, "unsell")
      BY <1>1, <1>13, <2>2 DEF Unbook, At
    <3>2. bk = "CANCELLED" /\ sl = "PENDING"
      BY <1>3, <2>0, <2>2 DEF Shape, IInv, TypeOK
    <3> QED BY <1>4, <1>6, <2>2, <3>1, <3>2 DEF Shape, CountMove, Counts, Claiming, Creating,
                                                Owning, Unclaiming, Live
  <2> QED BY <1>1, <1>13, <2>1, <2>2 DEF Unbook, At
<1>14. CASE Unsell(p)
  <2>1. l = "unsell" /\ booking[b] = "CANCELLED" /\ sale[b] = "PENDING"
    BY <1>1, <1>3, <1>14 DEF Unsell, At, Shape
  <2>2. Finish(p) /\ bk = "CANCELLED" /\ sl = "FAILED"
    BY <1>3, <1>14, <2>1 DEF Unsell, SetSale, IInv, TypeOK
  <2> QED BY <1>7, <2>1, <2>2 DEF Shape, Counts, Claiming, Creating, Owning, Unclaiming, Live
<1>15. CASE Charge(p)
  <2>1. l = "charge" /\ booking[b] = "none" /\ sale[b] = "none"
    BY <1>1, <1>3, <1>15 DEF Charge, At, Shape
  <2>2. /\ Goto(p, "confirmed") \/ Goto(p, "undo_charge")
        /\ bk = "none" /\ sl = "none"
    BY <1>15, <2>1 DEF Charge
  <2> QED BY <1>4, <1>6, <2>1, <2>2 DEF Shape, CountMove, Counts, Claiming, Creating, Owning,
                                        Unclaiming
<1>16. CASE SaveConfirmed(p)
  <2>1. l = "confirmed" /\ sale[b] = "none"
    BY <1>1, <1>3, <1>16 DEF SaveConfirmed, At, Shape
  <2>2. Goto(p, "completed") /\ bk = "CONFIRMED" /\ sl = "none"
    BY <1>3, <1>16, <2>1 DEF SaveConfirmed, SetBooking, IInv, TypeOK
  <2> QED BY <1>4, <1>6, <2>1, <2>2 DEF Shape, CountMove, Counts, Claiming, Creating, Owning,
                                        Unclaiming, Sold
<1>17. CASE CreateCompleted(p)
  <2>1. l = "completed" /\ b \in Sold
    BY <1>1, <1>3, <1>17 DEF CreateCompleted, At, Shape
  <2>2. Finish(p) /\ bk = booking[b] /\ sl = "COMPLETED"
    BY <1>3, <1>17, <2>1 DEF CreateCompleted, SetSale, IInv, TypeOK
  <2> QED BY <1>3, <1>7, <2>1, <2>2 DEF Shape, Counts, Claiming, Creating, Owning, Unclaiming,
                                  Live, Sold
<1> QED BY <1>8, <1>9, <1>10, <1>11, <1>12, <1>13, <1>14, <1>15, <1>16, <1>17

\* The catch blocks and the arbiter give the claim back once.
LEMMA ReleaseTrip ==
    ASSUME IInv, IInv', TripOK, NEW p \in Procs, UndoClaim(p) \/ ReleaseFailed(p)
    PROVE  TripOK'
<1> USE DEF saleVars
<1>1. PICK l \in {"undo_early", "undo_late", "undo_charge", "release"} : At(p, l)
  BY DEF UndoClaim, ReleaseFailed
<1>2. l \in Owning /\ (l # "release" => l \in Creating)
  BY DEF Owning, Creating
<1>3. PICK b \in Bookings : b = job[p].b /\ Own(p, b) /\ Shape(l, b)
  BY <1>1, <1>2, OwnerAt
<1>4. /\ UNCHANGED <<scheme, lapsed, todo, booking, sale, ref>>
      /\ ReleaseClaim(b)
  BY <1>3 DEF UndoClaim, ReleaseFailed
<1>5. Counts(l, b)
  BY <1>2 DEF Counts, Claiming, Creating, Unclaiming
<1>6. ASSUME NEW m \in Unclaiming, Goto(p, m), Shape(m, b)', l \in Creating PROVE TripOK'
  <2>1. ~Counts(m, b)'
    BY DEF Counts, Claiming, Creating, Unclaiming
  <2>2. CountMove(b, l, m)
    BY <1>4, <1>5, <2>1 DEF CountMove
  <2>3. m \in Owning /\ m \in Creating /\ m \in PCs /\ m \notin Settling
    BY Labels DEF Unclaiming, Owning, Creating
  <2> QED BY <1>1, <1>2, <1>3, <1>4, <1>6, <2>2, <2>3, OwnerMoves, GotoTurns
<1>7. ASSUME Finish(p), Shape("idle", b)', b \notin Live PROVE TripOK'
  <2>1. PICK m \in {"idle", "next"} : m = job'[p].pc
    BY <1>7, FinishJob DEF IInv
  <2>2. m \notin Owning /\ m \in PCs
    BY OwningLabels DEF PCs
  <2>3. (b \notin Live)'
    BY <1>4, <1>7 DEF Live
  <2>4. Shape(m, b)' /\ CountMove(b, l, m)
    BY <1>4, <1>5, <1>7, <2>2, <2>3, NoOwnerShape DEF CountMove
  <2> QED BY <1>1, <1>2, <1>3, <1>4, <1>7, <2>1, <2>2, <2>4, OwnerMoves
<1>8. CASE l = "undo_charge"
  <2>1. Finish(p)
    BY <1>1, <1>8 DEF UndoClaim, ReleaseFailed, At
  <2>2. booking[b] = "none" /\ sale[b] = "none"
    BY <1>3, <1>8 DEF Shape
  <2> QED BY <1>4, <1>7, <2>1, <2>2 DEF Shape, Live, Owning, Creating
<1>9. CASE l = "release"
  <2>1. Finish(p)
    BY <1>1, <1>9 DEF UndoClaim, ReleaseFailed, At
  <2>2. booking[b] = "CANCELLED" /\ sale[b] = "FAILED"
    BY <1>3, <1>9 DEF Shape
  <2> QED BY <1>4, <1>7, <2>1, <2>2 DEF Shape, Live, Owning, Creating
<1>10. CASE l \in {"undo_early", "undo_late"}
  <2>1. Goto(p, IF l = "undo_early" THEN "unbook" ELSE "unbook_late")
    BY <1>1, <1>10 DEF UndoClaim, ReleaseFailed, At
  <2>2. Shape(IF l = "undo_early" THEN "unbook" ELSE "unbook_late", b)'
    BY <1>3, <1>4, <1>10 DEF Shape, Owning, Creating
  <2> QED BY <1>2, <1>6, <1>10, <2>1, <2>2 DEF Unclaiming
<1> QED BY <1>8, <1>9, <1>10

\* The claim.
LEMMA ClaimTrip ==
    ASSUME IInv, IInv', TripOK, NEW p \in Handlers, NEW b \in Bookings, ClaimCapacity(p, b)
    PROVE  TripOK'
<1>1. PICK m \in {"charge", "save"} : m = IF rail[b] = "CASH" THEN "charge" ELSE "save"
  OBVIOUS
<1> DEFINE j == [IdleJob EXCEPT !.pc = m, !.b = b]
<1>2. p \in Procs /\ j.pc = m /\ j.b = b
  BY DEF Procs, IdleJob
<1>3. /\ place[b] = NoPlace /\ job' = [job EXCEPT ![p] = j] /\ job[p].pc = "idle"
      /\ UNCHANGED <<scheme, reservedCount, booking, sale, ref, lapsed, todo, faults>>
  BY <1>1 DEF ClaimCapacity, At
<1> HIDE DEF j
<1>4. job'[p] = j /\ \A q \in Procs \ {p} : job'[q] = job[q]
  BY <1>2, <1>3 DEF IInv, TypeOK
<1>5. booking[b] = "none" /\ sale[b] = "none" /\ \A q \in Procs : ~Own(q, b)
  BY <1>3, NobodyYet
<1>6. ~lapsed[b]
  BY <1>3, <1>5 DEF TripOK, Apart
<1>7. Taken(b)
  <2>1. scheme \in {"SEATS", "COUNT"} /\ soldCount \in Int /\ reservedCount \in Nat /\ Total \in Nat
    BY TripAssumption, FS_CardinalityType DEF IInv, TypeOK, Total
  <2> QED BY <2>1 DEF ClaimCapacity, Taken
<1>8. Shape(m, b)'
  BY <1>1, <1>3, <1>5 DEF Shape, Owning, Creating
<1>9. CountMove(b, "idle", m)
  <2>1. ~Counts("idle", b)
    BY <1>5 DEF Counts, Claiming, Creating, Live
  <2>2. Counts(m, b)'
    BY <1>1 DEF Counts, Claiming, Creating, Unclaiming
  <2> QED BY <1>7, <2>1, <2>2 DEF CountMove
<1>10. "idle" \notin Owning /\ m \in Creating /\ m \notin Settling
  BY <1>1 DEF Owning, Creating, Settling
<1>11. TripMove(p, b, "idle", m)
  BY <1>2, <1>3, <1>4, <1>5, <1>6, <1>8, <1>9, <1>10 DEF TripMove
<1> QED BY <1>2, <1>11, MoveTrip
\* The finalizers, the arbiter and the jobs.
LEMMA SettleTrip ==
    ASSUME IInv, IInv', TripOK, NEW p \in Procs,
           \/ AskProvider(p) \/ ClaimSale(p) \/ Confirm(p) \/ FailSale(p)
           \/ CancelBooking(p) \/ NextItem(p) \/ SaveReserved(p)
    PROVE  TripOK'
<1> USE DEF saleVars, tripVars
<1>1. \A q \in Procs : \A x \in todo[q] : lapsed[x[1]] \/ x[2]
  BY DEF TripOK, Apart
<1>2. ASSUME Finish(p), job[p].pc \notin Owning, UNCHANGED todo,
             UNCHANGED <<scheme, seat, soldCount, booking, sale, ref, lapsed>>
      PROVE  TripOK'
  <2>1. job'[p].pc \in {"idle", "next"} /\ \A q \in Procs \ {p} : job'[q] = job[q]
    BY <1>2, FinishJob DEF IInv
  <2>2. job'[p].pc \notin Owning /\ job'[p].pc \notin Settling
    BY <2>1, OwningLabels, Labels
  <2> QED BY <1>1, <1>2, <2>1, <2>2, QuietTrip
<1>3. CASE AskProvider(p)
  <2>1. /\ UNCHANGED todo /\ UNCHANGED <<scheme, seat, soldCount, booking, sale, ref, lapsed>>
        /\ job[p].pc = "ask" /\ (Finish(p) \/ Goto(p, "claim") \/ Goto(p, "fail"))
    BY <1>3 DEF AskProvider, At
  <2>2. "ask" \notin Owning /\ "ask" \in Settling
    BY DEF Owning, Creating, Settling
  <2>3. ASSUME NEW m \in {"claim", "fail"}, Goto(p, m) PROVE TripOK'
    <3>1. m \in PCs /\ m \notin Owning
      BY DEF PCs, Owning, Creating
    <3>2. job'[p].pc = m /\ job'[p].b = job[p].b /\ \A q \in Procs \ {p} : job'[q] = job[q]
      BY <2>3, <3>1, GotoJob DEF IInv
    <3>3. lapsed[job[p].b] \/ ref[job[p].b]
      BY <2>1, <2>2 DEF TripOK, Apart
    <3> QED BY <1>1, <2>1, <2>2, <3>1, <3>2, <3>3, QuietTrip
  <2> QED BY <1>2, <2>1, <2>2, <2>3
<1>4. CASE ClaimSale(p) \/ FailSale(p)
  <2>1. PICK l \in {"claim", "fail"} : /\ job[p].pc = l
                                       /\ l = "claim" => ClaimSale(p)
                                       /\ l = "fail" => FailSale(p)
    BY <1>4 DEF ClaimSale, FailSale, At
  <2>2. l \in Settling /\ l \notin Owning
    BY DEF Owning, Creating, Settling
  <2>3. PICK b \in Bookings : b = job[p].b
    BY <2>1, <2>2 DEF IInv, JobsOK, JobOK
  <2>4. Fits(l, b) /\ BookingOK(b) /\ (lapsed[b] \/ ref[b])
    BY <2>1, <2>2, <2>3 DEF IInv, JobsOK, JobOK, BookingsOK, TripOK, Apart
  <2>5. UNCHANGED <<scheme, seat, soldCount, booking, ref, lapsed, todo>>
    BY <1>4 DEF ClaimSale, FailSale
  <2>6. CASE sale[b] # "PENDING"
    BY <1>2, <1>4, <2>1, <2>2, <2>3, <2>5, <2>6 DEF ClaimSale, FailSale
  <2>7. CASE sale[b] = "PENDING"
    <3>1. PICK m \in {"confirm", "cancel"} : m = IF l = "claim" THEN "confirm" ELSE "cancel"
      OBVIOUS
    <3>2. \A q \in Procs : ~Own(q, b)
      BY <2>1, <2>3, <2>7, NobodyElse
    <3>3. /\ Goto(p, m)
          /\ sale' = [sale EXCEPT ![b] = IF l = "claim" THEN "COMPLETED" ELSE "FAILED"]
      BY <2>1, <2>3, <2>7, <3>1 DEF ClaimSale, FailSale, SetSale
    <3>4. m \in PCs /\ m \in Owning /\ m \in Settling /\ m \notin Creating
      BY DEF PCs, Owning, Creating, Settling
    <3>5. job'[p].pc = m /\ job'[p].b = b /\ \A q \in Procs \ {p} : job'[q] = job[q]
      BY <2>3, <3>3, <3>4, GotoJob DEF IInv
    <3>6. /\ sale'[b] = IF l = "claim" THEN "COMPLETED" ELSE "FAILED"
          /\ \A c \in Bookings \ {b} : sale'[c] = sale[c]
      BY <3>3 DEF IInv, TypeOK
    <3>7. Shape(m, b)'
      <4>1. l = "claim" => booking[b] = "PENDING"
        BY <2>4, <2>7 DEF Fits, BookingOK
      <4>2. booking[b] \in {"PENDING", "CANCELLED"}
        BY <2>4, <2>7 DEF BookingOK
      <4> QED BY <2>5, <3>1, <3>6, <4>1, <4>2 DEF Shape, Owning, Creating
    <3>8. CountMove(b, l, m)
      <4>1. Counts(m, b)' <=> Counts(l, b)
        BY <2>5 DEF Counts, Live, Claiming, Creating, Unclaiming
      <4> QED BY <2>5, <4>1 DEF CountMove
    <3>9. TripMove(p, b, l, m)
      BY <2>1, <2>2, <2>4, <2>5, <3>2, <3>4, <3>5, <3>6, <3>7, <3>8 DEF TripMove
    <3> QED BY <3>9, MoveTrip
  <2> QED BY <2>6, <2>7
<1>5. CASE Confirm(p) \/ CancelBooking(p)
  <2>1. PICK l \in {"confirm", "cancel"} : /\ At(p, l)
                                           /\ l = "confirm" => Confirm(p)
                                           /\ l = "cancel" => CancelBooking(p)
    BY <1>5 DEF Confirm, CancelBooking, At
  <2>2. l \in Owning /\ l \in Settling
    BY DEF Owning, Settling
  <2>3. PICK b \in Bookings : b = job[p].b /\ Shape(l, b)
    BY <2>1, <2>2, OwnerAt
  <2>4. /\ UNCHANGED <<scheme, seat, soldCount, sale, ref, lapsed, todo>>
        /\ \A c \in Bookings \ {b} : booking'[c] = booking[c]
    BY <1>5, <2>3 DEF Confirm, CancelBooking, SetBooking, IInv, TypeOK
  <2>5. ASSUME Finish(p), Shape("idle", b)', (b \in Live)' <=> b \in Live PROVE TripOK'
    <3>1. PICK m \in {"idle", "next"} : m = job'[p].pc
      BY <2>5, FinishJob DEF IInv
    <3>2. m \notin Owning /\ m \in PCs
      BY OwningLabels DEF PCs
    <3>3. Shape(m, b)' /\ CountMove(b, l, m)
      BY <2>4, <2>5, <3>2, NoOwnerShape DEF CountMove, Counts, Claiming, Creating, Unclaiming
    <3> QED BY <2>1, <2>2, <2>3, <2>4, <2>5, <3>1, <3>2, <3>3, OwnerMoves
  <2>6. CASE l = "confirm"
    <3>1. booking[b] = "PENDING" /\ sale[b] = "COMPLETED"
      BY <2>3, <2>6 DEF Shape
    <3>2. Finish(p) /\ booking'[b] = "CONFIRMED" /\ sale'[b] = "COMPLETED"
      BY <2>1, <2>3, <2>6, <3>1 DEF Confirm, SetBooking, IInv, TypeOK
    <3> QED BY <2>5, <3>1, <3>2 DEF Shape, Owning, Creating, Sold, Live
  <2>7. CASE l = "cancel" /\ booking[b] # "PENDING"
    <3>1. booking[b] = "CANCELLED" /\ sale[b] = "FAILED"
      BY <2>3, <2>7 DEF Shape
    <3>2. Finish(p) /\ booking'[b] = "CANCELLED" /\ sale'[b] = "FAILED"
      BY <2>1, <2>3, <2>7, <3>1 DEF CancelBooking
    <3> QED BY <2>5, <3>1, <3>2 DEF Shape, Owning, Creating, Live
  <2>8. CASE l = "cancel" /\ booking[b] = "PENDING"
    <3>1. sale[b] = "FAILED"
      BY <2>3, <2>8 DEF Shape
    <3>2. Goto(p, "release") /\ booking'[b] = "CANCELLED" /\ sale'[b] = "FAILED"
      BY <2>1, <2>3, <2>8, <3>1 DEF CancelBooking, SetBooking, IInv, TypeOK
    <3>3. Shape("release", b)'
      BY <3>2 DEF Shape, Owning, Creating
    <3>4. CountMove(b, l, "release")
      BY <2>4, <2>8 DEF CountMove, Counts, Live, Claiming, Creating, Unclaiming
    <3>5. "release" \in PCs /\ "release" \in Owning /\ "release" \notin Creating
      BY DEF PCs, Owning, Creating
    <3> QED BY <2>1, <2>2, <2>3, <2>4, <3>2, <3>3, <3>4, <3>5, OwnerMoves, GotoTurns
  <2> QED BY <2>6, <2>7, <2>8
<1>6. CASE NextItem(p)
  <2>1. PICK x \in todo[p] :
          LET rest  == todo[p] \ {x}
              label == IF ~x[2] THEN "fail"
                       ELSE IF sale[x[1]] = "PENDING" THEN "ask"
                       ELSE IF rest = {} THEN "idle" ELSE "next"
          IN  /\ todo' = [todo EXCEPT ![p] = rest]
              /\ job' = [job EXCEPT ![p] = [IdleJob EXCEPT !.pc = label,
                          !.b = IF label \in {"fail", "ask"} THEN x[1] ELSE NoBooking]]
    BY <1>6, Zenon DEF NextItem
  <2>2. PICK label \in {"fail", "ask", "idle", "next"} :
          job' = [job EXCEPT ![p] = [IdleJob EXCEPT !.pc = label,
                   !.b = IF label \in {"fail", "ask"} THEN x[1] ELSE NoBooking]]
    BY <2>1, Zenon
  <2>3. /\ job'[p].pc = label
        /\ label \in {"fail", "ask"} => job'[p].b = x[1]
        /\ \A q \in Procs \ {p} : job'[q] = job[q]
    BY <2>2 DEF IInv, TypeOK, IdleJob
  <2>4. /\ UNCHANGED <<scheme, seat, soldCount, booking, sale, ref, lapsed>>
        /\ job[p].pc = "next"
    BY <1>6 DEF NextItem, At
  <2>5. label \notin Owning /\ "next" \notin Owning
        /\ (label \in Settling => label \in {"fail", "ask"})
    BY DEF Owning, Creating, Settling
  <2>6. lapsed[x[1]] \/ ref[x[1]]
    BY <1>1 DEF IInv, ListOK
  <2>7. \A q \in Procs : todo'[q] \subseteq todo[q]
    BY <2>1 DEF IInv, TypeOK
  <2>8. \A q \in Procs : \A y \in todo'[q] : lapsed[y[1]] \/ y[2]
    BY <1>1, <2>7
  <2> QED BY <2>3, <2>4, <2>5, <2>6, <2>8, QuietTrip
<1>7. CASE SaveReserved(p)
  <2>1. /\ UNCHANGED todo /\ UNCHANGED <<scheme, seat, soldCount, booking, sale, ref, lapsed>>
        /\ job[p].pc = "reserve" /\ Finish(p)
    BY <1>7 DEF SaveReserved, At
  <2> QED BY <1>2, <2>1, OwningLabels
<1> QED BY <1>3, <1>4, <1>5, <1>6, <1>7

\* An idle process begins.
LEMMA BeginTrip ==
    ASSUME IInv, IInv', TripOK,
           \/ StartSweep \/ StartReconcile
           \/ \E p \in Handlers, b \in Bookings : StartFinalize(p, b)
           \/ \E p \in Handlers, n \in 0..Total : CheckReserved(p, n)
    PROVE  TripOK'
<1> USE DEF saleVars, tripVars
<1>1. \A q \in Procs : \A x \in todo[q] : lapsed[x[1]] \/ x[2]
  BY DEF TripOK, Apart
<1>2. ASSUME NEW p \in Handlers, NEW b \in Bookings, StartFinalize(p, b) PROVE TripOK'
  <2> DEFINE j == [IdleJob EXCEPT !.pc = "ask", !.b = b]
  <2>1. p \in Procs /\ j.pc = "ask" /\ j.b = b /\ "ask" \notin Owning /\ "idle" \notin Owning
    BY DEF Procs, IdleJob, Owning, Creating
  <2>2. /\ UNCHANGED todo /\ UNCHANGED <<scheme, seat, soldCount, booking, sale, ref, lapsed>>
        /\ job[p].pc = "idle" /\ ref[b] /\ job' = [job EXCEPT ![p] = j]
    BY <1>2 DEF StartFinalize, At
  <2> HIDE DEF j
  <2>3. job'[p] = j /\ \A q \in Procs \ {p} : job'[q] = job[q]
    BY <2>1, <2>2 DEF IInv, TypeOK
  <2> QED BY <1>1, <2>1, <2>2, <2>3, QuietTrip
<1>3. ASSUME NEW p \in Handlers, NEW n \in 0..Total, CheckReserved(p, n) PROVE TripOK'
  <2> DEFINE j == [IdleJob EXCEPT !.pc = "reserve", !.n = n]
  <2>1. p \in Procs /\ j.pc = "reserve" /\ "reserve" \notin Owning /\ "idle" \notin Owning
        /\ "reserve" \notin Settling
    BY DEF Procs, IdleJob, Owning, Creating, Settling
  <2>2. /\ UNCHANGED todo /\ UNCHANGED <<scheme, seat, soldCount, booking, sale, ref, lapsed>>
        /\ job[p].pc = "idle" /\ job' = [job EXCEPT ![p] = j]
    BY <1>3 DEF CheckReserved, At
  <2> HIDE DEF j
  <2>3. job'[p] = j /\ \A q \in Procs \ {p} : job'[q] = job[q]
    BY <2>1, <2>2 DEF IInv, TypeOK
  <2> QED BY <1>1, <2>1, <2>2, <2>3, QuietTrip
<1>4. ASSUME NEW p \in Jobs, NEW S \in SUBSET Bookings, At(p, "idle"), Goto(p, "next"),
             todo' = [todo EXCEPT ![p] = Sales(S)], \A b \in S : lapsed[b] \/ ref[b],
             UNCHANGED <<tripVars, saleVars>>
      PROVE  TripOK'
  <2>1. p \in Procs /\ "next" \in PCs /\ "next" \notin Settling
    BY DEF Procs, PCs, Settling
  <2>2. job'[p].pc = "next" /\ \A q \in Procs \ {p} : job'[q] = job[q]
    BY <1>4, <2>1, GotoJob DEF IInv
  <2>3. \A x \in Sales(S) : lapsed[x[1]] \/ x[2]
    BY <1>4 DEF Sales
  <2>4. \A q \in Procs : \A x \in todo'[q] : lapsed[x[1]] \/ x[2]
    BY <1>1, <1>4, <2>1, <2>3 DEF IInv, TypeOK
  <2>5. job[p].pc = "idle" /\ "idle" \notin Owning /\ "next" \notin Owning
    BY <1>4, OwningLabels DEF At
  <2> QED BY <1>4, <2>1, <2>2, <2>4, <2>5, QuietTrip
<1>5. StartSweep => TripOK'
  <2> SUFFICES ASSUME StartSweep PROVE TripOK'
    OBVIOUS
  <2>1. PICK S \in SUBSET Bookings : S = {b \in Bookings : sale[b] = "PENDING" /\ lapsed[b]}
    OBVIOUS
  <2>2. /\ Sweeper \in Jobs /\ At(Sweeper, "idle") /\ Goto(Sweeper, "next")
        /\ todo' = [todo EXCEPT ![Sweeper] = Sales(S)] /\ UNCHANGED <<tripVars, saleVars>>
    BY <2>1 DEF StartSweep, Jobs
  <2> QED BY <1>4, <2>1, <2>2
<1>6. StartReconcile => TripOK'
  <2> SUFFICES ASSUME StartReconcile PROVE TripOK'
    OBVIOUS
  <2>1. PICK S \in SUBSET Bookings : S = {b \in Bookings : /\ rail[b] = "PEACH_CARD" /\ ref[b]
                                                         /\ sale[b] = "PENDING"}
    OBVIOUS
  <2>2. /\ Reconciler \in Jobs /\ At(Reconciler, "idle") /\ Goto(Reconciler, "next")
        /\ todo' = [todo EXCEPT ![Reconciler] = Sales(S)] /\ UNCHANGED <<tripVars, saleVars>>
    BY <2>1 DEF StartReconcile, Jobs
  <2> QED BY <1>4, <2>1, <2>2
<1> QED BY <1>2, <1>3, <1>5, <1>6

\* Nobody's step: boarding, the provider, the clock, the operator's seats.
LEMMA StillTrip ==
    ASSUME IInv, TripOK, UNCHANGED <<scheme, soldCount, sale, ref, job, todo>>,
           \A l : \A c \in Bookings : Shape(l, c) => Shape(l, c)',
           Live' = Live,
           \A c \in Bookings : (\E n \in Seats : seat'[n] = c) <=> \E n \in Seats : seat[n] = c,
           \A c \in Bookings : lapsed[c] => lapsed'[c],
           \A c \in Bookings : lapsed'[c] /\ ~lapsed[c] =>
             sale[c] # "none" /\ \A p \in Procs : job[p].pc \in Creating => job[p].b # c
    PROVE  TripOK'
<1>1. \A p \in Procs : \A c : Own(p, c)' <=> Own(p, c)
  BY DEF Own
<1>2. OneOwner'
  BY <1>1 DEF TripOK, OneOwner
<1>3. Apart'
  <2>1. \A p \in Procs : job[p].pc \in Creating \cup Settling => job[p].b \in Bookings
    BY DEF IInv, JobsOK, JobOK
  <2>2. \A p \in Procs : \A x \in todo[p] : x[1] \in Bookings
    BY DEF IInv, TypeOK
  <2> QED BY <2>1, <2>2 DEF TripOK, Apart
<1>4. Shaped'
  <2>1. ASSUME NEW p \in Procs, job[p].pc \in Owning PROVE Shape(job[p].pc, job[p].b)'
    <3>1. PICK l, c : l = job[p].pc /\ c = job[p].b
      OBVIOUS
    <3>2. c \in Bookings /\ Shape(l, c)
      BY <2>1, <3>1, OwnerIsBooking DEF TripOK, Shaped
    <3>3. Shape(l, c)'
      BY <3>2
    <3> QED BY <3>1, <3>3 DEF Shape, Sold
  <2>2. ASSUME NEW c \in Bookings, \A p \in Procs : ~Own(p, c)' PROVE Shape("idle", c)'
    BY <1>1, <2>2 DEF TripOK, Shaped
  <2> QED BY <2>1, <2>2 DEF Shaped
<1>5. Counted' = Counted
  BY DEF Counted
<1>6. CountOK'
  BY <1>5 DEF TripOK, CountOK, Total
<1> QED BY <1>2, <1>3, <1>4, <1>6 DEF TripOK

LEMMA OutsideTrip ==
    ASSUME IInv, TripOK, faults' = 0,
           \/ \E b \in Bookings : Board(b) \/ Resolve(b) \/ HoldLapses(b)
           \/ \E n \in Seats : ReserveSeat(n) \/ ReleaseSeat(n)
           \/ UNCHANGED vars
    PROVE  TripOK'
<1> USE DEF saleVars, tripVars
<1>1. ASSUME NEW b \in Bookings, Board(b) PROVE TripOK'
  <2>1. /\ UNCHANGED <<scheme, seat, soldCount, sale, ref, lapsed, job, todo>>
        /\ booking[b] = "CONFIRMED" /\ booking'[b] = "BOARDED"
        /\ \A c \in Bookings \ {b} : booking'[c] = booking[c]
    BY <1>1 DEF Board, IInv, TypeOK
  <2>2. Live' = Live
    BY <2>1 DEF Live
  <2>3. ASSUME NEW l, NEW c \in Bookings, Shape(l, c) PROVE Shape(l, c)'
    <3>1. CASE c = b
      BY <2>1, <2>3, <3>1 DEF Shape, Sold
    <3>2. CASE c # b
      BY <2>1, <2>3, <3>2 DEF Shape, Sold
    <3> QED BY <3>1, <3>2
  <2> QED BY <2>1, <2>2, <2>3, StillTrip
<1>2. ASSUME NEW b \in Bookings, HoldLapses(b) PROVE TripOK'
  <2>1. /\ UNCHANGED <<scheme, seat, soldCount, booking, sale, ref, job, todo>>
        /\ sale[b] = "PENDING" /\ ~BeingMade(b) /\ ~WaitingForProvider(b)
        /\ \A c \in Bookings : lapsed'[c] <=> c = b \/ lapsed[c]
    <3>1. lapsed' = [lapsed EXCEPT ![b] = TRUE] /\ faults \in Nat /\ lapsed \in [Bookings -> BOOLEAN]
      BY <1>2 DEF HoldLapses, IInv, TypeOK
    <3>2. ~WaitingForProvider(b)
      BY <1>2, <3>1 DEF HoldLapses
    <3> QED BY <1>2, <3>1, <3>2 DEF HoldLapses
  <2>2. ASSUME NEW p \in Procs, job[p].pc \in Creating, job[p].b = b PROVE FALSE
    <3>1. p \in Handlers
      BY <2>2 DEF TripOK, Apart
    <3>2. PICK l : l = job[p].pc
      OBVIOUS
    <3>3. Shape(l, b)
      BY <2>2, <3>2, OwningLabels DEF TripOK, Shaped
    <3>4. l \notin {"link", "store", "undo_early", "undo_late", "unbook", "unbook_late",
                    "unsell", "provider"}
      BY <2>1, <2>2, <3>1, <3>2 DEF BeingMade, WaitingForProvider, At
    <3> QED BY <2>1, <2>2, <3>2, <3>3, <3>4 DEF Shape, Creating
  <2>3. \A l, c : Shape(l, c) => Shape(l, c)'
    BY <2>1 DEF Shape, Sold
  <2>4. Live' = Live
    BY <2>1 DEF Live
  <2> QED BY <2>1, <2>2, <2>3, <2>4, StillTrip
<1>3. ASSUME NEW n \in Seats, ReserveSeat(n) \/ ReleaseSeat(n) PROVE TripOK'
  <2>1. /\ UNCHANGED <<scheme, soldCount, booking, sale, ref, lapsed, job, todo>>
        /\ seat[n] \in {"free", "reserved"} /\ seat'[n] \in {"free", "reserved"}
        /\ \A k \in Seats \ {n} : seat'[k] = seat[k]
    BY <1>3 DEF ReserveSeat, ReleaseSeat, IInv, TypeOK
  <2>2. \A c \in Bookings : (\E k \in Seats : seat'[k] = c) <=> \E k \in Seats : seat[k] = c
    BY <2>1, TripAssumption
  <2>3. \A l, c : Shape(l, c) => Shape(l, c)'
    BY <2>1 DEF Shape, Sold
  <2>4. Live' = Live
    BY <2>1 DEF Live
  <2> QED BY <2>1, <2>2, <2>3, <2>4, StillTrip
<1>4. ASSUME UNCHANGED <<tripVars, saleVars, job, todo>> PROVE TripOK'
  <2>1. \A l, c : Shape(l, c) => Shape(l, c)'
    BY <1>4 DEF Shape, Sold
  <2>2. Live' = Live
    BY <1>4 DEF Live
  <2> QED BY <1>4, <2>1, <2>2, StillTrip
<1>5. ASSUME NEW b \in Bookings, Resolve(b) PROVE TripOK'
  BY <1>4, <1>5 DEF Resolve
<1> QED BY <1>1, <1>2, <1>3, <1>4, <1>5 DEF vars
-----------------------------------------------------------------------------
(* The whole of the trip.                                                  *)

TInv == faults = 0 => TripOK

LEMMA InitTInv == Init => TInv
<1> SUFFICES ASSUME Init PROVE TripOK
  BY DEF TInv
<1>1. \A p \in Procs : job[p] = IdleJob
  BY DEF Init
<1>2. \A p \in Procs : job[p].pc = "idle" /\ job[p].pc \notin Owning
  BY <1>1, OwningLabels DEF IdleJob
<1>3. OneOwner
  BY <1>2 DEF OneOwner, Own
<1>4. Apart
  BY <1>2, Labels DEF Apart, Init
<1>5. Shaped
  BY <1>2 DEF Init, Shaped, Shape, Owning, Creating
<1>6. Counted = {}
  BY <1>2 DEF Counted, Live, Init, Claiming, Creating, Owning
<1>7. \A b \in Bookings, n \in Seats : seat[n] # b
  BY TripAssumption DEF Init
<1>8. soldCount = 0 /\ Total \in Nat /\ Cardinality(Counted) = 0
  BY <1>6, TripAssumption, FS_CardinalityType, FS_EmptySet DEF Init, Total
<1>9. CountOK
  BY <1>6, <1>7, <1>8 DEF CountOK
<1> QED BY <1>3, <1>4, <1>5, <1>9 DEF TripOK

\* No step takes a fault back.
LEMMA FaultsStay ==
    ASSUME IInv, [Next]_vars, faults' = 0
    PROVE  faults = 0 /\ \A p \in Procs : ~Abort(p)
<1> USE DEF saleVars, tripVars
<1>1. faults \in Nat
  BY DEF IInv, TypeOK
<1>2. ASSUME NEW p \in Procs, Step(p) PROVE faults' = faults
  BY <1>2 DEF Step, SaveBooking, CreateSale, LinkSale, CallProvider, StoreRef, UndoClaim,
              Unbook, Unsell, Charge, SaveConfirmed, CreateCompleted, AskProvider, ClaimSale,
              Confirm, FailSale, CancelBooking, ReleaseFailed, NextItem, SaveReserved
<1>3. ASSUME NEW p \in Procs, Abort(p) PROVE FALSE
  BY <1>1, <1>3 DEF Abort
<1>4. ASSUME NEW p \in Handlers, NEW b \in Bookings, ClaimCapacity(p, b) \/ StartFinalize(p, b)
      PROVE  faults' = faults
  BY <1>4 DEF ClaimCapacity, StartFinalize
<1>5. ASSUME NEW p \in Handlers, NEW n \in 0..Total, CheckReserved(p, n)
      PROVE  faults' = faults
  BY <1>5 DEF CheckReserved
<1>6. StartSweep \/ StartReconcile => faults' = faults
  BY DEF StartSweep, StartReconcile
<1>7. ASSUME NEW b \in Bookings, Board(b) \/ Resolve(b) \/ HoldLapses(b) PROVE faults = 0
  BY <1>1, <1>7 DEF Board, Resolve, HoldLapses
<1>8. ASSUME NEW n \in Seats, ReserveSeat(n) \/ ReleaseSeat(n) PROVE faults' = faults
  BY <1>8 DEF ReserveSeat, ReleaseSeat
<1>9. UNCHANGED vars => faults' = faults
  BY DEF vars
<1> QED BY <1>2, <1>3, <1>4, <1>5, <1>6, <1>7, <1>8, <1>9 DEF Next

LEMMA NextTInv == IInv /\ TInv /\ [Next]_vars => TInv'
<1> SUFFICES ASSUME IInv, TInv, [Next]_vars, faults' = 0 PROVE TripOK'
  BY DEF TInv
<1>1. IInv'
  BY NextIInv
<1>2. TripOK /\ \A p \in Procs : ~Abort(p)
  BY FaultsStay DEF TInv
<1>3. ASSUME NEW p \in Procs, Step(p) PROVE TripOK'
  <2>1. \/ \/ SaveBooking(p) \/ CreateSale(p) \/ LinkSale(p) \/ CallProvider(p)
           \/ StoreRef(p) \/ Unbook(p) \/ Unsell(p) \/ Charge(p)
           \/ SaveConfirmed(p) \/ CreateCompleted(p)
        \/ UndoClaim(p) \/ ReleaseFailed(p)
        \/ \/ AskProvider(p) \/ ClaimSale(p) \/ Confirm(p) \/ FailSale(p)
           \/ CancelBooking(p) \/ NextItem(p) \/ SaveReserved(p)
    BY <1>3 DEF Step
  <2> QED BY <1>1, <1>2, <2>1, CreatorTrip, ReleaseTrip, SettleTrip
<1>4. ASSUME NEW p \in Handlers, NEW b \in Bookings, ClaimCapacity(p, b) PROVE TripOK'
  BY <1>1, <1>2, <1>4, ClaimTrip
<1>5. CASE \/ StartSweep \/ StartReconcile
           \/ \E p \in Handlers, b \in Bookings : StartFinalize(p, b)
           \/ \E p \in Handlers, n \in 0..Total : CheckReserved(p, n)
  BY <1>1, <1>2, <1>5, BeginTrip
<1>6. CASE \/ \E b \in Bookings : Board(b) \/ Resolve(b) \/ HoldLapses(b)
           \/ \E n \in Seats : ReserveSeat(n) \/ ReleaseSeat(n)
           \/ UNCHANGED vars
  BY <1>2, <1>6, OutsideTrip
<1> QED BY <1>2, <1>3, <1>4, <1>5, <1>6 DEF Next

(* While nothing is cut short, each booking has at most one process that   *)
(* may write it, booking and sale are as that process left them, and the   *)
(* trip counts the bookings that hold a place, those and no others.        *)
THEOREM TripInvariance == Spec => [](IInv /\ TInv)
<1>1. Init => IInv /\ TInv
  BY InitIInv, InitTInv
<1>2. IInv /\ TInv /\ [Next]_vars => (IInv /\ TInv)'
  BY NextIInv, NextTInv
<1> QED BY <1>1, <1>2, PTL DEF Spec

(* While nothing is cut short, a trip that counts its passengers has no    *)
(* more of them than places, and its count covers every passenger sold.    *)
THEOREM CountKept == Spec => []CountCoversWithoutFaults
<1>1. IInv /\ TInv => CountCoversWithoutFaults
  <2> SUFFICES ASSUME IInv, TripOK, scheme = "COUNT"
               PROVE  Cardinality(Sold) <= soldCount /\ soldCount <= Total
    BY DEF TInv, CountCoversWithoutFaults, CountCovers
  <2>1. ASSUME NEW b \in Sold, NEW p \in Procs, job[p].b = b PROVE job[p].pc \notin Unclaiming
    <3>1. PICK l : l = job[p].pc
      OBVIOUS
    <3>2. l \in Unclaiming => Shape(l, b)
      BY <2>1, <3>1, OwningLabels DEF TripOK, Shaped
    <3> QED BY <3>1, <3>2 DEF Shape, Unclaiming, Sold
  <2>2. Sold \subseteq Counted
    BY <2>1 DEF Sold, Counted, Live
  <2>3. IsFiniteSet(Counted)
    BY TripAssumption, FS_Subset DEF Counted
  <2>4. Cardinality(Sold) <= Cardinality(Counted)
    BY <2>2, <2>3, FS_Subset
  <2> QED BY <2>4 DEF TripOK, CountOK
<1> QED BY <1>1, TripInvariance, PTL

(* Once every process has returned and none was cut short, sale and        *)
(* booking agree, and the places taken are those of the live bookings.     *)
THEOREM QuietTripKept == Spec => []QuietTripAddsUp
<1>1. IInv /\ TInv => QuietTripAddsUp
  <2> SUFFICES ASSUME IInv, TripOK, \A p \in Procs : job[p].pc = "idle"
               PROVE  QuietTripAddsUp
    BY DEF TInv, QuietTripAddsUp, Quiet, At
  <2>1. \A p \in Procs : job[p].pc \notin Owning
    BY OwningLabels
  <2>2. \A b \in Bookings : Shape("idle", b)
    BY <2>1 DEF TripOK, Shaped, Own
  <2>3. Counted = Live
    BY <2>1 DEF Counted, Live, Owning, Claiming, Unclaiming, Creating
  <2>4. /\ scheme = "COUNT" => soldCount = Cardinality(Live)
        /\ scheme # "COUNT" => \A b \in Bookings : b \in Live <=> \E n \in Seats : seat[n] = b
    BY <2>3, TripAssumption DEF TripOK, CountOK, IInv, TypeOK
  <2>5. ASSUME NEW b \in Bookings
        PROVE  /\ sale[b] = "COMPLETED" => b \in Sold
               /\ sale[b] = "FAILED" => booking[b] = "CANCELLED"
               /\ booking[b] = "PENDING" => sale[b] = "PENDING"
    BY <2>2 DEF Shape, Owning, Creating, Sold
  <2> QED BY <2>4, <2>5 DEF QuietTripAddsUp
<1> QED BY <1>1, TripInvariance, PTL

=============================================================================
