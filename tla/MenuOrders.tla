------------------------------ MODULE MenuOrders ------------------------------
(***************************************************************************)
(* The menu preorders of an event: the checkout by Keshless wallet and by  *)
(* MTN MoMo, the finalizer that a poll, a callback and the reconcile job   *)
(* share, and the kitchen that prepares what was ordered.  A step of a     *)
(* process is one await: a read or a write of the order, or one call of a  *)
(* provider.                                                               *)
(***************************************************************************)
EXTENDS Naturals, FiniteSets

CONSTANTS
    Orders, Handlers,   \* preorders and HTTP handlers
    Reconciler,         \* the background job
    NoOrder,            \* the order of a process that has none
    Rails,              \* the payment methods in use
    MaxFaults           \* bound on the handlers that are cut short

ASSUME OrdersAssumption ==
    /\ Reconciler \notin Handlers
    /\ NoOrder \notin Orders
    /\ Rails \subseteq {"KESHLESS_WALLET", "MTN_MOMO"}
    /\ MaxFaults \in Nat

Procs == Handlers \cup {Reconciler}

VARIABLES
    rail,           \* MenuOrder.paymentMethod
    placed,         \* the orders somebody has begun to place
    status,         \* MenuOrder.paymentStatus; "none" before the order is saved
    ref,            \* MenuOrder.momoReferenceId is stored
    fulfillment,    \* MenuOrder.fulfillmentStatus
    checkout,       \* what the provider knows of the payment
    job,            \* where a process stands, its order, the stage it writes
    todo,           \* the orders the reconcile job still has to look at
    stages,         \* history: the stages that have been stored
    lost,           \* history: orders whose checkout was cut short or unanswered
    faults          \* the handlers cut short so far

orderVars == <<rail, placed, status, ref>>
ghostVars == <<stages, lost, faults>>
vars == <<orderVars, fulfillment, checkout, job, todo, ghostVars>>

Stages == {"new", "preparing", "ready", "collected", "cancelled"}

\* FULFILLMENT_TRANSITIONS.
Transitions ==
    [s \in Stages |->
       CASE s = "new"       -> {"preparing", "cancelled"}
         [] s = "preparing" -> {"ready", "cancelled"}
         [] s = "ready"     -> {"collected", "cancelled"}
         [] OTHER           -> {}]

Kitchen == {"preparing", "ready", "collected"}

\* The labels at which a checkout is under way.
Placing == {"pay", "save_paid", "save_failed", "create", "request", "store",
            "catch", "catch_ref"}
PCs == Placing \cup {"idle", "next", "ask", "fail", "claim", "move"}

IdleJob == [pc |-> "idle", o |-> NoOrder, to |-> "new"]

At(p, label)   == job[p].pc = label
Goto(p, label) == job' = [job EXCEPT ![p].pc = label]

\* The request is answered or throws; the job goes on with its list.
Finish(p) ==
    job' = [job EXCEPT ![p] =
              [IdleJob EXCEPT !.pc = IF p = Reconciler /\ todo # {} THEN "next" ELSE "idle"]]

Init ==
    /\ rail \in [Orders -> Rails]
    /\ placed = {}
    /\ status = [o \in Orders |-> "none"]
    /\ ref = [o \in Orders |-> FALSE]
    /\ fulfillment = [o \in Orders |-> "new"]
    /\ checkout = [o \in Orders |-> "none"]
    /\ job = [p \in Procs |-> IdleJob]
    /\ todo = {}
    /\ stages = [o \in Orders |-> {"new"}]
    /\ lost = {}
    /\ faults = 0

-----------------------------------------------------------------------------
(* The checkout.  The event, the items and their prices are read anew;     *)
(* nothing is written when one of them is refused.                         *)

PlaceOrder(p, o) ==
    /\ At(p, "idle") /\ p # Reconciler
    /\ o \notin placed
    /\ placed' = placed \cup {o}
    /\ job' = [job EXCEPT ![p] =
         [IdleJob EXCEPT !.o = o,
                         !.pc = IF rail[o] = "MTN_MOMO" THEN "create" ELSE "pay"]]
    /\ UNCHANGED <<rail, status, ref, fulfillment, checkout, todo, ghostVars>>

\* acceptPayment: completed, or failed; it answers "failed" too when the answer
\* of the wallet never came, be the money taken or not.
AcceptPayment(p) ==
    LET o == job[p].o IN
    /\ At(p, "pay")
    /\ \E ok, taken \in BOOLEAN :
         /\ ok => taken
         /\ checkout' = [checkout EXCEPT ![o] = IF taken THEN "paid" ELSE @]
         /\ lost' = IF taken /\ ~ok THEN lost \cup {o} ELSE lost
         /\ Goto(p, IF ok THEN "save_paid" ELSE "save_failed")
    /\ UNCHANGED <<orderVars, fulfillment, todo, stages, faults>>

\* The only write of a wallet order, after the payment.
SaveOutcome(p) ==
    /\ At(p, "save_paid") \/ At(p, "save_failed")
    /\ status' = [status EXCEPT ![job[p].o] =
                    IF At(p, "save_paid") THEN "COMPLETED" ELSE "FAILED"]
    /\ Finish(p)
    /\ UNCHANGED <<rail, placed, ref, fulfillment, checkout, todo, ghostVars>>

CreateOrder(p) ==
    /\ At(p, "create")
    /\ status' = [status EXCEPT ![job[p].o] = "PENDING"]
    /\ Goto(p, "request")
    /\ UNCHANGED <<rail, placed, ref, fulfillment, checkout, todo, ghostVars>>

\* requestToPay: opened, or the call throws, before or after MTN has opened it.
RequestToPay(p) ==
    LET o == job[p].o IN
    /\ At(p, "request")
    /\ \E ok, opened \in BOOLEAN :
         /\ ok => opened
         /\ checkout' = [checkout EXCEPT ![o] = IF opened THEN "open" ELSE @]
         /\ lost' = IF opened /\ ~ok THEN lost \cup {o} ELSE lost
         /\ Goto(p, IF ok THEN "store" ELSE "catch")
    /\ UNCHANGED <<orderVars, fulfillment, todo, stages, faults>>

\* The save of the reference; one that throws may have been written or not.
StoreReference(p) ==
    LET o == job[p].o IN
    /\ At(p, "store")
    /\ \/ /\ ref' = [ref EXCEPT ![o] = TRUE]
          /\ Finish(p)
          /\ UNCHANGED lost
       \/ /\ \E written \in BOOLEAN : ref' = [ref EXCEPT ![o] = written]
          /\ Goto(p, "catch_ref")
          /\ lost' = lost \cup {o}
    /\ UNCHANGED <<rail, placed, status, fulfillment, checkout, todo, stages, faults>>

\* The catch block saves FAILED whatever is stored by now, and with it the
\* reference, which is still unsaved on the document when its save has thrown.
CatchFailure(p) ==
    LET o == job[p].o IN
    /\ At(p, "catch") \/ At(p, "catch_ref")
    /\ status' = [status EXCEPT ![o] = "FAILED"]
    /\ ref' = [ref EXCEPT ![o] = @ \/ At(p, "catch_ref")]
    /\ Finish(p)
    /\ UNCHANGED <<rail, placed, fulfillment, checkout, todo, ghostVars>>

-----------------------------------------------------------------------------
(* finalizeMomoOrder, for the buyer who polls, for a callback of MTN and   *)
(* for the reconcile job.  An order that is not PENDING is reported as it  *)
(* is.                                                                     *)

Finalizable(o) == ref[o] /\ status[o] = "PENDING"

Poll(p, o) ==
    /\ At(p, "idle") /\ p # Reconciler
    /\ Finalizable(o)
    /\ job' = [job EXCEPT ![p] = [IdleJob EXCEPT !.pc = "ask", !.o = o]]
    /\ UNCHANGED <<orderVars, fulfillment, checkout, todo, ghostVars>>

\* A callback that comes before the reference is stored finds no order and is
\* not sent again.
Callback(p, o) ==
    /\ checkout[o] \in {"paid", "mismatch", "rejected"}
    /\ Poll(p, o)

\* Mutant of AskProvider: a payment that is still open is taken for a failed one.
AskAndFail(p) ==
    /\ At(p, "ask")
    /\ IF checkout[job[p].o] = "paid" THEN Goto(p, "claim") ELSE Goto(p, "fail")
    /\ UNCHANGED <<orderVars, fulfillment, checkout, todo, ghostVars>>

\* getStatus, with the guard on the amount and the currency.
AskProvider(p) ==
    LET c == checkout[job[p].o] IN
    /\ At(p, "ask")
    /\ CASE c = "paid"                     -> Goto(p, "claim")
         [] c \in {"mismatch", "rejected"} -> Goto(p, "fail")
         [] OTHER                          -> Finish(p)
    /\ UNCHANGED <<orderVars, fulfillment, checkout, todo, ghostVars>>

\* The order as it was read is saved with FAILED, whatever is stored by now.
FailOrder(p) ==
    /\ At(p, "fail")
    /\ status' = [status EXCEPT ![job[p].o] = "FAILED"]
    /\ Finish(p)
    /\ UNCHANGED <<rail, placed, ref, fulfillment, checkout, todo, ghostVars>>

\* findOneAndUpdate({_id, PENDING}, COMPLETED).
ClaimOrder(p) ==
    /\ At(p, "claim")
    /\ IF status[job[p].o] = "PENDING"
       THEN status' = [status EXCEPT ![job[p].o] = "COMPLETED"]
       ELSE UNCHANGED status
    /\ Finish(p)
    /\ UNCHANGED <<rail, placed, ref, fulfillment, checkout, todo, ghostVars>>

\* Mutant of StartReconcile: the orders without a reference are looked for.
ReconcileUnreferenced ==
    /\ At(Reconciler, "idle")
    /\ todo' = {o \in Orders : status[o] = "PENDING" /\ ~ref[o]}
    /\ todo' # {}
    /\ Goto(Reconciler, "next")
    /\ UNCHANGED <<orderVars, fulfillment, checkout, ghostVars>>

StartReconcile ==
    /\ At(Reconciler, "idle")
    /\ todo' = {o \in Orders : rail[o] = "MTN_MOMO" /\ Finalizable(o)}
    /\ todo' # {}
    /\ Goto(Reconciler, "next")
    /\ UNCHANGED <<orderVars, fulfillment, checkout, ghostVars>>

\* The order is read again; one that is settled by now is passed over.
NextOrder ==
    /\ At(Reconciler, "next")
    /\ \E o \in todo :
         /\ todo' = todo \ {o}
         /\ job' = [job EXCEPT ![Reconciler] =
              IF Finalizable(o) THEN [IdleJob EXCEPT !.pc = "ask", !.o = o]
              ELSE [IdleJob EXCEPT !.pc = IF todo' = {} THEN "idle" ELSE "next"]]
    /\ UNCHANGED <<orderVars, fulfillment, checkout, ghostVars>>

-----------------------------------------------------------------------------
(* updateOrderFulfillment: the order is read and the move is judged; it is *)
(* saved by a later step.                                                  *)

\* Mutant of Allowed: any later stage will do.
AllowedAhead(o, n) ==
    /\ fulfillment[o] \notin {"collected", "cancelled"} /\ n # "new"
    /\ n # "cancelled" => status[o] = "COMPLETED"

\* fulfillmentTransitionRefusal is null.
Allowed(o, n) ==
    /\ n \in Transitions[fulfillment[o]]
    /\ n # "cancelled" => status[o] = "COMPLETED"

ReadOrder(p, o, n) ==
    /\ At(p, "idle") /\ p # Reconciler
    /\ status[o] # "none"
    /\ Allowed(o, n)
    /\ job' = [job EXCEPT ![p] = [IdleJob EXCEPT !.pc = "move", !.o = o, !.to = n]]
    /\ UNCHANGED <<orderVars, fulfillment, checkout, todo, ghostVars>>

\* Only the stage is written.
SaveStage(p) ==
    LET o == job[p].o IN
    /\ At(p, "move")
    /\ fulfillment' = [fulfillment EXCEPT ![o] = job[p].to]
    /\ stages' = [stages EXCEPT ![o] = @ \cup {job[p].to}]
    /\ Finish(p)
    /\ UNCHANGED <<orderVars, checkout, todo, lost, faults>>

-----------------------------------------------------------------------------
\* An await throws with no catch block around it, or the server dies.
Abort(p) ==
    /\ ~At(p, "idle") /\ ~At(p, "next")
    /\ faults < MaxFaults
    /\ faults' = faults + 1
    /\ lost' = IF job[p].pc \in Placing THEN lost \cup {job[p].o} ELSE lost
    /\ Finish(p)
    /\ UNCHANGED <<orderVars, fulfillment, checkout, todo, stages>>

\* The buyer pays, pays another amount, or declines.
Resolve(o) ==
    /\ checkout[o] = "open"
    /\ \E c \in {"paid", "mismatch", "rejected"} :
         checkout' = [checkout EXCEPT ![o] = c]
    /\ UNCHANGED <<orderVars, fulfillment, job, todo, ghostVars>>

-----------------------------------------------------------------------------
Finalize(p) == AskProvider(p) \/ FailOrder(p) \/ ClaimOrder(p)

Step(p) ==
    \/ AcceptPayment(p)  \/ SaveOutcome(p)  \/ CreateOrder(p) \/ RequestToPay(p)
    \/ StoreReference(p) \/ CatchFailure(p) \/ Finalize(p)    \/ SaveStage(p)

Next ==
    \/ \E p \in Handlers, o \in Orders :
         \/ PlaceOrder(p, o) \/ Poll(p, o) \/ Callback(p, o)
         \/ \E n \in Stages : ReadOrder(p, o, n)
    \/ \E p \in Procs : Step(p) \/ Abort(p)
    \/ StartReconcile \/ NextOrder
    \/ \E o \in Orders : Resolve(o)

Spec == Init /\ [][Next]_vars

\* setInterval starts the job again and again, and the event loop resumes it.
Fairness == WF_vars(StartReconcile \/ NextOrder \/ Finalize(Reconciler))

FairSpec == Spec /\ Fairness

-----------------------------------------------------------------------------
(* Properties.                                                             *)

TypeOK ==
    /\ rail \in [Orders -> Rails]
    /\ placed \subseteq Orders
    /\ status \in [Orders -> {"none", "PENDING", "COMPLETED", "FAILED"}]
    /\ ref \in [Orders -> BOOLEAN]
    /\ fulfillment \in [Orders -> Stages]
    /\ checkout \in [Orders -> {"none", "open", "paid", "mismatch", "rejected"}]
    /\ job \in [Procs -> [pc : PCs, o : Orders \cup {NoOrder}, to : Stages]]
    /\ todo \subseteq Orders
    /\ stages \in [Orders -> SUBSET Stages]
    /\ lost \subseteq Orders
    /\ faults \in Nat

BeingPlaced(o) == \E p \in Handlers : job[p].o = o /\ job[p].pc \in Placing

\* Orders and payments agree through every race of polls, callbacks, the job
\* and the failing initiator: what is recorded as paid, or has reached the
\* kitchen, was paid exactly; and what was paid is recorded, or can still be
\* found by its reference, or its checkout is under way or was cut short.
MoneyMeetsOrder ==
    \A o \in Orders :
        /\ status[o] = "COMPLETED" \/ fulfillment[o] \in Kitchen => checkout[o] = "paid"
        /\ checkout[o] = "paid" =>
             \/ status[o] = "COMPLETED" \/ Finalizable(o)
             \/ BeingPlaced(o) \/ o \in lost

\* No race of the staff makes an order skip a stage: what was collected was
\* ready before, and what was ready was prepared.
StagesInOrder ==
    \A o \in Orders :
        /\ "collected" \in stages[o] => "ready" \in stages[o]
        /\ "ready" \in stages[o] => "preparing" \in stages[o]

\* "Otherwise it would sit PENDING forever while MTN has taken the money": a
\* paid order is settled though its polls and callbacks be lost.
PaidIsSettled ==
    \A o \in Orders : rail[o] = "MTN_MOMO" /\ ref[o] /\ checkout[o] = "paid"
                      ~> status[o] # "PENDING"

\* "Collected and cancelled are terminal."
TerminalStays ==
    [][\A o \in Orders : fulfillment[o] \in {"collected", "cancelled"}
                         => fulfillment'[o] = fulfillment[o]]_vars
=============================================================================
