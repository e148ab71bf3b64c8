--------------------------- MODULE MenuOrdersProofs ---------------------------
(***************************************************************************)
(* What is proved of MenuOrders for any orders, handlers, payment methods  *)
(* and faults: the types, that money and orders agree, and that no stage   *)
(* of the preparation is skipped.                                          *)
(***************************************************************************)
EXTENDS MenuOrders, TLAPS

-----------------------------------------------------------------------------
(* The inductive invariant.                                                *)

\* A process has an order while it works, and the job neither places orders nor
\* moves them.
Labelled(p) ==
    /\ job[p].pc \notin {"idle", "next"} => job[p].o \in Orders
    /\ job[p].pc \in Placing => p \in Handlers /\ job[p].o \in placed
    /\ job[p].pc = "next" => p = Reconciler

\* One request places an order.
OnePlacer ==
    \A p, q \in Handlers :
        job[p].pc \in Placing /\ job[q].pc \in Placing /\ job[p].o = job[q].o => p = q

\* What a checkout knows of its order at each await, nobody else touching it.
Checkout(p) ==
    LET o == job[p].o IN
    /\ job[p].pc \in {"pay", "create"} => status[o] = "none" /\ checkout[o] = "none"
    /\ job[p].pc = "save_paid" => checkout[o] = "paid"
    /\ job[p].pc \in {"save_failed", "catch"} => checkout[o] = "none" \/ o \in lost
    /\ job[p].pc = "request" => checkout[o] = "none"
    /\ job[p].pc \in {"request", "store"} => status[o] = "PENDING"
    /\ job[p].pc \in Placing \ {"catch_ref"} => ~ref[o]
    /\ job[p].pc = "catch_ref" => o \in lost

\* What a finalizer and a member of staff carry over their awaits stays true.
Carried(p) ==
    LET o == job[p].o IN
    /\ job[p].pc \in {"ask", "claim", "fail"} => ref[o]
    /\ job[p].pc = "claim" => checkout[o] = "paid"
    /\ job[p].pc = "fail" => checkout[o] \in {"mismatch", "rejected"}
    /\ job[p].pc = "move" =>
         /\ job[p].to \in Kitchen => checkout[o] = "paid"
         /\ \E s \in stages[o] : job[p].to \in Transitions[s]

\* A payment that is open or made is on record, can be found, or its checkout is
\* under way or was cut short.
Accounted(o) ==
    /\ o \notin placed => status[o] = "none" /\ checkout[o] = "none" /\ ~ref[o]
    /\ status[o] = "COMPLETED" \/ fulfillment[o] \in Kitchen => checkout[o] = "paid"
    /\ checkout[o] \in {"open", "paid"} =>
         \/ status[o] = "COMPLETED" \/ Finalizable(o)
         \/ BeingPlaced(o) \/ o \in lost
    /\ fulfillment[o] \in stages[o]

IInv ==
    /\ TypeOK
    /\ \A p \in Procs : Labelled(p) /\ Checkout(p) /\ Carried(p)
    /\ OnePlacer
    /\ \A o \in Orders : Accounted(o)
    /\ StagesInOrder

-----------------------------------------------------------------------------
(* Types.                                                                  *)

JobType == [pc : PCs, o : Orders \cup {NoOrder}, to : Stages]

\* Going on to a label changes nothing else, and no other process.
LEMMA GotoDoes ==
    ASSUME TypeOK, NEW p \in Procs, NEW l \in PCs, Goto(p, l)
    PROVE  /\ job' \in [Procs -> JobType]
           /\ job'[p].pc = l /\ job'[p].o = job[p].o /\ job'[p].to = job[p].to
           /\ \A q \in Procs : q # p => job'[q] = job[q]
  <1>1. job[p] \in JobType
    BY DEF TypeOK, JobType
  <1>2. [job[p] EXCEPT !.pc = l] \in JobType
    BY <1>1 DEF JobType
  <1>3. /\ [job[p] EXCEPT !.pc = l].pc = l
        /\ [job[p] EXCEPT !.pc = l].o = job[p].o
        /\ [job[p] EXCEPT !.pc = l].to = job[p].to
    BY <1>1 DEF JobType
  <1>4. job' = [job EXCEPT ![p] = [job[p] EXCEPT !.pc = l]]
    BY DEF Goto, TypeOK
  <1> QED
    BY <1>1, <1>2, <1>3, <1>4 DEF TypeOK, JobType

\* A process that is given an order, a label and a stage.
LEMMA StartDoes ==
    ASSUME TypeOK, NEW p \in Procs, NEW j \in JobType, job' = [job EXCEPT ![p] = j]
    PROVE  /\ job' \in [Procs -> JobType]
           /\ job'[p] = j
           /\ \A q \in Procs : q # p => job'[q] = job[q]
  BY DEF TypeOK, JobType

\* A process that finishes is idle or looks at the next order of its list.
LEMMA FinishDoes ==
    ASSUME TypeOK, NEW p \in Procs, Finish(p)
    PROVE  /\ job' \in [Procs -> JobType]
           /\ job'[p].pc \in {"idle", "next"}
           /\ job'[p].pc = "next" => p = Reconciler
           /\ \A q \in Procs : q # p => job'[q] = job[q]
  <1> DEFINE l == IF p = Reconciler /\ todo # {} THEN "next" ELSE "idle"
             j == [IdleJob EXCEPT !.pc = l]
  <1>1. l \in {"idle", "next"} /\ (l = "next" => p = Reconciler)
    OBVIOUS
  <1>2. job' = [job EXCEPT ![p] = j]
    BY DEF Finish
  <1> HIDE DEF l
  <1>3. j \in JobType /\ j.pc = l
    BY <1>1 DEF IdleJob, JobType, PCs, Stages
  <1> HIDE DEF j
  <1> QED
    BY <1>1, <1>2, <1>3, StartDoes

-----------------------------------------------------------------------------
(* Every action keeps the invariant.                                       *)

LEMMA AcceptPaymentKeeps ==
    ASSUME IInv, NEW p \in Procs, AcceptPayment(p)
    PROVE  IInv'
  <1>1. PICK o \in Orders : o = job[p].o
    BY DEF IInv, Labelled, AcceptPayment, At
  <1>2. PICK l \in {"save_paid", "save_failed"} :
            /\ Goto(p, l)
            /\ job[p].pc = "pay"
            /\ checkout' = checkout \/ checkout' = [checkout EXCEPT ![o] = "paid"]
            /\ lost' = lost \/ lost' = lost \cup {o}
            /\ l = "save_paid" => checkout'[o] = "paid"
            /\ l = "save_failed" => checkout' = checkout \/ o \in lost'
    <2>1. checkout = [checkout EXCEPT ![o] = checkout[o]]
      BY DEF IInv, TypeOK
    <2>2. PICK ok \in BOOLEAN, taken \in BOOLEAN :
            /\ ok => taken
            /\ checkout' = [checkout EXCEPT ![o] = IF taken THEN "paid" ELSE checkout[o]]
            /\ lost' = IF taken /\ ~ok THEN lost \cup {o} ELSE lost
            /\ Goto(p, IF ok THEN "save_paid" ELSE "save_failed")
      BY <1>1 DEF AcceptPayment
    <2>3. job[p].pc = "pay" /\ checkout \in [Orders -> {"none", "open", "paid", "mismatch", "rejected"}]
      BY DEF AcceptPayment, At, IInv, TypeOK
    <2>4. CASE ok /\ taken
      BY <2>2, <2>3, <2>4
    <2>5. CASE ~ok /\ taken
      BY <2>2, <2>3, <2>5
    <2>6. CASE ~ok /\ ~taken
      BY <2>1, <2>2, <2>3, <2>6
    <2> QED
      BY <2>2, <2>4, <2>5, <2>6
  <1>3. /\ job' \in [Procs -> JobType]
        /\ job'[p].pc = l /\ job'[p].o = o
        /\ \A q \in Procs : q # p => job'[q] = job[q]
    BY <1>1, <1>2, GotoDoes DEF IInv, PCs, Placing
  <1>4. UNCHANGED <<rail, placed, status, ref, fulfillment, todo, stages, faults>>
    BY DEF AcceptPayment, orderVars, ghostVars
  <1>5. TypeOK'
    BY <1>1, <1>2, <1>3, <1>4 DEF IInv, TypeOK, JobType
  <1>6. ASSUME NEW q \in Procs
        PROVE  Labelled(q)' /\ Checkout(q)' /\ Carried(q)'
    <2>1. CASE q = p
      BY <1>1, <1>2, <1>3, <1>4, <2>1 DEF IInv, TypeOK, Labelled, Checkout, Carried, Placing
    <2>2. CASE q # p
      BY <1>1, <1>2, <1>3, <1>4, <2>2 DEF IInv, TypeOK, Labelled, Checkout, Carried, OnePlacer, Placing
    <2> QED
      BY <2>1, <2>2
  <1>7. OnePlacer'
    BY <1>1, <1>2, <1>3, <1>4 DEF IInv, OnePlacer, Placing, Labelled, Procs
  <1>8. ASSUME NEW b \in Orders
        PROVE  Accounted(b)'
    <2>1. Accounted(b) /\ Labelled(p) /\ Checkout(p) /\ Carried(p) /\ TypeOK
      BY DEF IInv
    <2>2. ASSUME b # o \/ job[p].pc \notin Placing
          PROVE  BeingPlaced(b) => BeingPlaced(b)'
      BY <1>1, <1>2, <1>3, <1>4, <2>2 DEF BeingPlaced, Placing, Procs
    <2>3. CASE b = o
      BY <1>1, <1>2, <1>3, <1>4, <2>1, <2>2, <2>3 DEF TypeOK, Labelled, Checkout, Carried, Accounted, Finalizable, BeingPlaced, Placing, Kitchen
    <2>4. CASE b # o
      BY <1>1, <1>2, <1>4, <2>1, <2>2, <2>4 DEF TypeOK, Accounted, Finalizable
    <2> QED
      BY <2>3, <2>4
  <1>9. StagesInOrder'
    BY <1>4 DEF IInv, StagesInOrder
  <1> QED
    BY <1>5, <1>6, <1>7, <1>8, <1>9 DEF IInv

LEMMA SaveOutcomeKeeps ==
    ASSUME IInv, NEW p \in Procs, SaveOutcome(p)
    PROVE  IInv'
  <1>1. PICK o \in Orders : o = job[p].o
    BY DEF IInv, Labelled, SaveOutcome, At
  <1>2. PICK s \in {"COMPLETED", "FAILED"} :
            /\ Finish(p)
            /\ status' = [status EXCEPT ![o] = s]
            /\ job[p].pc = IF s = "COMPLETED" THEN "save_paid" ELSE "save_failed"
    BY <1>1 DEF SaveOutcome, At
  <1>3. /\ job' \in [Procs -> JobType]
        /\ job'[p].pc \in {"idle", "next"} /\ (job'[p].pc = "next" => p = Reconciler)
        /\ \A q \in Procs : q # p => job'[q] = job[q]
    BY <1>2, FinishDoes DEF IInv
  <1>4. UNCHANGED <<rail, placed, ref, fulfillment, checkout, todo, stages, lost, faults>>
    BY DEF SaveOutcome, orderVars, ghostVars
  <1>5. TypeOK'
    BY <1>1, <1>2, <1>3, <1>4 DEF IInv, TypeOK, JobType
  <1>6. ASSUME NEW q \in Procs
        PROVE  Labelled(q)' /\ Checkout(q)' /\ Carried(q)'
    <2>1. CASE q = p
      BY <1>1, <1>2, <1>3, <1>4, <2>1 DEF IInv, TypeOK, Labelled, Checkout, Carried, Placing
    <2>2. CASE q # p
      BY <1>1, <1>2, <1>3, <1>4, <2>2 DEF IInv, TypeOK, Labelled, Checkout, Carried, OnePlacer, Placing
    <2> QED
      BY <2>1, <2>2
  <1>7. OnePlacer'
    BY <1>1, <1>2, <1>3, <1>4 DEF IInv, OnePlacer, Placing, Labelled, Procs
  <1>8. ASSUME NEW b \in Orders
        PROVE  Accounted(b)'
    <2>1. Accounted(b) /\ Labelled(p) /\ Checkout(p) /\ Carried(p) /\ TypeOK
      BY DEF IInv
    <2>2. ASSUME b # o \/ job[p].pc \notin Placing
          PROVE  BeingPlaced(b) => BeingPlaced(b)'
      BY <1>1, <1>2, <1>3, <1>4, <2>2 DEF BeingPlaced, Placing, Procs
    <2>3. CASE b = o
      BY <1>1, <1>2, <1>3, <1>4, <2>1, <2>2, <2>3 DEF TypeOK, Labelled, Checkout, Carried, Accounted, Finalizable, BeingPlaced, Placing, Kitchen
    <2>4. CASE b # o
      BY <1>1, <1>2, <1>4, <2>1, <2>2, <2>4 DEF TypeOK, Accounted, Finalizable
    <2> QED
      BY <2>3, <2>4
  <1>9. StagesInOrder'
    BY <1>4 DEF IInv, StagesInOrder
  <1> QED
    BY <1>5, <1>6, <1>7, <1>8, <1>9 DEF IInv

LEMMA CreateOrderKeeps ==
    ASSUME IInv, NEW p \in Procs, CreateOrder(p)
    PROVE  IInv'
  <1>1. PICK o \in Orders : o = job[p].o
    BY DEF IInv, Labelled, CreateOrder, At
  <1>2. PICK l \in {"request"} :
            /\ Goto(p, l)
            /\ job[p].pc = "create"
            /\ status' = [status EXCEPT ![o] = "PENDING"]
    BY <1>1 DEF CreateOrder, At
  <1>3. /\ job' \in [Procs -> JobType]
        /\ job'[p].pc = l /\ job'[p].o = o
        /\ \A q \in Procs : q # p => job'[q] = job[q]
    BY <1>1, <1>2, GotoDoes DEF IInv, PCs, Placing
  <1>4. UNCHANGED <<rail, placed, ref, fulfillment, checkout, todo, stages, lost, faults>>
    BY DEF CreateOrder, orderVars, ghostVars
  <1>5. TypeOK'
    BY <1>1, <1>2, <1>3, <1>4 DEF IInv, TypeOK, JobType
  <1>6. ASSUME NEW q \in Procs
        PROVE  Labelled(q)' /\ Checkout(q)' /\ Carried(q)'
    <2>1. CASE q = p
      BY <1>1, <1>2, <1>3, <1>4, <2>1 DEF IInv, TypeOK, Labelled, Checkout, Carried, Placing
    <2>2. CASE q # p
      BY <1>1, <1>2, <1>3, <1>4, <2>2 DEF IInv, TypeOK, Labelled, Checkout, Carried, OnePlacer, Placing
    <2> QED
      BY <2>1, <2>2
  <1>7. OnePlacer'
    BY <1>1, <1>2, <1>3, <1>4 DEF IInv, OnePlacer, Placing, Labelled, Procs
  <1>8. ASSUME NEW b \in Orders
        PROVE  Accounted(b)'
    <2>1. Accounted(b) /\ Labelled(p) /\ Checkout(p) /\ Carried(p) /\ TypeOK
      BY DEF IInv
    <2>2. ASSUME b # o \/ job[p].pc \notin Placing
          PROVE  BeingPlaced(b) => BeingPlaced(b)'
      BY <1>1, <1>2, <1>3, <1>4, <2>2 DEF BeingPlaced, Placing, Procs
    <2>3. CASE b = o
      BY <1>1, <1>2, <1>3, <1>4, <2>1, <2>2, <2>3 DEF TypeOK, Labelled, Checkout, Carried, Accounted, Finalizable, BeingPlaced, Placing, Kitchen
    <2>4. CASE b # o
      BY <1>1, <1>2, <1>4, <2>1, <2>2, <2>4 DEF TypeOK, Accounted, Finalizable
    <2> QED
      BY <2>3, <2>4
  <1>9. StagesInOrder'
    BY <1>4 DEF IInv, StagesInOrder
  <1> QED
    BY <1>5, <1>6, <1>7, <1>8, <1>9 DEF IInv

LEMMA RequestToPayKeeps ==
    ASSUME IInv, NEW p \in Procs, RequestToPay(p)
    PROVE  IInv'
  <1>1. PICK o \in Orders : o = job[p].o
    BY DEF IInv, Labelled, RequestToPay, At
  <1>2. PICK l \in {"store", "catch"} :
            /\ Goto(p, l)
            /\ job[p].pc = "request"
            /\ checkout' = checkout \/ checkout' = [checkout EXCEPT ![o] = "open"]
            /\ lost' = lost \/ lost' = lost \cup {o}
            /\ l = "catch" => checkout' = checkout \/ o \in lost'
    <2>1. checkout = [checkout EXCEPT ![o] = checkout[o]]
      BY DEF IInv, TypeOK
    <2>2. PICK ok \in BOOLEAN, opened \in BOOLEAN :
            /\ ok => opened
            /\ checkout' = [checkout EXCEPT ![o] = IF opened THEN "open" ELSE checkout[o]]
            /\ lost' = IF opened /\ ~ok THEN lost \cup {o} ELSE lost
            /\ Goto(p, IF ok THEN "store" ELSE "catch")
      BY <1>1 DEF RequestToPay
    <2>3. job[p].pc = "request"
      BY DEF RequestToPay, At
    <2>4. CASE ok /\ opened
      BY <2>2, <2>3, <2>4
    <2>5. CASE ~ok /\ opened
      BY <2>2, <2>3, <2>5
    <2>6. CASE ~ok /\ ~opened
      BY <2>1, <2>2, <2>3, <2>6
    <2> QED
      BY <2>2, <2>4, <2>5, <2>6
  <1>3. /\ job' \in [Procs -> JobType]
        /\ job'[p].pc = l /\ job'[p].o = o
        /\ \A q \in Procs : q # p => job'[q] = job[q]
    BY <1>1, <1>2, GotoDoes DEF IInv, PCs, Placing
  <1>4. UNCHANGED <<rail, placed, status, ref, fulfillment, todo, stages, faults>>
    BY DEF RequestToPay, orderVars, ghostVars
  <1>5. TypeOK'
    BY <1>1, <1>2, <1>3, <1>4 DEF IInv, TypeOK, JobType
  <1>6. ASSUME NEW q \in Procs
        PROVE  Labelled(q)' /\ Checkout(q)' /\ Carried(q)'
    <2>1. CASE q = p
      BY <1>1, <1>2, <1>3, <1>4, <2>1 DEF IInv, TypeOK, Labelled, Checkout, Carried, Placing
    <2>2. CASE q # p
      BY <1>1, <1>2, <1>3, <1>4, <2>2 DEF IInv, TypeOK, Labelled, Checkout, Carried, OnePlacer, Placing
    <2> QED
      BY <2>1, <2>2
  <1>7. OnePlacer'
    BY <1>1, <1>2, <1>3, <1>4 DEF IInv, OnePlacer, Placing, Labelled, Procs
  <1>8. ASSUME NEW b \in Orders
        PROVE  Accounted(b)'
    <2>1. Accounted(b) /\ Labelled(p) /\ Checkout(p) /\ Carried(p) /\ TypeOK
      BY DEF IInv
    <2>2. ASSUME b # o \/ job[p].pc \notin Placing
          PROVE  BeingPlaced(b) => BeingPlaced(b)'
      BY <1>1, <1>2, <1>3, <1>4, <2>2 DEF BeingPlaced, Placing, Procs
    <2>3. CASE b = o
      BY <1>1, <1>2, <1>3, <1>4, <2>1, <2>2, <2>3 DEF TypeOK, Labelled, Checkout, Carried, Accounted, Finalizable, BeingPlaced, Placing, Kitchen
    <2>4. CASE b # o
      BY <1>1, <1>2, <1>4, <2>1, <2>2, <2>4 DEF TypeOK, Accounted, Finalizable
    <2> QED
      BY <2>3, <2>4
  <1>9. StagesInOrder'
    BY <1>4 DEF IInv, StagesInOrder
  <1> QED
    BY <1>5, <1>6, <1>7, <1>8, <1>9 DEF IInv

\* The reference is stored.
Stored(p) ==
    /\ At(p, "store") /\ Finish(p)
    /\ ref' = [ref EXCEPT ![job[p].o] = TRUE]
    /\ UNCHANGED <<rail, placed, status, fulfillment, checkout, todo, ghostVars>>

\* Its save throws.
NotStored(p) ==
    /\ At(p, "store") /\ Goto(p, "catch_ref")
    /\ \E written \in BOOLEAN : ref' = [ref EXCEPT ![job[p].o] = written]
    /\ lost' = lost \cup {job[p].o}
    /\ UNCHANGED <<rail, placed, status, fulfillment, checkout, todo, stages, faults>>

LEMMA StoreReferenceSplits ==
    ASSUME NEW p \in Procs, StoreReference(p)
    PROVE  Stored(p) \/ NotStored(p)
  BY DEF StoreReference, Stored, NotStored, ghostVars

LEMMA StoredKeeps ==
    ASSUME IInv, NEW p \in Procs, Stored(p)
    PROVE  IInv'
  <1>1. PICK o \in Orders : o = job[p].o
    BY DEF IInv, Labelled, Stored, At
  <1>2. /\ Finish(p)
        /\ job[p].pc = "store"
        /\ ref' = [ref EXCEPT ![o] = TRUE]
    BY <1>1 DEF Stored, At
  <1>3. /\ job' \in [Procs -> JobType]
        /\ job'[p].pc \in {"idle", "next"} /\ (job'[p].pc = "next" => p = Reconciler)
        /\ \A q \in Procs : q # p => job'[q] = job[q]
    BY <1>2, FinishDoes DEF IInv
  <1>4. UNCHANGED <<rail, placed, status, fulfillment, checkout, todo, stages, lost, faults>>
    BY DEF Stored, orderVars, ghostVars
  <1>5. TypeOK'
    BY <1>1, <1>2, <1>3, <1>4 DEF IInv, TypeOK, JobType
  <1>6. ASSUME NEW q \in Procs
        PROVE  Labelled(q)' /\ Checkout(q)' /\ Carried(q)'
    <2>1. CASE q = p
      BY <1>1, <1>2, <1>3, <1>4, <2>1 DEF IInv, TypeOK, Labelled, Checkout, Carried, Placing
    <2>2. CASE q # p
      BY <1>1, <1>2, <1>3, <1>4, <2>2 DEF IInv, TypeOK, Labelled, Checkout, Carried, OnePlacer, Placing
    <2> QED
      BY <2>1, <2>2
  <1>7. OnePlacer'
    BY <1>1, <1>2, <1>3, <1>4 DEF IInv, OnePlacer, Placing, Labelled, Procs
  <1>8. ASSUME NEW b \in Orders
        PROVE  Accounted(b)'
    <2>1. Accounted(b) /\ Labelled(p) /\ Checkout(p) /\ Carried(p) /\ TypeOK
      BY DEF IInv
    <2>2. ASSUME b # o \/ job[p].pc \notin Placing
          PROVE  BeingPlaced(b) => BeingPlaced(b)'
      BY <1>1, <1>2, <1>3, <1>4, <2>2 DEF BeingPlaced, Placing, Procs
    <2>3. CASE b = o
      BY <1>1, <1>2, <1>3, <1>4, <2>1, <2>2, <2>3 DEF TypeOK, Labelled, Checkout, Carried, Accounted, Finalizable, BeingPlaced, Placing, Kitchen
    <2>4. CASE b # o
      BY <1>1, <1>2, <1>4, <2>1, <2>2, <2>4 DEF TypeOK, Accounted, Finalizable
    <2> QED
      BY <2>3, <2>4
  <1>9. StagesInOrder'
    BY <1>4 DEF IInv, StagesInOrder
  <1> QED
    BY <1>5, <1>6, <1>7, <1>8, <1>9 DEF IInv

LEMMA NotStoredKeeps ==
    ASSUME IInv, NEW p \in Procs, NotStored(p)
    PROVE  IInv'
  <1>1. PICK o \in Orders : o = job[p].o
    BY DEF IInv, Labelled, NotStored, At
  <1>2. PICK l \in {"catch_ref"}, written \in BOOLEAN :
            /\ Goto(p, l)
            /\ job[p].pc = "store"
            /\ ref' = [ref EXCEPT ![o] = written]
            /\ lost' = lost \cup {o}
    BY <1>1 DEF NotStored, At
  <1>3. /\ job' \in [Procs -> JobType]
        /\ job'[p].pc = l /\ job'[p].o = o
        /\ \A q \in Procs : q # p => job'[q] = job[q]
    BY <1>1, <1>2, GotoDoes DEF IInv, PCs, Placing
  <1>4. UNCHANGED <<rail, placed, status, fulfillment, checkout, todo, stages, faults>>
    BY DEF NotStored, orderVars, ghostVars
  <1>5. TypeOK'
    BY <1>1, <1>2, <1>3, <1>4 DEF IInv, TypeOK, JobType
  <1>6. ASSUME NEW q \in Procs
        PROVE  Labelled(q)' /\ Checkout(q)' /\ Carried(q)'
    <2>1. CASE q = p
      BY <1>1, <1>2, <1>3, <1>4, <2>1 DEF IInv, TypeOK, Labelled, Checkout, Carried, Placing
    <2>2. CASE q # p
      BY <1>1, <1>2, <1>3, <1>4, <2>2 DEF IInv, TypeOK, Labelled, Checkout, Carried, OnePlacer, Placing
    <2> QED
      BY <2>1, <2>2
  <1>7. OnePlacer'
    BY <1>1, <1>2, <1>3, <1>4 DEF IInv, OnePlacer, Placing, Labelled, Procs
  <1>8. ASSUME NEW b \in Orders
        PROVE  Accounted(b)'
    <2>1. Accounted(b) /\ Labelled(p) /\ Checkout(p) /\ Carried(p) /\ TypeOK
      BY DEF IInv
    <2>2. ASSUME b # o \/ job[p].pc \notin Placing
          PROVE  BeingPlaced(b) => BeingPlaced(b)'
      BY <1>1, <1>2, <1>3, <1>4, <2>2 DEF BeingPlaced, Placing, Procs
    <2>3. CASE b = o
      BY <1>1, <1>2, <1>3, <1>4, <2>1, <2>2, <2>3 DEF TypeOK, Labelled, Checkout, Carried, Accounted, Finalizable, BeingPlaced, Placing, Kitchen
    <2>4. CASE b # o
      BY <1>1, <1>2, <1>4, <2>1, <2>2, <2>4 DEF TypeOK, Accounted, Finalizable
    <2> QED
      BY <2>3, <2>4
  <1>9. StagesInOrder'
    BY <1>4 DEF IInv, StagesInOrder
  <1> QED
    BY <1>5, <1>6, <1>7, <1>8, <1>9 DEF IInv

LEMMA CatchFailureKeeps ==
    ASSUME IInv, NEW p \in Procs, CatchFailure(p)
    PROVE  IInv'
  <1>1. PICK o \in Orders : o = job[p].o
    BY DEF IInv, Labelled, CatchFailure, At
  <1>2. PICK r \in BOOLEAN :
            /\ Finish(p)
            /\ job[p].pc \in {"catch", "catch_ref"}
            /\ status' = [status EXCEPT ![o] = "FAILED"]
            /\ ref' = [ref EXCEPT ![o] = r]
            /\ ref[o] => r
    <2>1. PICK r \in BOOLEAN : r = (ref[o] \/ job[p].pc = "catch_ref")
      BY DEF IInv, TypeOK
    <2>2. ref' = [ref EXCEPT ![o] = ref[o] \/ job[p].pc = "catch_ref"]
      BY <1>1 DEF CatchFailure, At
    <2>3. ref' = [ref EXCEPT ![o] = r]
      BY <2>1, <2>2
    <2> QED
      BY <1>1, <2>1, <2>3 DEF CatchFailure, At
  <1>3. /\ job' \in [Procs -> JobType]
        /\ job'[p].pc \in {"idle", "next"} /\ (job'[p].pc = "next" => p = Reconciler)
        /\ \A q \in Procs : q # p => job'[q] = job[q]
    BY <1>2, FinishDoes DEF IInv
  <1>4. UNCHANGED <<rail, placed, fulfillment, checkout, todo, stages, lost, faults>>
    BY DEF CatchFailure, orderVars, ghostVars
  <1>5. TypeOK'
    BY <1>1, <1>2, <1>3, <1>4 DEF IInv, TypeOK, JobType
  <1>6. ASSUME NEW q \in Procs
        PROVE  Labelled(q)' /\ Checkout(q)' /\ Carried(q)'
    <2>1. CASE q = p
      BY <1>1, <1>2, <1>3, <1>4, <2>1 DEF IInv, TypeOK, Labelled, Checkout, Carried, Placing
    <2>2. CASE q # p
      BY <1>1, <1>2, <1>3, <1>4, <2>2 DEF IInv, TypeOK, Labelled, Checkout, Carried, OnePlacer, Placing
    <2> QED
      BY <2>1, <2>2
  <1>7. OnePlacer'
    BY <1>1, <1>2, <1>3, <1>4 DEF IInv, OnePlacer, Placing, Labelled, Procs
  <1>8. ASSUME NEW b \in Orders
        PROVE  Accounted(b)'
    <2>1. Accounted(b) /\ Labelled(p) /\ Checkout(p) /\ Carried(p) /\ TypeOK
      BY DEF IInv
    <2>2. ASSUME b # o \/ job[p].pc \notin Placing
          PROVE  BeingPlaced(b) => BeingPlaced(b)'
      BY <1>1, <1>2, <1>3, <1>4, <2>2 DEF BeingPlaced, Placing, Procs
    <2>3. CASE b = o
      BY <1>1, <1>2, <1>3, <1>4, <2>1, <2>2, <2>3 DEF TypeOK, Labelled, Checkout, Carried, Accounted, Finalizable, BeingPlaced, Placing, Kitchen
    <2>4. CASE b # o
      BY <1>1, <1>2, <1>4, <2>1, <2>2, <2>4 DEF TypeOK, Accounted, Finalizable
    <2> QED
      BY <2>3, <2>4
  <1>9. StagesInOrder'
    BY <1>4 DEF IInv, StagesInOrder
  <1> QED
    BY <1>5, <1>6, <1>7, <1>8, <1>9 DEF IInv

LEMMA AskProviderKeeps ==
    ASSUME IInv, NEW p \in Procs, AskProvider(p)
    PROVE  IInv'
  <1>1. PICK o \in Orders : o = job[p].o
    BY DEF IInv, Labelled, AskProvider, At
  <1>2. /\ job[p].pc = "ask"
        /\ \/ Goto(p, "claim") /\ checkout[o] = "paid"
           \/ Goto(p, "fail") /\ checkout[o] \in {"mismatch", "rejected"}
           \/ Finish(p)
    BY <1>1 DEF AskProvider, At
  <1>3. /\ job' \in [Procs -> JobType]
        /\ \/ job'[p].pc = "claim" /\ job'[p].o = o /\ checkout[o] = "paid"
           \/ job'[p].pc = "fail" /\ job'[p].o = o /\ checkout[o] \in {"mismatch", "rejected"}
           \/ job'[p].pc \in {"idle", "next"} /\ (job'[p].pc = "next" => p = Reconciler)
        /\ \A q \in Procs : q # p => job'[q] = job[q]
    <2>1. CASE Goto(p, "claim") /\ checkout[o] = "paid"
      BY <1>1, <2>1, GotoDoes DEF IInv, PCs
    <2>2. CASE Goto(p, "fail") /\ checkout[o] \in {"mismatch", "rejected"}
      BY <1>1, <2>2, GotoDoes DEF IInv, PCs
    <2>3. CASE Finish(p)
      BY <2>3, FinishDoes DEF IInv
    <2> QED
      BY <1>2, <2>1, <2>2, <2>3
  <1>4. UNCHANGED <<rail, placed, status, ref, fulfillment, checkout, todo, stages, lost, faults>>
    BY DEF AskProvider, orderVars, ghostVars
  <1>5. TypeOK'
    BY <1>1, <1>2, <1>3, <1>4 DEF IInv, TypeOK, JobType
  <1>6. ASSUME NEW q \in Procs
        PROVE  Labelled(q)' /\ Checkout(q)' /\ Carried(q)'
    <2>1. CASE q = p
      BY <1>1, <1>2, <1>3, <1>4, <2>1 DEF IInv, TypeOK, Labelled, Checkout, Carried, Placing
    <2>2. CASE q # p
      BY <1>1, <1>2, <1>3, <1>4, <2>2 DEF IInv, TypeOK, Labelled, Checkout, Carried, OnePlacer, Placing
    <2> QED
      BY <2>1, <2>2
  <1>7. OnePlacer'
    BY <1>1, <1>2, <1>3, <1>4 DEF IInv, OnePlacer, Placing, Labelled, Procs
  <1>8. ASSUME NEW b \in Orders
        PROVE  Accounted(b)'
    <2>1. Accounted(b) /\ Labelled(p) /\ Checkout(p) /\ Carried(p) /\ TypeOK
      BY DEF IInv
    <2>2. ASSUME b # o \/ job[p].pc \notin Placing
          PROVE  BeingPlaced(b) => BeingPlaced(b)'
      BY <1>1, <1>2, <1>3, <1>4, <2>2 DEF BeingPlaced, Placing, Procs
    <2>3. CASE b = o
      BY <1>1, <1>2, <1>3, <1>4, <2>1, <2>2, <2>3 DEF TypeOK, Labelled, Checkout, Carried, Accounted, Finalizable, Placing, Kitchen
    <2>4. CASE b # o
      BY <1>1, <1>2, <1>4, <2>1, <2>2, <2>4 DEF TypeOK, Accounted, Finalizable
    <2> QED
      BY <2>3, <2>4
  <1>9. StagesInOrder'
    BY <1>4 DEF IInv, StagesInOrder
  <1> QED
    BY <1>5, <1>6, <1>7, <1>8, <1>9 DEF IInv

LEMMA FailOrderKeeps ==
    ASSUME IInv, NEW p \in Procs, FailOrder(p)
    PROVE  IInv'
  <1>1. PICK o \in Orders : o = job[p].o
    BY DEF IInv, Labelled, FailOrder, At
  <1>2. /\ Finish(p)
        /\ job[p].pc = "fail"
        /\ status' = [status EXCEPT ![o] = "FAILED"]
    BY <1>1 DEF FailOrder, At
  <1>3. /\ job' \in [Procs -> JobType]
        /\ job'[p].pc \in {"idle", "next"} /\ (job'[p].pc = "next" => p = Reconciler)
        /\ \A q \in Procs : q # p => job'[q] = job[q]
    BY <1>2, FinishDoes DEF IInv
  <1>4. UNCHANGED <<rail, placed, ref, fulfillment, checkout, todo, stages, lost, faults>>
    BY DEF FailOrder, orderVars, ghostVars
  <1>5. TypeOK'
    BY <1>1, <1>2, <1>3, <1>4 DEF IInv, TypeOK, JobType
  <1>6. ASSUME NEW q \in Procs
        PROVE  Labelled(q)' /\ Checkout(q)' /\ Carried(q)'
    <2>1. CASE q = p
      BY <1>1, <1>2, <1>3, <1>4, <2>1 DEF IInv, TypeOK, Labelled, Checkout, Carried, Placing
    <2>2. CASE q # p
      BY <1>1, <1>2, <1>3, <1>4, <2>2 DEF IInv, TypeOK, Labelled, Checkout, Carried, OnePlacer, Placing
    <2> QED
      BY <2>1, <2>2
  <1>7. OnePlacer'
    BY <1>1, <1>2, <1>3, <1>4 DEF IInv, OnePlacer, Placing, Labelled, Procs
  <1>8. ASSUME NEW b \in Orders
        PROVE  Accounted(b)'
    <2>1. Accounted(b) /\ Labelled(p) /\ Checkout(p) /\ Carried(p) /\ TypeOK
      BY DEF IInv
    <2>2. ASSUME b # o \/ job[p].pc \notin Placing
          PROVE  BeingPlaced(b) => BeingPlaced(b)'
      BY <1>1, <1>2, <1>3, <1>4, <2>2 DEF BeingPlaced, Placing, Procs
    <2>3. CASE b = o
      BY <1>1, <1>2, <1>3, <1>4, <2>1, <2>2, <2>3 DEF TypeOK, Labelled, Checkout, Carried, Accounted, Finalizable, Placing, Kitchen
    <2>4. CASE b # o
      BY <1>1, <1>2, <1>4, <2>1, <2>2, <2>4 DEF TypeOK, Accounted, Finalizable
    <2> QED
      BY <2>3, <2>4
  <1>9. StagesInOrder'
    BY <1>4 DEF IInv, StagesInOrder
  <1> QED
    BY <1>5, <1>6, <1>7, <1>8, <1>9 DEF IInv

LEMMA ClaimOrderKeeps ==
    ASSUME IInv, NEW p \in Procs, ClaimOrder(p)
    PROVE  IInv'
  <1>1. PICK o \in Orders : o = job[p].o
    BY DEF IInv, Labelled, ClaimOrder, At
  <1>2. /\ Finish(p)
        /\ job[p].pc = "claim"
        /\ IF status[o] = "PENDING" THEN status' = [status EXCEPT ![o] = "COMPLETED"]
           ELSE status' = status
    BY <1>1 DEF ClaimOrder, At
  <1>3. /\ job' \in [Procs -> JobType]
        /\ job'[p].pc \in {"idle", "next"} /\ (job'[p].pc = "next" => p = Reconciler)
        /\ \A q \in Procs : q # p => job'[q] = job[q]
    BY <1>2, FinishDoes DEF IInv
  <1>4. UNCHANGED <<rail, placed, ref, fulfillment, checkout, todo, stages, lost, faults>>
    BY DEF ClaimOrder, orderVars, ghostVars
  <1>5. TypeOK'
    BY <1>1, <1>2, <1>3, <1>4 DEF IInv, TypeOK, JobType
  <1>6. ASSUME NEW q \in Procs
        PROVE  Labelled(q)' /\ Checkout(q)' /\ Carried(q)'
    <2>1. CASE q = p
      BY <1>1, <1>2, <1>3, <1>4, <2>1 DEF IInv, TypeOK, Labelled, Checkout, Carried, Placing
    <2>2. CASE q # p
      BY <1>1, <1>2, <1>3, <1>4, <2>2 DEF IInv, TypeOK, Labelled, Checkout, Carried, OnePlacer, Placing
    <2> QED
      BY <2>1, <2>2
  <1>7. OnePlacer'
    BY <1>1, <1>2, <1>3, <1>4 DEF IInv, OnePlacer, Placing, Labelled, Procs
  <1>8. ASSUME NEW b \in Orders
        PROVE  Accounted(b)'
    <2>1. Accounted(b) /\ Labelled(p) /\ Checkout(p) /\ Carried(p) /\ TypeOK
      BY DEF IInv
    <2>2. ASSUME b # o \/ job[p].pc \notin Placing
          PROVE  BeingPlaced(b) => BeingPlaced(b)'
      BY <1>1, <1>2, <1>3, <1>4, <2>2 DEF BeingPlaced, Placing, Procs
    <2>3. CASE b = o
      BY <1>1, <1>2, <1>3, <1>4, <2>1, <2>2, <2>3 DEF TypeOK, Labelled, Checkout, Carried, Accounted, Finalizable, Placing, Kitchen
    <2>4. CASE b # o
      BY <1>1, <1>2, <1>4, <2>1, <2>2, <2>4 DEF TypeOK, Accounted, Finalizable
    <2> QED
      BY <2>3, <2>4
  <1>9. StagesInOrder'
    BY <1>4 DEF IInv, StagesInOrder
  <1> QED
    BY <1>5, <1>6, <1>7, <1>8, <1>9 DEF IInv

LEMMA SaveStageKeeps ==
    ASSUME IInv, NEW p \in Procs, SaveStage(p)
    PROVE  IInv'
  <1>1. PICK o \in Orders : o = job[p].o
    BY DEF IInv, Labelled, SaveStage, At
  <1>2. PICK n \in Stages :
            /\ Finish(p)
            /\ job[p].pc = "move" /\ n = job[p].to
            /\ fulfillment' = [fulfillment EXCEPT ![o] = n]
            /\ stages' = [stages EXCEPT ![o] = stages[o] \cup {n}]
    BY <1>1 DEF SaveStage, At, IInv, TypeOK
  <1>3. /\ job' \in [Procs -> JobType]
        /\ job'[p].pc \in {"idle", "next"} /\ (job'[p].pc = "next" => p = Reconciler)
        /\ \A q \in Procs : q # p => job'[q] = job[q]
    BY <1>2, FinishDoes DEF IInv
  <1>4. UNCHANGED <<rail, placed, status, ref, checkout, todo, lost, faults>>
    BY DEF SaveStage, orderVars, ghostVars
  <1>5. TypeOK'
    BY <1>1, <1>2, <1>3, <1>4 DEF IInv, TypeOK, JobType
  <1>6. ASSUME NEW q \in Procs
        PROVE  Labelled(q)' /\ Checkout(q)' /\ Carried(q)'
    <2>1. CASE q = p
      BY <1>1, <1>2, <1>3, <1>4, <2>1 DEF IInv, TypeOK, Labelled, Checkout, Carried, Placing
    <2>2. CASE q # p
      BY <1>1, <1>2, <1>3, <1>4, <2>2 DEF IInv, TypeOK, Labelled, Checkout, Carried, OnePlacer, Placing
    <2> QED
      BY <2>1, <2>2
  <1>7. OnePlacer'
    BY <1>1, <1>2, <1>3, <1>4 DEF IInv, OnePlacer, Placing, Labelled, Procs
  <1>8. ASSUME NEW b \in Orders
        PROVE  Accounted(b)'
    <2>1. Accounted(b) /\ Labelled(p) /\ Checkout(p) /\ Carried(p) /\ TypeOK
      BY DEF IInv
    <2>2. ASSUME b # o \/ job[p].pc \notin Placing
          PROVE  BeingPlaced(b) => BeingPlaced(b)'
      BY <1>1, <1>2, <1>3, <1>4, <2>2 DEF BeingPlaced, Placing, Procs
    <2>3. CASE b = o
      BY <1>1, <1>2, <1>3, <1>4, <2>1, <2>2, <2>3 DEF TypeOK, Labelled, Checkout, Carried, Accounted, Finalizable, Placing, Kitchen
    <2>4. CASE b # o
      BY <1>1, <1>2, <1>4, <2>1, <2>2, <2>4 DEF TypeOK, Accounted, Finalizable
    <2> QED
      BY <2>3, <2>4
  <1>9. StagesInOrder'
    <2>1. PICK s \in stages[o] : n \in Transitions[s] /\ s \in Stages
      BY <1>1, <1>2 DEF IInv, TypeOK, Carried
    <2>2. ("collected" = n => s = "ready") /\ ("ready" = n => s = "preparing")
      BY <2>1 DEF Transitions, Stages
    <2> QED
      BY <1>1, <1>2, <2>1, <2>2 DEF IInv, TypeOK, StagesInOrder
  <1> QED
    BY <1>5, <1>6, <1>7, <1>8, <1>9 DEF IInv

LEMMA PlaceOrderKeeps ==
    ASSUME IInv, NEW p \in Procs, NEW o \in Orders, PlaceOrder(p, o)
    PROVE  IInv'
  <1>1. job[p].pc = "idle" /\ p \in Handlers /\ o \notin placed
    BY DEF PlaceOrder, At, Procs
  <1>2. PICK l \in {"create", "pay"} :
            /\ job' = [job EXCEPT ![p] = [IdleJob EXCEPT !.pc = l, !.o = o]]
            /\ placed' = placed \cup {o}
    BY DEF PlaceOrder, IdleJob
  <1>3. /\ job' \in [Procs -> JobType]
        /\ job'[p].pc = l /\ job'[p].o = o
        /\ \A q \in Procs : q # p => job'[q] = job[q]
    <2>1. [IdleJob EXCEPT !.pc = l, !.o = o] \in JobType
      BY <1>2 DEF IdleJob, JobType, PCs, Placing, Stages
    <2>2. [IdleJob EXCEPT !.pc = l, !.o = o].pc = l /\ [IdleJob EXCEPT !.pc = l, !.o = o].o = o
      BY DEF IdleJob
    <2> QED
      BY <1>2, <2>1, <2>2, StartDoes DEF IInv
  <1>4. UNCHANGED <<rail, status, ref, fulfillment, checkout, todo, stages, lost, faults>>
    BY DEF PlaceOrder, orderVars, ghostVars
  <1>5. TypeOK'
    BY <1>1, <1>2, <1>3, <1>4 DEF IInv, TypeOK, JobType
  <1>6. ASSUME NEW q \in Procs
        PROVE  Labelled(q)' /\ Checkout(q)' /\ Carried(q)'
    <2>1. CASE q = p
      BY <1>1, <1>2, <1>3, <1>4, <2>1 DEF IInv, TypeOK, Labelled, Checkout, Carried, Placing, Accounted
    <2>2. CASE q # p
      BY <1>1, <1>2, <1>3, <1>4, <2>2 DEF IInv, TypeOK, Labelled, Checkout, Carried, OnePlacer, Placing
    <2> QED
      BY <2>1, <2>2
  <1>7. OnePlacer'
    BY <1>1, <1>2, <1>3, <1>4 DEF IInv, OnePlacer, Placing, Labelled, Procs
  <1>8. ASSUME NEW b \in Orders
        PROVE  Accounted(b)'
    <2>1. Accounted(b) /\ Labelled(p) /\ Checkout(p) /\ Carried(p) /\ TypeOK
      BY DEF IInv
    <2>2. ASSUME b # o \/ job[p].pc \notin Placing
          PROVE  BeingPlaced(b) => BeingPlaced(b)'
      BY <1>1, <1>2, <1>3, <1>4, <2>2 DEF BeingPlaced, Placing, Procs
    <2>3. CASE b = o
      BY <1>1, <1>2, <1>3, <1>4, <2>1, <2>2, <2>3 DEF TypeOK, Labelled, Checkout, Carried, Accounted, Finalizable, BeingPlaced, Placing, Kitchen
    <2>4. CASE b # o
      BY <1>1, <1>2, <1>4, <2>1, <2>2, <2>4 DEF TypeOK, Accounted, Finalizable
    <2> QED
      BY <2>3, <2>4
  <1>9. StagesInOrder'
    BY <1>4 DEF IInv, StagesInOrder
  <1> QED
    BY <1>5, <1>6, <1>7, <1>8, <1>9 DEF IInv

LEMMA PollKeeps ==
    ASSUME IInv, NEW p \in Procs, NEW o \in Orders, Poll(p, o)
    PROVE  IInv'
  <1>1. job[p].pc = "idle" /\ p \in Handlers /\ Finalizable(o)
    BY DEF Poll, At, Procs
  <1>2. PICK l \in {"ask"} : job' = [job EXCEPT ![p] = [IdleJob EXCEPT !.pc = l, !.o = o]]
    BY DEF Poll
  <1>3. /\ job' \in [Procs -> JobType]
        /\ job'[p].pc = l /\ job'[p].o = o
        /\ \A q \in Procs : q # p => job'[q] = job[q]
    <2>1. [IdleJob EXCEPT !.pc = l, !.o = o] \in JobType
      BY <1>2 DEF IdleJob, JobType, PCs, Placing, Stages
    <2>2. [IdleJob EXCEPT !.pc = l, !.o = o].pc = l /\ [IdleJob EXCEPT !.pc = l, !.o = o].o = o
      BY DEF IdleJob
    <2> QED
      BY <1>2, <2>1, <2>2, StartDoes DEF IInv
  <1>4. UNCHANGED <<rail, placed, status, ref, fulfillment, checkout, todo, stages, lost, faults>>
    BY DEF Poll, orderVars, ghostVars
  <1>5. TypeOK'
    BY <1>1, <1>2, <1>3, <1>4 DEF IInv, TypeOK, JobType
  <1>6. ASSUME NEW q \in Procs
        PROVE  Labelled(q)' /\ Checkout(q)' /\ Carried(q)'
    <2>1. CASE q = p
      BY <1>1, <1>2, <1>3, <1>4, <2>1 DEF IInv, TypeOK, Labelled, Checkout, Carried, Placing, Finalizable
    <2>2. CASE q # p
      BY <1>1, <1>2, <1>3, <1>4, <2>2 DEF IInv, TypeOK, Labelled, Checkout, Carried, OnePlacer, Placing
    <2> QED
      BY <2>1, <2>2
  <1>7. OnePlacer'
    BY <1>1, <1>2, <1>3, <1>4 DEF IInv, OnePlacer, Placing, Labelled, Procs
  <1>8. ASSUME NEW b \in Orders
        PROVE  Accounted(b)'
    <2>1. Accounted(b) /\ Labelled(p) /\ Checkout(p) /\ Carried(p) /\ TypeOK
      BY DEF IInv
    <2>2. ASSUME b # o \/ job[p].pc \notin Placing
          PROVE  BeingPlaced(b) => BeingPlaced(b)'
      BY <1>1, <1>2, <1>3, <1>4, <2>2 DEF BeingPlaced, Placing, Procs
    <2>3. CASE b = o
      BY <1>1, <1>2, <1>3, <1>4, <2>1, <2>2, <2>3 DEF TypeOK, Labelled, Checkout, Carried, Accounted, Finalizable, Placing, Kitchen
    <2>4. CASE b # o
      BY <1>1, <1>2, <1>4, <2>1, <2>2, <2>4 DEF TypeOK, Accounted, Finalizable
    <2> QED
      BY <2>3, <2>4
  <1>9. StagesInOrder'
    BY <1>4 DEF IInv, StagesInOrder
  <1> QED
    BY <1>5, <1>6, <1>7, <1>8, <1>9 DEF IInv

LEMMA ReadOrderKeeps ==
    ASSUME IInv, NEW p \in Procs, NEW o \in Orders, NEW n \in Stages, ReadOrder(p, o, n)
    PROVE  IInv'
  <1>1. job[p].pc = "idle" /\ p \in Handlers
    BY DEF ReadOrder, At, Procs
  <1>2. /\ job' = [job EXCEPT ![p] = [IdleJob EXCEPT !.pc = "move", !.o = o, !.to = n]]
        /\ n \in Transitions[fulfillment[o]]
        /\ n \in Kitchen => status[o] = "COMPLETED"
    BY DEF ReadOrder, Allowed, Kitchen
  <1>3. /\ job' \in [Procs -> JobType]
        /\ job'[p].pc = "move" /\ job'[p].o = o /\ job'[p].to = n
        /\ \A q \in Procs : q # p => job'[q] = job[q]
    <2> DEFINE j == [IdleJob EXCEPT !.pc = "move", !.o = o, !.to = n]
    <2>1. j \in JobType /\ j.pc = "move" /\ j.o = o /\ j.to = n
      BY DEF IdleJob, JobType, PCs, Placing
    <2> QED
      BY <1>2, <2>1, StartDoes DEF IInv
  <1>4. UNCHANGED <<rail, placed, status, ref, fulfillment, checkout, todo, stages, lost, faults>>
    BY DEF ReadOrder, orderVars, ghostVars
  <1>5. TypeOK'
    BY <1>1, <1>2, <1>3, <1>4 DEF IInv, TypeOK, JobType
  <1>6. ASSUME NEW q \in Procs
        PROVE  Labelled(q)' /\ Checkout(q)' /\ Carried(q)'
    <2>1. CASE q = p
      BY <1>1, <1>2, <1>3, <1>4, <2>1 DEF IInv, TypeOK, Labelled, Checkout, Carried, Placing, Accounted
    <2>2. CASE q # p
      BY <1>1, <1>2, <1>3, <1>4, <2>2 DEF IInv, TypeOK, Labelled, Checkout, Carried, OnePlacer, Placing
    <2> QED
      BY <2>1, <2>2
  <1>7. OnePlacer'
    BY <1>1, <1>2, <1>3, <1>4 DEF IInv, OnePlacer, Placing, Labelled, Procs
  <1>8. ASSUME NEW b \in Orders
        PROVE  Accounted(b)'
    <2>1. Accounted(b) /\ Labelled(p) /\ Checkout(p) /\ Carried(p) /\ TypeOK
      BY DEF IInv
    <2>2. ASSUME b # o \/ job[p].pc \notin Placing
          PROVE  BeingPlaced(b) => BeingPlaced(b)'
      BY <1>1, <1>2, <1>3, <1>4, <2>2 DEF BeingPlaced, Placing, Procs
    <2>3. CASE b = o
      BY <1>1, <1>2, <1>3, <1>4, <2>1, <2>2, <2>3 DEF TypeOK, Labelled, Checkout, Carried, Accounted, Finalizable, Placing, Kitchen
    <2>4. CASE b # o
      BY <1>1, <1>2, <1>4, <2>1, <2>2, <2>4 DEF TypeOK, Accounted, Finalizable
    <2> QED
      BY <2>3, <2>4
  <1>9. StagesInOrder'
    BY <1>4 DEF IInv, StagesInOrder
  <1> QED
    BY <1>5, <1>6, <1>7, <1>8, <1>9 DEF IInv

LEMMA AbortKeeps ==
    ASSUME IInv, NEW p \in Procs, Abort(p)
    PROVE  IInv'
  <1>1. PICK o \in Orders : o = job[p].o
    BY DEF IInv, Labelled, Abort, At
  <1>2. /\ Finish(p)
        /\ job[p].pc \notin {"idle", "next"}
        /\ faults' = faults + 1
        /\ lost' = IF job[p].pc \in Placing THEN lost \cup {o} ELSE lost
    BY <1>1 DEF Abort, At
  <1>3. /\ job' \in [Procs -> JobType]
        /\ job'[p].pc \in {"idle", "next"} /\ (job'[p].pc = "next" => p = Reconciler)
        /\ \A q \in Procs : q # p => job'[q] = job[q]
    BY <1>2, FinishDoes DEF IInv
  <1>4. UNCHANGED <<rail, placed, status, ref, fulfillment, checkout, todo, stages>>
    BY DEF Abort, orderVars, ghostVars
  <1>5. TypeOK'
    BY <1>1, <1>2, <1>3, <1>4 DEF IInv, TypeOK, JobType
  <1>6. ASSUME NEW q \in Procs
        PROVE  Labelled(q)' /\ Checkout(q)' /\ Carried(q)'
    <2>1. CASE q = p
      BY <1>1, <1>2, <1>3, <1>4, <2>1 DEF IInv, TypeOK, Labelled, Checkout, Carried, Placing
    <2>2. CASE q # p
      BY <1>1, <1>2, <1>3, <1>4, <2>2 DEF IInv, TypeOK, Labelled, Checkout, Carried, OnePlacer, Placing
    <2> QED
      BY <2>1, <2>2
  <1>7. OnePlacer'
    BY <1>1, <1>2, <1>3, <1>4 DEF IInv, OnePlacer, Placing, Labelled, Procs
  <1>8. ASSUME NEW b \in Orders
        PROVE  Accounted(b)'
    <2>1. Accounted(b) /\ Labelled(p) /\ Checkout(p) /\ Carried(p) /\ TypeOK
      BY DEF IInv
    <2>2. ASSUME b # o \/ job[p].pc \notin Placing
          PROVE  BeingPlaced(b) => BeingPlaced(b)'
      BY <1>1, <1>2, <1>3, <1>4, <2>2 DEF BeingPlaced, Placing, Procs
    <2>3. CASE b = o
      BY <1>1, <1>2, <1>3, <1>4, <2>1, <2>2, <2>3 DEF TypeOK, Labelled, Checkout, Carried, Accounted, Finalizable, BeingPlaced, Placing, Kitchen
    <2>4. CASE b # o
      BY <1>1, <1>2, <1>4, <2>1, <2>2, <2>4 DEF TypeOK, Accounted, Finalizable
    <2> QED
      BY <2>3, <2>4
  <1>9. StagesInOrder'
    BY <1>4 DEF IInv, StagesInOrder
  <1> QED
    BY <1>5, <1>6, <1>7, <1>8, <1>9 DEF IInv

LEMMA StartReconcileKeeps ==
    ASSUME IInv, StartReconcile
    PROVE  IInv'
  <1> DEFINE p == Reconciler
  <1>1. p \in Procs /\ job[p].pc = "idle" /\ todo' \subseteq Orders
    BY DEF StartReconcile, At, Procs
  <1>2. Goto(p, "next")
    BY DEF StartReconcile
  <1>3. /\ job' \in [Procs -> JobType]
        /\ job'[p].pc = "next"
        /\ \A q \in Procs : q # p => job'[q] = job[q]
    BY <1>1, <1>2, GotoDoes DEF IInv, PCs
  <1>4. UNCHANGED <<rail, placed, status, ref, fulfillment, checkout, stages, lost, faults>>
    BY DEF StartReconcile, orderVars, ghostVars
  <1> HIDE DEF p
  <1>10. p = Reconciler
    BY DEF p
  <1>5. TypeOK'
    BY <1>1, <1>2, <1>3, <1>4 DEF IInv, TypeOK, JobType
  <1>6. ASSUME NEW q \in Procs
        PROVE  Labelled(q)' /\ Checkout(q)' /\ Carried(q)'
    <2>1. CASE q = p
      BY <1>1, <1>3, <1>4, <1>10, <2>1 DEF IInv, TypeOK, Labelled, Checkout, Carried, Placing
    <2>2. CASE q # p
      BY <1>1, <1>2, <1>3, <1>4, <2>2 DEF IInv, TypeOK, Labelled, Checkout, Carried, OnePlacer, Placing
    <2> QED
      BY <2>1, <2>2
  <1>7. OnePlacer'
    BY <1>1, <1>2, <1>3, <1>4 DEF IInv, OnePlacer, Placing, Labelled, Procs
  <1>8. ASSUME NEW b \in Orders
        PROVE  Accounted(b)'
    <2>1. BeingPlaced(b) => BeingPlaced(b)'
      BY <1>1, <1>3 DEF BeingPlaced, Placing, Procs
    <2> QED
      BY <1>4, <2>1 DEF IInv, Accounted, Finalizable
  <1>9. StagesInOrder'
    BY <1>4 DEF IInv, StagesInOrder
  <1> QED
    BY <1>5, <1>6, <1>7, <1>8, <1>9 DEF IInv

LEMMA NextOrderKeeps ==
    ASSUME IInv, NextOrder
    PROVE  IInv'
  <1> DEFINE p == Reconciler
  <1>1. p \in Procs /\ job[p].pc = "next"
    BY DEF NextOrder, At, Procs
  <1>2. PICK o \in todo :
            /\ todo' = todo \ {o}
            /\ job' = [job EXCEPT ![p] =
                 IF Finalizable(o) THEN [IdleJob EXCEPT !.pc = "ask", !.o = o]
                 ELSE [IdleJob EXCEPT !.pc = IF todo' = {} THEN "idle" ELSE "next"]]
    BY DEF NextOrder
  <1>3. /\ job' \in [Procs -> JobType]
        /\ todo' \subseteq Orders /\ o \in Orders
        /\ \/ job'[p].pc = "ask" /\ job'[p].o = o /\ Finalizable(o)
           \/ job'[p].pc \in {"idle", "next"}
        /\ \A q \in Procs : q # p => job'[q] = job[q]
    <2>1. todo' \subseteq Orders /\ o \in Orders
      BY <1>2 DEF IInv, TypeOK
    <2>2. CASE Finalizable(o)
      <3> DEFINE j == [IdleJob EXCEPT !.pc = "ask", !.o = o]
      <3>1. j \in JobType /\ j.pc = "ask" /\ j.o = o
        BY <2>1 DEF IdleJob, JobType, PCs, Stages
      <3>2. job' = [job EXCEPT ![p] = j]
        BY <1>2, <2>2
      <3> HIDE DEF j
      <3> QED
        BY <1>1, <2>1, <2>2, <3>1, <3>2, StartDoes DEF IInv
    <2>3. CASE ~Finalizable(o)
      <3>1. PICK l \in {"idle", "next"} : l = IF todo' = {} THEN "idle" ELSE "next"
        OBVIOUS
      <3> DEFINE j == [IdleJob EXCEPT !.pc = l]
      <3>2. j \in JobType /\ j.pc = l
        BY DEF IdleJob, JobType, PCs, Stages
      <3>3. job' = [job EXCEPT ![p] = j]
        BY <1>2, <2>3, <3>1
      <3> HIDE DEF j
      <3> QED
        BY <1>1, <2>1, <3>2, <3>3, StartDoes DEF IInv
    <2> QED
      BY <2>2, <2>3
  <1>4. UNCHANGED <<rail, placed, status, ref, fulfillment, checkout, stages, lost, faults>>
    BY DEF NextOrder, orderVars, ghostVars
  <1> HIDE DEF p
  <1>10. p = Reconciler
    BY DEF p
  <1>5. TypeOK'
    BY <1>1, <1>2, <1>3, <1>4 DEF IInv, TypeOK, JobType
  <1>6. ASSUME NEW q \in Procs
        PROVE  Labelled(q)' /\ Checkout(q)' /\ Carried(q)'
    <2>1. CASE q = p
      BY <1>1, <1>3, <1>4, <1>10, <2>1 DEF IInv, TypeOK, Labelled, Checkout, Carried, Placing, Finalizable
    <2>2. CASE q # p
      BY <1>1, <1>2, <1>3, <1>4, <2>2 DEF IInv, TypeOK, Labelled, Checkout, Carried, OnePlacer, Placing
    <2> QED
      BY <2>1, <2>2
  <1>7. OnePlacer'
    BY <1>1, <1>2, <1>3, <1>4 DEF IInv, OnePlacer, Placing, Labelled, Procs
  <1>8. ASSUME NEW b \in Orders
        PROVE  Accounted(b)'
    <2>1. BeingPlaced(b) => BeingPlaced(b)'
      BY <1>1, <1>3 DEF BeingPlaced, Placing, Procs
    <2> QED
      BY <1>4, <2>1 DEF IInv, Accounted, Finalizable
  <1>9. StagesInOrder'
    BY <1>4 DEF IInv, StagesInOrder
  <1> QED
    BY <1>5, <1>6, <1>7, <1>8, <1>9 DEF IInv

LEMMA ResolveKeeps ==
    ASSUME IInv, NEW o \in Orders, Resolve(o)
    PROVE  IInv'
  <1>1. PICK c \in {"paid", "mismatch", "rejected"} : checkout' = [checkout EXCEPT ![o] = c]
    BY DEF Resolve
  <1>2. checkout[o] = "open"
    BY DEF Resolve
  <1>3. UNCHANGED <<rail, placed, status, ref, fulfillment, job, todo, stages, lost, faults>>
    BY DEF Resolve, orderVars, ghostVars
  <1>4. TypeOK'
    BY <1>1, <1>3 DEF IInv, TypeOK
  <1>5. ASSUME NEW q \in Procs
        PROVE  Labelled(q)' /\ Checkout(q)' /\ Carried(q)'
    BY <1>1, <1>2, <1>3 DEF IInv, TypeOK, Labelled, Checkout, Carried
  <1>6. OnePlacer' /\ StagesInOrder'
    BY <1>3 DEF IInv, OnePlacer, StagesInOrder
  <1>7. ASSUME NEW b \in Orders
        PROVE  Accounted(b)'
    <2>1. BeingPlaced(b)' = BeingPlaced(b)
      BY <1>3 DEF BeingPlaced
    <2> QED
      BY <1>1, <1>2, <1>3, <2>1 DEF IInv, TypeOK, Accounted, Finalizable
  <1> QED
    BY <1>4, <1>5, <1>6, <1>7 DEF IInv

-----------------------------------------------------------------------------
(* The invariant and what follows from it.                                 *)

LEMMA InitIInv == Init => IInv
  <1> SUFFICES ASSUME Init PROVE IInv
    OBVIOUS
  <1>1. IdleJob \in JobType
    BY DEF IdleJob, JobType, PCs, Stages
  <1>2. \A p \in Procs : job[p] = IdleJob
    BY DEF Init
  <1>3. TypeOK
    BY <1>1, OrdersAssumption DEF Init, TypeOK, JobType, Stages
  <1>4. \A p \in Procs : Labelled(p) /\ Checkout(p) /\ Carried(p)
    BY <1>2 DEF Labelled, Checkout, Carried, Placing, IdleJob
  <1>5. OnePlacer
    BY <1>2 DEF OnePlacer, Placing, IdleJob, Procs
  <1>6. \A o \in Orders : Accounted(o)
    BY DEF Init, Accounted, Kitchen
  <1>7. StagesInOrder
    BY DEF Init, StagesInOrder
  <1> QED
    BY <1>3, <1>4, <1>5, <1>6, <1>7 DEF IInv

\* A step that changes nothing.
LEMMA StutterKeeps == ASSUME IInv, UNCHANGED vars PROVE IInv'
  <1>1. UNCHANGED <<rail, placed, status, ref, fulfillment, checkout, job, todo, stages, lost, faults>>
    BY DEF vars, orderVars, ghostVars
  <1> QED
    BY <1>1 DEF IInv, TypeOK, Labelled, Checkout, Carried, OnePlacer, Accounted,
                Finalizable, BeingPlaced, StagesInOrder

LEMMA NextIInv == IInv /\ [Next]_vars => IInv'
  <1> SUFFICES ASSUME IInv, [Next]_vars PROVE IInv'
    OBVIOUS
  <1>1. ASSUME NEW p \in Handlers, NEW o \in Orders,
               \/ PlaceOrder(p, o) \/ Poll(p, o) \/ Callback(p, o)
               \/ \E n \in Stages : ReadOrder(p, o, n)
        PROVE  IInv'
    <2>1. p \in Procs
      BY DEF Procs
    <2>2. CASE PlaceOrder(p, o)
      BY <2>1, <2>2, PlaceOrderKeeps
    <2>3. CASE Poll(p, o) \/ Callback(p, o)
      BY <2>1, <2>3, PollKeeps DEF Callback
    <2>4. CASE \E n \in Stages : ReadOrder(p, o, n)
      BY <2>1, <2>4, ReadOrderKeeps
    <2> QED
      BY <1>1, <2>2, <2>3, <2>4
  <1>2. ASSUME NEW p \in Procs, Step(p)
        PROVE  IInv'
    <2>1. CASE StoreReference(p)
      BY <2>1, StoreReferenceSplits, StoredKeeps, NotStoredKeeps
    <2>2. CASE Finalize(p)
      BY <2>2, AskProviderKeeps, FailOrderKeeps, ClaimOrderKeeps DEF Finalize
    <2>3. CASE \/ AcceptPayment(p) \/ SaveOutcome(p) \/ CreateOrder(p) \/ RequestToPay(p)
               \/ CatchFailure(p) \/ SaveStage(p)
      BY <2>3, AcceptPaymentKeeps, SaveOutcomeKeeps, CreateOrderKeeps, RequestToPayKeeps,
         CatchFailureKeeps, SaveStageKeeps
    <2> QED
      BY <1>2, <2>1, <2>2, <2>3 DEF Step
  <1>3. ASSUME NEW p \in Procs, Abort(p)
        PROVE  IInv'
    BY <1>3, AbortKeeps
  <1>4. ASSUME NEW o \in Orders, Resolve(o)
        PROVE  IInv'
    BY <1>4, ResolveKeeps
  <1>5. CASE UNCHANGED vars
    BY <1>5, StutterKeeps
  <1> QED
    BY <1>1, <1>2, <1>3, <1>4, <1>5, StartReconcileKeeps, NextOrderKeeps DEF Next

\* Whatever handlers, job and staff do, IInv holds.
THEOREM Invariance == Spec => []IInv
  BY InitIInv, NextIInv, PTL DEF Spec

\* The type invariant.
THEOREM TypeCorrect == Spec => []TypeOK
  <1>1. IInv => TypeOK
    BY DEF IInv
  <1> QED
    BY <1>1, Invariance, PTL

\* Money and orders agree for any orders, handlers and faults: nothing is taken
\* for paid that was not, and a payment made is on record, can be found by its
\* reference, or belongs to a checkout that is under way or was cut short.
THEOREM MoneyMet == Spec => []MoneyMeetsOrder
  <1>1. IInv => MoneyMeetsOrder
    BY DEF IInv, Accounted, MoneyMeetsOrder
  <1> QED
    BY <1>1, Invariance, PTL

\* No order skips a stage, though staff judge their moves on stale reads.
THEOREM StagesKept == Spec => []StagesInOrder
  <1>1. IInv => StagesInOrder
    BY DEF IInv
  <1> QED
    BY <1>1, Invariance, PTL
=============================================================================
