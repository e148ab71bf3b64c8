-------------------------- MODULE TicketSalesProofs --------------------------
(***************************************************************************)
(* Proofs about TicketSales: the inductive invariant IInv, and from it the *)
(* type invariant, NoDoubleMint, MintOnlyPaid and SettledIsFinal; then,    *)
(* relative to it, QInv, with QuietSalesAreWhole and YocoFailsOnEvidence,  *)
(* and the implementation of SalePromise;                                  *)
(* then, for a server that takes one request at a time, SInv, which keeps  *)
(* the tier's counters against its places, with CountersExact, and OInv,   *)
(* which keeps room for every claim on a place, with NoOversell.           *)
(***************************************************************************)
EXTENDS TicketSales, FiniteSetTheorems, TLAPS

(* The labels of a request that is creating its sale.                      *)
InitPCs == {"create", "res_read", "res_write", "res_create", "provider", "store"}
HoldPCs == {"find", "hold_read", "hold_write", "hold_save"}

(* The one request a sale exists through until its buyer is sent to pay:   *)
(* initiating it, failing it because the provider call or the save of its  *)
(* reference threw, or selling it synchronously.                           *)
Creating(j) ==
    \/ j.pc \in InitPCs
    \/ j.goal = "release" /\ j.ans = "none"
    \/ j.goal = "sell"

(* What a process that works on a sale knows of it.                        *)
JobOK(j) ==
    /\ j.sale = NoSale => j.pc \in {"idle", "next"} /\ j.goal = "none" /\ j.ans = "none"
    /\ j.sale # NoSale =>
        /\ j.pc \notin {"idle", "next"}
        /\ j.goal # "sell" => rail[j.sale] # "CASH"
        /\ j.goal = "sell" =>
             /\ rail[j.sale] = "CASH" /\ status[j.sale] = "none"
             /\ j.pc \in {"sold_read", "sold_write", "commit"}
        /\ j.pc = "commit" => j.goal = "sell"
        /\ j.pc \in InitPCs => j.goal = "none" /\ j.ans = "none" /\ ~ref[j.sale]
        /\ j.pc \in InitPCs \ {"store"} => checkout[j.sale] = "none"
        /\ j.pc = "store" => checkout[j.sale] # "none"
        /\ j.pc = "create" => status[j.sale] = "none"
        /\ j.pc # "create" /\ j.goal # "sell" => status[j.sale] # "none"
        /\ j.pc \in {"load", "query", "ask"} => j.goal = "none" /\ ref[j.sale]
        /\ j.pc = "query" => rail[j.sale] = "YEBOPAY"
        /\ j.pc = "ask" => rail[j.sale] \in Polled
        /\ j.pc = "load" /\ rail[j.sale] \notin Polled => j.ans # "none"
        /\ j.ans = "success" => checkout[j.sale] = "paid"
        /\ j.pc \in {"claim", "mint"} =>
             j.goal = "confirm" /\ j.ans = "success" /\ ref[j.sale]
        /\ j.pc \in {"load", "query", "ask", "claim"} => j.n = 0
        /\ j.pc = "mint" =>
             /\ status[j.sale] # "PENDING"
             /\ minted[j.sale] = j.n /\ j.n < Qty[j.sale]
        /\ j.pc \in HoldPCs => j.goal \in {"confirm", "release", "sweep"}
        /\ j.pc = "fail" => j.goal = "release"
        /\ j.pc = "sweep_fail" => j.goal = "sweep"
        /\ j.goal = "release" /\ j.ans = "none" => j.sale \notin sent
        /\ j.goal = "release" /\ j.ans # "none" => ref[j.sale]
        /\ j.goal = "release" /\ j.ans # "none" /\ rail[j.sale] \in Polled
             => checkout[j.sale] \in {"mismatch", "rejected"}

SaleOK(s) ==
    /\ status[s] = "none" =>
         ~ref[s] /\ hold[s] = "none" /\ checkout[s] = "none" /\ minted[s] = 0
    /\ s \in sent => ref[s]
    /\ status[s] = "PENDING" => minted[s] = 0
    /\ status[s] = "COMPLETED" /\ rail[s] # "CASH" => checkout[s] = "paid" /\ ref[s]
    /\ rail[s] = "CASH" => status[s] \in {"none", "COMPLETED"} /\ hold[s] = "none" /\ ~ref[s]
    /\ minted[s] <= Qty[s]
    /\ minted[s] > 0 /\ rail[s] # "CASH" => checkout[s] = "paid"
    /\ "success" \in posted[s] => checkout[s] = "paid"

ListOK(p) ==
    /\ p \in Handlers => todo[p] = {}
    /\ \A s \in todo[p] :
         /\ status[s] # "none" /\ rail[s] # "CASH"
         /\ p # Sweeper => rail[s] = p /\ ref[s]

OneCreator ==
    \A p, q \in Procs :
        /\ job[p].sale = job[q].sale /\ job[p].sale # NoSale
        /\ Creating(job[p]) /\ Creating(job[q])
        => p = q

OneMinter ==
    \A p, q \in Procs :
        job[p].sale = job[q].sale /\ At(p, "mint") /\ At(q, "mint") => p = q

IInv ==
    /\ TypeOK
    /\ \A p \in Procs : JobOK(job[p])
    /\ \A s \in Sales : SaleOK(s)
    /\ \A p \in Procs : ListOK(p)
    /\ OneCreator
    /\ OneMinter

-----------------------------------------------------------------------------
(* A process that is not idle works on a sale.                             *)
LEMMA WorkingSale ==
    ASSUME IInv, NEW p \in Procs, job[p].pc \notin {"idle", "next"}
    PROVE  job[p].sale \in Sales
BY DEF IInv, TypeOK, Job, JobOK

(* The records a step leaves behind are jobs.                              *)
LEMMA IdleIsJob == IdleJob \in Job /\ NoDoc \in Tier
BY DEF IdleJob, NoDoc, Job, Tier, PCs

LEMMA JobFields ==
    ASSUME NEW x \in Job
    PROVE  /\ \A l \in PCs : [x EXCEPT !.pc = l] \in Job
           /\ \A s \in Sales : [x EXCEPT !.sale = s] \in Job
           /\ \A g \in {"none", "confirm", "release", "sweep", "sell"} :
                [x EXCEPT !.goal = g] \in Job
           /\ \A a \in Answers : [x EXCEPT !.ans = a] \in Job
           /\ \A d \in Tier : [x EXCEPT !.doc = d] \in Job
           /\ \A n \in Nat : [x EXCEPT !.n = n] \in Job
           /\ [x EXCEPT !.dirty = TRUE] \in Job
BY DEF Job

(* A process at rest is in order, whatever the sales are.                  *)
LEMMA RestingJob ==
    ASSUME NEW p \in Procs
    PROVE  LET r == [IdleJob EXCEPT !.pc = IF todo[p] = {} THEN "idle" ELSE "next"]
           IN  /\ r \in Job /\ r.sale = NoSale
               /\ JobOK(r) /\ JobOK(r)'
               /\ ~Creating(r) /\ r.pc # "mint"
<1> DEFINE r == [IdleJob EXCEPT !.pc = IF todo[p] = {} THEN "idle" ELSE "next"]
<1>1. r \in Job
  BY IdleIsJob, JobFields DEF PCs
<1>2. r.sale = NoSale /\ r.goal = "none" /\ r.ans = "none" /\ r.pc \in {"idle", "next"}
  BY DEF IdleJob
<1> QED
  BY <1>1, <1>2 DEF JobOK, Creating, InitPCs

(* What Finish leaves behind.                                              *)
LEMMA FinishedJob ==
    ASSUME NEW p \in Procs, Finish(p)
    PROVE  \E r \in Job : /\ job' = [job EXCEPT ![p] = r]
                          /\ JobOK(r) /\ JobOK(r)' /\ ~Creating(r) /\ r.pc # "mint"
<1>1. PICK r \in Job :
        r = [IdleJob EXCEPT !.pc = IF todo[p] = {} THEN "idle" ELSE "next"]
  BY RestingJob
<1>2. r.sale = NoSale /\ JobOK(r) /\ ~Creating(r) /\ r.pc # "mint"
  BY <1>1, RestingJob
<1>3. JobOK(r)'
  BY <1>2 DEF JobOK
<1> QED
  BY <1>1, <1>2, <1>3 DEF Finish

(* A step that moves one process keeps the invariant if it leaves every    *)
(* process and every sale in order and the process becomes neither a       *)
(* second creator nor a second minter of its sale.                         *)
LEMMA MoveStep ==
    ASSUME IInv, NEW p \in Procs, NEW r \in Job,
           job' = [job EXCEPT ![p] = r],
           job' \in [Procs -> Job] => TypeOK',
           JobOK(r)',
           \A q \in Procs : q # p => JobOK(job[q])',
           \A s \in Sales : SaleOK(s)',
           \A q \in Procs : ListOK(q)',
           Creating(r) => \/ Creating(job[p]) /\ r.sale = job[p].sale
                          \/ \A q \in Procs : job[q].sale # r.sale,
           r.pc = "mint" => \/ job[p].pc = "mint" /\ r.sale = job[p].sale
                            \/ \A q \in Procs : job[q].sale = r.sale => ~At(q, "mint")
    PROVE  IInv'
<1>1. job \in [Procs -> Job]
  BY DEF IInv, TypeOK
<1>2. job' \in [Procs -> Job]
  BY <1>1
<1>3. job'[p] = r /\ \A q \in Procs : q # p => job'[q] = job[q]
  BY <1>1
<1>4. TypeOK'
  BY <1>2
<1>5. ASSUME NEW q \in Procs PROVE JobOK(job[q])'
  <2>1. CASE q = p
    BY <2>1, <1>3 DEF JobOK
  <2>2. CASE q # p
    BY <2>2
  <2> QED
    BY <2>1, <2>2
<1>7. OneCreator'
  <2> SUFFICES ASSUME NEW q1 \in Procs, NEW q2 \in Procs,
                      job'[q1].sale = job'[q2].sale, job'[q1].sale # NoSale,
                      Creating(job'[q1]), Creating(job'[q2])
               PROVE  q1 = q2
    BY DEF OneCreator, Creating
  <2> QED
    BY <1>3 DEF IInv, OneCreator
<1>8. OneMinter'
  <2> SUFFICES ASSUME NEW q1 \in Procs, NEW q2 \in Procs,
                      job'[q1].sale = job'[q2].sale,
                      job'[q1].pc = "mint", job'[q2].pc = "mint"
               PROVE  q1 = q2
    BY DEF OneMinter, At
  <2> QED
    BY <1>3 DEF IInv, OneMinter, At
<1> QED
  BY <1>4, <1>5, <1>7, <1>8 DEF IInv

(* So does a step that leaves the sales as they are ...                    *)
LEMMA QuietStep ==
    ASSUME IInv, NEW p \in Procs, NEW r \in Job,
           job' = [job EXCEPT ![p] = r],
           UNCHANGED <<saleVars, holdVars, payVars>>,
           tier' \in Tier, faults' \in Nat,
           todo' \in [Procs -> SUBSET Sales],
           \A q \in Procs : ListOK(q)',
           JobOK(r),
           Creating(r) => \/ Creating(job[p]) /\ r.sale = job[p].sale
                          \/ \A q \in Procs : job[q].sale # r.sale,
           r.pc = "mint" => job[p].pc = "mint" /\ r.sale = job[p].sale
    PROVE  IInv'
<1> USE DEF saleVars, holdVars, payVars
<1>1. job' \in [Procs -> Job] => TypeOK'
  BY DEF IInv, TypeOK
<1>2. JobOK(r)'
  BY DEF JobOK
<1>3. ASSUME NEW q \in Procs, q # p PROVE JobOK(job[q])'
  <2>1. job'[q] = job[q] /\ JobOK(job[q])
    BY <1>3 DEF IInv, TypeOK
  <2> QED
    BY <2>1 DEF JobOK
<1>4. ASSUME NEW s \in Sales PROVE SaleOK(s)'
  BY DEF IInv, SaleOK
<1> QED
  BY <1>1, <1>2, <1>3, <1>4, MoveStep

(* ... and the lists.                                                      *)
LEMMA LocalStep ==
    ASSUME IInv, NEW p \in Procs, NEW r \in Job,
           job' = [job EXCEPT ![p] = r],
           UNCHANGED <<saleVars, holdVars, payVars, todo, faults>>,
           tier' \in Tier,
           JobOK(r),
           Creating(r) => \/ Creating(job[p]) /\ r.sale = job[p].sale
                          \/ \A q \in Procs : job[q].sale # r.sale,
           r.pc = "mint" => job[p].pc = "mint" /\ r.sale = job[p].sale
    PROVE  IInv'
<1>1. todo' \in [Procs -> SUBSET Sales] /\ faults' \in Nat
  BY DEF IInv, TypeOK
<1>2. \A q \in Procs : ListOK(q)'
  BY DEF IInv, ListOK, saleVars
<1> QED
  BY <1>1, <1>2, QuietStep

LEMMA FinishStep ==
    ASSUME IInv, NEW p \in Procs, Finish(p),
           UNCHANGED <<saleVars, holdVars, payVars, todo, faults>>, tier' \in Tier
    PROVE  IInv'
<1> DEFINE r == [IdleJob EXCEPT !.pc = IF todo[p] = {} THEN "idle" ELSE "next"]
<1>1. job' = [job EXCEPT ![p] = r]
  BY DEF Finish
<1>2. r \in Job /\ JobOK(r) /\ ~Creating(r) /\ r.pc # "mint"
  BY RestingJob
<1> QED
  BY <1>1, <1>2, LocalStep

-----------------------------------------------------------------------------
(* The steps that begin a request.                                         *)

(* What a new request starts from.                                         *)
LEMMA BeginJob ==
    ASSUME NEW l \in PCs, NEW s \in Sales
    PROVE  LET r == [IdleJob EXCEPT !.pc = l, !.sale = s]
           IN  r \in Job /\ r.pc = l /\ r.sale = s /\ r.goal = "none" /\ r.ans = "none"
               /\ r.n = 0
<1>1. [IdleJob EXCEPT !.pc = l] \in Job
  BY IdleIsJob, JobFields
<1>2. [IdleJob EXCEPT !.pc = l, !.sale = s] \in Job
  BY <1>1, JobFields
<1> QED
  BY <1>2 DEF IdleJob

LEMMA RequestStep ==
    ASSUME IInv, NEW p \in Handlers, NEW s \in Sales, Request(p, s)
    PROVE  IInv'
<1> USE SalesAssumption
<1>1. p \in Procs /\ tier \in Tier /\ SaleOK(s)
  BY DEF Procs, IInv, TypeOK
<1>2. CASE Initiate(p, s)
  <2> DEFINE r == [IdleJob EXCEPT !.pc = "create", !.sale = s]
  <2>0. "create" \in PCs
    BY DEF PCs
  <2>1. r \in Job /\ r.pc = "create" /\ r.sale = s /\ r.goal = "none" /\ r.ans = "none"
    BY <2>0, BeginJob, ZenonT(60)
  <2>2. job' = [job EXCEPT ![p] = r] /\ \A q \in Procs : job[q].sale # s
    BY <1>2 DEF Initiate, Begin, Unborn
  <2>3. JobOK(r)
    BY <1>1, <1>2, <2>1 DEF JobOK, SaleOK, Initiate, Unborn, HoldPCs
  <2> QED
    BY <1>1, <1>2, <2>1, <2>2, <2>3, LocalStep DEF Initiate
<1>3. CASE SellTickets(p, s)
  <2> DEFINE r0 == [IdleJob EXCEPT !.pc = "sold_read", !.sale = s]
             r  == [IdleJob EXCEPT !.pc = "sold_read", !.sale = s, !.goal = "sell"]
  <2>1. r0 \in Job
    BY BeginJob, ZenonT(40) DEF PCs
  <2>2. r \in Job
    BY <2>1, JobFields
  <2>3. r.pc = "sold_read" /\ r.sale = s /\ r.goal = "sell" /\ r.ans = "none"
    BY DEF IdleJob
  <2>4. job' = [job EXCEPT ![p] = r] /\ \A q \in Procs : job[q].sale # s
    BY <1>3 DEF SellTickets, Unborn
  <2>5. JobOK(r)
    BY <1>1, <1>3, <2>3 DEF JobOK, SaleOK, SellTickets, Unborn, HoldPCs, InitPCs
  <2> QED
    BY <1>1, <1>3, <2>2, <2>3, <2>4, <2>5, LocalStep DEF SellTickets
<1>4. CASE StartPoll(p, s)
  <2> DEFINE r == [IdleJob EXCEPT !.pc = "load", !.sale = s]
  <2>1. r \in Job /\ r.pc = "load" /\ r.sale = s /\ r.goal = "none" /\ r.ans = "none" /\ r.n = 0
    BY BeginJob, ZenonT(40) DEF PCs
  <2>2. job' = [job EXCEPT ![p] = r]
    BY <1>4 DEF StartPoll, Begin
  <2>3. JobOK(r)
    BY <1>1, <1>4, <2>1 DEF JobOK, SaleOK, StartPoll, Polled, HoldPCs, InitPCs
  <2> QED
    BY <1>1, <1>4, <2>1, <2>2, <2>3, LocalStep DEF StartPoll, Creating, InitPCs
<1>5. CASE StartWebhook(p, s)
  <2>1. PICK e \in posted[s] :
          job' = [job EXCEPT ![p] = [IdleJob EXCEPT !.pc = "load", !.sale = s, !.ans = e]]
    BY <1>5, Zenon DEF StartWebhook
  <2> DEFINE r0 == [IdleJob EXCEPT !.pc = "load", !.sale = s]
             r  == [IdleJob EXCEPT !.pc = "load", !.sale = s, !.ans = e]
  <2>2. e \in Answers
    BY DEF IInv, TypeOK
  <2>3. r0 \in Job
    BY BeginJob, ZenonT(40) DEF PCs
  <2>4. r \in Job
    BY <2>2, <2>3, JobFields
  <2>5. r.pc = "load" /\ r.sale = s /\ r.goal = "none" /\ r.ans = e /\ r.n = 0
    BY DEF IdleJob
  <2>6. JobOK(r)
    BY <1>1, <1>5, <2>2, <2>5
    DEF JobOK, SaleOK, StartWebhook, NoAutoFail, Polled, Answers, HoldPCs, InitPCs
  <2> QED
    BY <1>1, <1>5, <2>1, <2>4, <2>5, <2>6, LocalStep DEF StartWebhook, Creating, InitPCs
<1>6. CASE StartReturn(p, s)
  <2> DEFINE r == [IdleJob EXCEPT !.pc = "query", !.sale = s]
  <2>1. r \in Job /\ r.pc = "query" /\ r.sale = s /\ r.goal = "none" /\ r.ans = "none" /\ r.n = 0
    BY BeginJob, ZenonT(40) DEF PCs
  <2>2. job' = [job EXCEPT ![p] = r]
    BY <1>6 DEF StartReturn, Begin
  <2>3. JobOK(r)
    BY <1>1, <1>6, <2>1 DEF JobOK, SaleOK, StartReturn, HoldPCs, InitPCs
  <2> QED
    BY <1>1, <1>6, <2>1, <2>2, <2>3, LocalStep DEF StartReturn, Creating, InitPCs
<1> QED
  BY <1>2, <1>3, <1>4, <1>5, <1>6 DEF Request

-----------------------------------------------------------------------------
(* The steps of a process that change no sale.                             *)

LEMMA LocalSteps ==
    ASSUME IInv, NEW p \in Procs,
           \/ ReserveRead(p) \/ ReserveWrite(p)
           \/ FindHold(p) \/ HoldRead(p) \/ HoldWrite(p) \/ SoldRead(p)
    PROVE  IInv'
<1> USE SalesAssumption
<1> DEFINE j == job[p]
<1>1. j \in Job /\ JobOK(j) /\ tier \in Tier /\ NoDoc \in Tier
  BY IdleIsJob DEF IInv, TypeOK
<1>2. j.doc \in Tier /\ j.doc.reserved \in Nat /\ j.doc.sold \in Nat
  BY <1>1 DEF Job, Tier
<1>3. j.pc \notin {"idle", "next"} => j.sale \in Sales /\ Qty[j.sale] \in Nat
  BY WorkingSale
<1>4. CASE ReserveRead(p)
  <2> DEFINE r == [j EXCEPT !.pc = "res_write", !.doc = tier]
  <2>1. "res_write" \in PCs
    BY DEF PCs
  <2>2. [j EXCEPT !.pc = "res_write"] \in Job
    BY <1>1, <2>1, JobFields
  <2>3. r \in Job
    BY <1>1, <2>2, JobFields
  <2>4. r.pc = "res_write" /\ r.sale = j.sale /\ r.goal = j.goal /\ r.ans = j.ans
    BY <1>1 DEF Job
  <2>5. JobOK(r)
    BY <1>1, <1>3, <1>4, <2>4 DEF JobOK, ReserveRead, At, InitPCs, HoldPCs
  <2>6. job' = [job EXCEPT ![p] = r]
    BY <1>4 DEF ReserveRead, IInv, TypeOK
  <2> QED
    BY <1>1, <1>4, <2>3, <2>4, <2>5, <2>6, LocalStep
    DEF ReserveRead, At, Creating, InitPCs
<1>5. CASE ReserveWrite(p)
  <2> DEFINE r == [j EXCEPT !.pc = "res_create", !.doc = NoDoc]
  <2>1. "res_create" \in PCs
    BY DEF PCs
  <2>2. [j EXCEPT !.pc = "res_create"] \in Job
    BY <1>1, <2>1, JobFields
  <2>3. r \in Job
    BY <1>1, <2>2, JobFields
  <2>4. r.pc = "res_create" /\ r.sale = j.sale /\ r.goal = j.goal /\ r.ans = j.ans
    BY <1>1 DEF Job
  <2>5. JobOK(r)
    BY <1>1, <1>3, <1>5, <2>4 DEF JobOK, ReserveWrite, At, InitPCs, HoldPCs
  <2>6. job' = [job EXCEPT ![p] = r]
    BY <1>5 DEF ReserveWrite, IInv, TypeOK
  <2>7. tier' \in Tier
    BY <1>1, <1>2, <1>3, <1>5 DEF ReserveWrite, At, Tier
  <2> QED
    BY <1>1, <1>5, <2>3, <2>4, <2>5, <2>6, <2>7, LocalStep
    DEF ReserveWrite, At, Creating, InitPCs
<1>6. CASE FindHold(p)
  <2> DEFINE l == IF hold[j.sale] = "held" THEN "hold_read" ELSE After(j.goal)
             r == [j EXCEPT !.pc = l]
  <2>1. l \in {"hold_read", "sold_read", "fail", "sweep_fail"} /\ l \in PCs
    BY DEF PCs, After
  <2>2. r \in Job
    BY <1>1, <2>1, JobFields
  <2>3. r.pc = l /\ r.sale = j.sale /\ r.goal = j.goal /\ r.ans = j.ans
    BY <1>1 DEF Job
  <2>4. /\ l = "fail" => j.goal = "release"
        /\ l = "sweep_fail" => j.goal = "sweep"
    BY <1>1, <1>3, <1>6 DEF JobOK, FindHold, At, After, HoldPCs
  <2>5. JobOK(r)
    BY <1>1, <1>3, <1>6, <2>1, <2>3, <2>4 DEF JobOK, FindHold, At, InitPCs, HoldPCs
  <2>6. job' = [job EXCEPT ![p] = r]
    BY <1>6 DEF FindHold, Goto, IInv, TypeOK
  <2> QED
    BY <1>1, <1>6, <2>1, <2>2, <2>3, <2>5, <2>6, LocalStep
    DEF FindHold, At, Creating, InitPCs
<1>7. CASE HoldRead(p)
  <2> DEFINE r == [j EXCEPT !.pc = "hold_write", !.doc = tier]
  <2>1. "hold_write" \in PCs
    BY DEF PCs
  <2>2. [j EXCEPT !.pc = "hold_write"] \in Job
    BY <1>1, <2>1, JobFields
  <2>3. r \in Job
    BY <1>1, <2>2, JobFields
  <2>4. r.pc = "hold_write" /\ r.sale = j.sale /\ r.goal = j.goal /\ r.ans = j.ans
    BY <1>1 DEF Job
  <2>5. JobOK(r)
    BY <1>1, <1>3, <1>7, <2>4 DEF JobOK, HoldRead, At, InitPCs, HoldPCs
  <2>6. job' = [job EXCEPT ![p] = r]
    BY <1>7 DEF HoldRead, IInv, TypeOK
  <2> QED
    BY <1>1, <1>7, <2>3, <2>4, <2>5, <2>6, LocalStep
    DEF HoldRead, At, Creating, InitPCs
<1>8. CASE HoldWrite(p)
  <2> DEFINE r == [j EXCEPT !.pc = "hold_save", !.doc = NoDoc]
  <2>1. "hold_save" \in PCs
    BY DEF PCs
  <2>2. [j EXCEPT !.pc = "hold_save"] \in Job
    BY <1>1, <2>1, JobFields
  <2>3. r \in Job
    BY <1>1, <2>2, JobFields
  <2>4. r.pc = "hold_save" /\ r.sale = j.sale /\ r.goal = j.goal /\ r.ans = j.ans
    BY <1>1 DEF Job
  <2>5. JobOK(r)
    BY <1>1, <1>3, <1>8, <2>4 DEF JobOK, HoldWrite, At, InitPCs, HoldPCs
  <2>6. job' = [job EXCEPT ![p] = r]
    BY <1>8 DEF HoldWrite, IInv, TypeOK
  <2>7. tier' \in Tier
    BY <1>1, <1>2, <1>3, <1>8 DEF HoldWrite, At, Tier, NonNeg
  <2> QED
    BY <1>1, <1>8, <2>3, <2>4, <2>5, <2>6, <2>7, LocalStep
    DEF HoldWrite, At, Creating, InitPCs
<1>9. CASE SoldRead(p)
  <2> DEFINE r == [j EXCEPT !.pc = "sold_write", !.doc = tier]
  <2>1. "sold_write" \in PCs
    BY DEF PCs
  <2>2. [j EXCEPT !.pc = "sold_write"] \in Job
    BY <1>1, <2>1, JobFields
  <2>3. r \in Job
    BY <1>1, <2>2, JobFields
  <2>4. r.pc = "sold_write" /\ r.sale = j.sale /\ r.goal = j.goal /\ r.ans = j.ans
    BY <1>1 DEF Job
  <2>5. JobOK(r)
    BY <1>1, <1>3, <1>9, <2>4 DEF JobOK, SoldRead, At, InitPCs, HoldPCs
  <2>6. job' = [job EXCEPT ![p] = r]
    BY <1>9 DEF SoldRead, IInv, TypeOK
  <2> QED
    BY <1>1, <1>9, <2>3, <2>4, <2>5, <2>6, LocalStep
    DEF SoldRead, At, Creating, InitPCs
<1> QED
  BY <1>4, <1>5, <1>6, <1>7, <1>8, <1>9

LEMMA SoldWriteStep ==
    ASSUME IInv, NEW p \in Procs, SoldWrite(p)
    PROVE  IInv'
<1> USE SalesAssumption
<1> DEFINE j == job[p]
<1>1. j \in Job /\ JobOK(j) /\ tier \in Tier /\ NoDoc \in Tier
  BY IdleIsJob DEF IInv, TypeOK
<1>2. j.sale \in Sales /\ Qty[j.sale] \in Nat /\ j.doc.sold \in Nat
  BY <1>1, WorkingSale DEF SoldWrite, At, Job, Tier
<1>3. tier' \in Tier
  BY <1>1, <1>2 DEF SoldWrite, Tier
<1>4. CASE j.goal # "sell"
  BY <1>3, <1>4, FinishStep DEF SoldWrite
<1>5. CASE j.goal = "sell"
  <2> DEFINE r == [j EXCEPT !.pc = "commit", !.doc = NoDoc]
  <2>1. "commit" \in PCs
    BY DEF PCs
  <2>2. [j EXCEPT !.pc = "commit"] \in Job
    BY <1>1, <2>1, JobFields
  <2>3. r \in Job
    BY <1>1, <2>2, JobFields
  <2>4. r.pc = "commit" /\ r.sale = j.sale /\ r.goal = j.goal /\ r.ans = j.ans
    BY <1>1 DEF Job
  <2>5. JobOK(r)
    BY <1>1, <1>2, <1>5, <2>4 DEF JobOK, SoldWrite, At, InitPCs, HoldPCs
  <2>6. job' = [job EXCEPT ![p] = r]
    BY <1>5 DEF SoldWrite, IInv, TypeOK
  <2> QED
    BY <1>3, <1>5, <2>3, <2>4, <2>5, <2>6, LocalStep DEF SoldWrite, Creating
<1> QED
  BY <1>4, <1>5

(* A finalizer that decides on an answer the checkout bears out.           *)
LEMMA DecideStep ==
    ASSUME IInv, NEW p \in Procs, NEW a \in Answers, Decide(p, a),
           job[p].pc \in {"load", "ask"},
           status[job[p].sale] # "none",
           a = "success" => checkout[job[p].sale] = "paid",
           a # "success" /\ rail[job[p].sale] \in Polled
             => checkout[job[p].sale] \in {"mismatch", "rejected"},
           UNCHANGED <<saleVars, holdVars, payVars, tier, todo, faults>>
    PROVE  IInv'
<1> DEFINE j == job[p]
           l == IF a = "success" THEN "claim" ELSE "find"
           g == IF a = "success" THEN "confirm" ELSE "release"
           r == [j EXCEPT !.ans = a, !.pc = l, !.goal = g]
<1>1. j \in Job /\ JobOK(j) /\ tier \in Tier
  BY DEF IInv, TypeOK
<1>2. j.sale \in Sales /\ j.sale # NoSale
  BY WorkingSale, SalesAssumption
<1>3. r \in Job
  <2>1. [j EXCEPT !.ans = a] \in Job
    BY <1>1, JobFields
  <2>2. [j EXCEPT !.ans = a, !.pc = l] \in Job
    BY <2>1, JobFields DEF PCs
  <2> QED
    BY <2>2, JobFields
<1>4. r.pc = l /\ r.sale = j.sale /\ r.goal = g /\ r.ans = a /\ r.n = j.n
  BY <1>1 DEF Job
<1>5. JobOK(r)
  BY <1>1, <1>2, <1>4 DEF JobOK, InitPCs, HoldPCs, Answers
<1>6. job' = [job EXCEPT ![p] = r]
  BY DEF Decide
<1>7. ~Creating(r) /\ r.pc # "mint"
  BY <1>4 DEF Creating, InitPCs, Answers
<1> QED
  BY <1>1, <1>3, <1>5, <1>6, <1>7, LocalStep

LEMMA QueryCheckoutStep ==
    ASSUME IInv, NEW p \in Procs, QueryCheckout(p)
    PROVE  IInv'
<1> DEFINE j == job[p]
           a == IF p \in Handlers THEN ReturnOutcome(j.sale) ELSE Outcome(j.sale)
           r == [j EXCEPT !.pc = "load", !.ans = a]
<1>1. j \in Job /\ JobOK(j) /\ tier \in Tier /\ j.pc = "query"
  BY DEF IInv, TypeOK, QueryCheckout, At
<1>2. j.sale \in Sales /\ j.sale # NoSale
  BY <1>1, WorkingSale, SalesAssumption
<1>3. CASE a = "pending"
  BY <1>1, <1>3, FinishStep DEF QueryCheckout
<1>4. CASE a # "pending"
  <2>1. a \in Answers /\ (a = "success" => checkout[j.sale] = "paid")
    BY <1>4 DEF ReturnOutcome, Outcome, Answers
  <2>2. [j EXCEPT !.pc = "load"] \in Job
    BY <1>1, JobFields DEF PCs
  <2>3. r \in Job
    BY <2>1, <2>2, JobFields
  <2>4. r.pc = "load" /\ r.sale = j.sale /\ r.goal = j.goal /\ r.ans = a /\ r.n = j.n
    BY <1>1 DEF Job
  <2>5. JobOK(r)
    BY <1>1, <1>2, <2>1, <2>4 DEF JobOK, InitPCs, HoldPCs, Answers
  <2>6. job' = [job EXCEPT ![p] = r]
    BY <1>4 DEF QueryCheckout, IInv, TypeOK
  <2>7. ~Creating(r) /\ r.pc # "mint"
    BY <1>1, <1>2, <2>4 DEF Creating, InitPCs, JobOK
  <2> QED
    BY <1>1, <2>3, <2>5, <2>6, <2>7, LocalStep DEF QueryCheckout
<1> QED
  BY <1>3, <1>4

LEMMA LoadSaleStep ==
    ASSUME IInv, NEW p \in Procs, LoadSale(p)
    PROVE  IInv'
<1> DEFINE j == job[p]
<1>1. j \in Job /\ JobOK(j) /\ tier \in Tier /\ j.pc = "load"
  BY DEF IInv, TypeOK, LoadSale, At
<1>2. j.sale \in Sales /\ j.sale # NoSale
  BY <1>1, WorkingSale, SalesAssumption
<1>3. CASE status[j.sale] # "PENDING"
  BY <1>1, <1>3, FinishStep DEF LoadSale
<1>4. CASE status[j.sale] = "PENDING" /\ rail[j.sale] \in Polled
  <2> DEFINE r == [j EXCEPT !.pc = "ask"]
  <2>1. r \in Job
    BY <1>1, JobFields DEF PCs
  <2>2. r.pc = "ask" /\ r.sale = j.sale /\ r.goal = j.goal /\ r.ans = j.ans /\ r.n = j.n
    BY <1>1 DEF Job
  <2>3. JobOK(r)
    BY <1>1, <1>2, <1>4, <2>2 DEF JobOK, InitPCs, HoldPCs
  <2>4. job' = [job EXCEPT ![p] = r]
    BY <1>4 DEF LoadSale, Goto, IInv, TypeOK
  <2>5. ~Creating(r) /\ r.pc # "mint"
    BY <1>1, <1>2, <2>2 DEF Creating, InitPCs, JobOK
  <2> QED
    BY <1>1, <2>1, <2>3, <2>4, <2>5, LocalStep DEF LoadSale
<1>5. CASE status[j.sale] = "PENDING" /\ rail[j.sale] \notin Polled
  <2>1. j.ans \in Answers /\ (j.ans = "success" => checkout[j.sale] = "paid")
    BY <1>1, <1>2, <1>5 DEF JobOK, Job
  <2> QED
    BY <1>1, <1>5, <2>1, DecideStep DEF LoadSale
<1> QED
  BY <1>3, <1>4, <1>5

LEMMA AskProviderStep ==
    ASSUME IInv, NEW p \in Procs, AskProvider(p)
    PROVE  IInv'
<1> DEFINE j == job[p]
           a == Outcome(j.sale)
<1>1. j \in Job /\ JobOK(j) /\ tier \in Tier /\ j.pc = "ask"
  BY DEF IInv, TypeOK, AskProvider, At
<1>2. j.sale \in Sales /\ j.sale # NoSale
  BY <1>1, WorkingSale, SalesAssumption
<1>3. CASE a = "pending"
  BY <1>1, <1>3, FinishStep DEF AskProvider
<1>4. CASE a # "pending"
  <2>1. /\ a \in Answers /\ (a = "success" => checkout[j.sale] = "paid")
        /\ a # "success" => checkout[j.sale] \in {"mismatch", "rejected"}
    BY <1>4 DEF Outcome, Answers
  <2>2. status[j.sale] # "none"
    BY <1>1, <1>2 DEF JobOK
  <2> QED
    BY <1>1, <1>4, <2>1, <2>2, DecideStep DEF AskProvider
<1> QED
  BY <1>3, <1>4

-----------------------------------------------------------------------------
(* The steps of the request that creates a sale.                           *)

(* Nobody else works on a sale whose document does not exist yet.          *)
LEMMA AloneBeforeCreate ==
    ASSUME IInv, NEW p \in Procs, job[p].sale # NoSale,
           status[job[p].sale] = "none"
    PROVE  /\ Creating(job[p])
           /\ \A q \in Procs : q # p => job[q].sale # job[p].sale
<1>1. \A q \in Procs : job[q].sale = job[p].sale => Creating(job[q])
  BY DEF IInv, JobOK, Creating, InitPCs
<1> QED
  BY <1>1 DEF IInv, OneCreator

LEMMA CreateSaleStep ==
    ASSUME IInv, NEW p \in Procs, CreateSale(p)
    PROVE  IInv'
<1> DEFINE j == job[p]
<1>1. j \in Job /\ JobOK(j) /\ j.pc = "create"
  BY DEF IInv, TypeOK, CreateSale, At
<1>2. j.sale \in Sales /\ j.sale # NoSale /\ status[j.sale] = "none"
  BY <1>1, WorkingSale, SalesAssumption DEF JobOK
<1>3. Creating(j) /\ \A q \in Procs : q # p => job[q].sale # j.sale
  BY <1>2, AloneBeforeCreate
<1>4. PICK r \in Job : r = [j EXCEPT !.pc = "res_read"]
  BY <1>1, JobFields DEF PCs
<1>5. r.pc = "res_read" /\ r.sale = j.sale /\ r.goal = j.goal /\ r.ans = j.ans
  BY <1>1, <1>4 DEF Job
<1>6. job' = [job EXCEPT ![p] = r]
  BY <1>4 DEF CreateSale, Goto, IInv, TypeOK
<1> USE DEF CreateSale, saleVars, holdVars, payVars
<1>7. job' \in [Procs -> Job] => TypeOK'
  BY <1>2 DEF IInv, TypeOK
<1>8. /\ status'[j.sale] = "PENDING"
      /\ \A s \in Sales : s # j.sale => status'[s] = status[s]
  BY <1>2 DEF IInv, TypeOK
<1>9. JobOK(r)'
  BY <1>1, <1>2, <1>5, <1>8 DEF JobOK, InitPCs, HoldPCs
<1>10. ASSUME NEW q \in Procs, q # p PROVE JobOK(job[q])'
  <2>1. job'[q] = job[q] /\ JobOK(job[q]) /\ job[q] \in Job /\ job[q].sale # j.sale
    BY <1>3, <1>6, <1>10 DEF IInv, TypeOK
  <2>2. job[q].sale # NoSale => job[q].sale \in Sales
    BY <2>1 DEF Job
  <2> QED
    BY <1>8, <2>1, <2>2 DEF JobOK
<1>11. ASSUME NEW s \in Sales PROVE SaleOK(s)'
  BY <1>1, <1>2, <1>8 DEF IInv, SaleOK, JobOK, InitPCs
<1>12. ASSUME NEW q \in Procs PROVE ListOK(q)'
  BY <1>2, <1>8 DEF IInv, ListOK, TypeOK
<1> QED
  BY <1>3, <1>4, <1>5, <1>6, <1>7, <1>9, <1>10, <1>11, <1>12, MoveStep

LEMMA CreateHoldStep ==
    ASSUME IInv, NEW p \in Procs, CreateHold(p)
    PROVE  IInv'
<1> DEFINE j == job[p]
<1>1. j \in Job /\ JobOK(j) /\ j.pc = "res_create"
  BY DEF IInv, TypeOK, CreateHold, At
<1>2. j.sale \in Sales /\ j.sale # NoSale
  BY <1>1, WorkingSale, SalesAssumption
<1>3. PICK r \in Job : r = [j EXCEPT !.pc = "provider"]
  BY <1>1, JobFields DEF PCs
<1>4. r.pc = "provider" /\ r.sale = j.sale /\ r.goal = j.goal /\ r.ans = j.ans
  BY <1>1, <1>3 DEF Job
<1>5. job' = [job EXCEPT ![p] = r]
  BY <1>3 DEF CreateHold, Goto, IInv, TypeOK
<1> USE DEF CreateHold, saleVars, holdVars, payVars
<1>6. job' \in [Procs -> Job] => TypeOK'
  BY <1>2 DEF IInv, TypeOK
<1>7. JobOK(r)'
  BY <1>1, <1>2, <1>4 DEF JobOK, InitPCs, HoldPCs
<1>8. ASSUME NEW q \in Procs, q # p PROVE JobOK(job[q])'
  <2>1. job'[q] = job[q] /\ JobOK(job[q])
    BY <1>5, <1>8 DEF IInv, TypeOK
  <2> QED
    BY <2>1 DEF JobOK
<1>9. ASSUME NEW s \in Sales PROVE SaleOK(s)'
  BY <1>1, <1>2 DEF IInv, SaleOK, JobOK, InitPCs, TypeOK
<1>10. ASSUME NEW q \in Procs PROVE ListOK(q)'
  BY DEF IInv, ListOK
<1>11. Creating(j)
  BY <1>1 DEF Creating, InitPCs
<1> QED
  BY <1>3, <1>4, <1>5, <1>6, <1>7, <1>8, <1>9, <1>10, <1>11, MoveStep

LEMMA CallProviderStep ==
    ASSUME IInv, NEW p \in Procs, CallProvider(p)
    PROVE  IInv'
<1> DEFINE j == job[p]
<1>1. j \in Job /\ JobOK(j) /\ j.pc = "provider" /\ Creating(j)
  BY DEF IInv, TypeOK, CallProvider, At, Creating, InitPCs
<1>2. /\ j.sale \in Sales /\ j.sale # NoSale /\ checkout[j.sale] = "none"
      /\ j.goal = "none" /\ j.ans = "none" /\ ~ref[j.sale]
      /\ status[j.sale] # "none" /\ rail[j.sale] # "CASH"
  BY <1>1, WorkingSale, SalesAssumption DEF JobOK, InitPCs
<1>3. PICK ok \in BOOLEAN, opened \in BOOLEAN :
        /\ ok => opened
        /\ checkout' = [checkout EXCEPT ![j.sale] = IF opened THEN "open" ELSE @]
        /\ job' = [job EXCEPT ![p].pc   = IF ok THEN "store" ELSE "find",
                              ![p].goal = IF ok THEN "none" ELSE "release"]
  BY DEF CallProvider
<1> DEFINE l == IF ok THEN "store" ELSE "find"
           g == IF ok THEN "none" ELSE "release"
<1>4. [j EXCEPT !.pc = l] \in Job
  BY <1>1, JobFields DEF PCs
<1>5. PICK r \in Job : r = [j EXCEPT !.pc = l, !.goal = g]
  BY <1>4, JobFields
<1>6. r.pc = l /\ r.sale = j.sale /\ r.goal = g /\ r.ans = j.ans
  BY <1>1, <1>5 DEF Job
<1>7. job' = [job EXCEPT ![p] = r]
  BY <1>3, <1>5 DEF IInv, TypeOK
<1> USE DEF CallProvider, saleVars, holdVars, payVars
<1>8. job' \in [Procs -> Job] => TypeOK'
  BY <1>2, <1>3 DEF IInv, TypeOK
<1>9. /\ checkout'[j.sale] \in {"none", "open"}
      /\ \A s \in Sales : s # j.sale => checkout'[s] = checkout[s]
  BY <1>2, <1>3 DEF IInv, TypeOK
<1>10. JobOK(r)'
  <2>1. j.sale \notin sent
    BY <1>2 DEF IInv, SaleOK
  <2>2. ok => checkout'[j.sale] = "open"
    BY <1>2, <1>3 DEF IInv, TypeOK
  <2> QED
    BY <1>1, <1>2, <1>6, <2>1, <2>2 DEF JobOK, InitPCs, HoldPCs
<1>11. ASSUME NEW q \in Procs, q # p PROVE JobOK(job[q])'
  <2>1. /\ job'[q] = job[q] /\ JobOK(job[q]) /\ job[q] \in Job
        /\ job[q].sale # NoSale => job[q].sale \in Sales
    BY <1>7, <1>11 DEF IInv, TypeOK, Job
  <2>2. CASE job[q].sale = j.sale
    <3>1. ~Creating(job[q])
      BY <1>1, <1>2, <1>11, <2>2 DEF IInv, OneCreator
    <3>2. /\ job[q].pc \notin InitPCs
          /\ job[q].goal = "release" => job[q].ans # "none"
          /\ job[q].ans # "success"
      BY <1>2, <2>1, <2>2, <3>1 DEF JobOK, Creating
    <3>3. job[q].goal # "release"
      BY <1>2, <2>1, <2>2, <3>2 DEF JobOK
    <3>4. UNCHANGED <<rail, status, ref, sent, minted>> /\ job[q].goal # "release"
      BY <3>3
    <3> HIDE DEF CallProvider, saleVars, holdVars, payVars
    <3> QED
      BY <2>1, <2>2, <3>2, <3>4 DEF JobOK, InitPCs
  <2>3. CASE job[q].sale # j.sale
    <3>1. job[q].sale # NoSale => checkout'[job[q].sale] = checkout[job[q].sale]
      BY <1>9, <2>1, <2>3
    <3>2. UNCHANGED <<rail, status, ref, sent, minted>>
      OBVIOUS
    <3> HIDE DEF CallProvider, saleVars, holdVars, payVars
    <3> QED BY <2>1, <3>1, <3>2 DEF JobOK
  <2> QED
    BY <2>2, <2>3
<1>12. ASSUME NEW s \in Sales PROVE SaleOK(s)'
  <2>1. SaleOK(s) /\ SaleOK(j.sale)
    BY <1>2 DEF IInv
  <2> QED
    BY <1>2, <1>9, <2>1 DEF SaleOK
<1>13. ASSUME NEW q \in Procs PROVE ListOK(q)'
  BY DEF IInv, ListOK
<1>14. r.pc # "mint" /\ r.sale = job[p].sale /\ Creating(job[p])
  BY <1>1, <1>6
<1> HIDE DEF CallProvider, saleVars, holdVars, payVars
<1> QED
  BY <1>5, <1>7, <1>8, <1>10, <1>11, <1>12, <1>13, <1>14, MoveStep

LEMMA StoreRefStep ==
    ASSUME IInv, NEW p \in Procs, StoreRef(p)
    PROVE  IInv'
<1> DEFINE j == job[p]
<1>1. j \in Job /\ JobOK(j) /\ j.pc = "store" /\ Creating(j) /\ tier \in Tier
  BY DEF IInv, TypeOK, StoreRef, At, Creating, InitPCs
<1>2. /\ j.sale \in Sales /\ j.sale # NoSale /\ j.goal = "none" /\ j.ans = "none"
      /\ ~ref[j.sale] /\ status[j.sale] # "none" /\ rail[j.sale] # "CASH"
  BY <1>1, WorkingSale, SalesAssumption DEF JobOK, InitPCs
<1>3. UNCHANGED <<rail, status, minted, refunded, holdVars, payVars, tier, todo, faults>>
  BY DEF StoreRef
<1>4. PICK b \in BOOLEAN : ref' = [ref EXCEPT ![j.sale] = @ \/ b]
  BY <1>2 DEF StoreRef, IInv, TypeOK
<1>5. /\ ref' \in [Sales -> BOOLEAN] /\ ref'[j.sale] = b
      /\ \A s \in Sales : s # j.sale => ref'[s] = ref[s]
  BY <1>2, <1>4 DEF IInv, TypeOK
<1>6. \/ sent' = sent \cup {j.sale} /\ ref'[j.sale] /\ Finish(p)
      \/ /\ sent' = sent
         /\ job' = [job EXCEPT ![p].pc = "find", ![p].goal = "release", ![p].dirty = TRUE]
  BY <1>2 DEF StoreRef, IInv, TypeOK
<1>7. \E r \in Job : /\ job' = [job EXCEPT ![p] = r]
                     /\ JobOK(r)' /\ r.pc # "mint"
                     /\ Creating(r) => r.sale = j.sale
  <2>1. CASE sent' = sent \cup {j.sale} /\ Finish(p)
    BY <2>1, FinishedJob
  <2>2. CASE /\ sent' = sent
             /\ job' = [job EXCEPT ![p].pc = "find", ![p].goal = "release", ![p].dirty = TRUE]
    <3>1. [j EXCEPT !.pc = "find"] \in Job
      BY <1>1, JobFields DEF PCs
    <3>2. [j EXCEPT !.pc = "find", !.goal = "release"] \in Job
      BY <3>1, JobFields
    <3>3. PICK r \in Job : r = [j EXCEPT !.pc = "find", !.goal = "release", !.dirty = TRUE]
      BY <3>2, JobFields
    <3>4. r.pc = "find" /\ r.sale = j.sale /\ r.goal = "release" /\ r.ans = "none"
      BY <1>1, <1>2, <3>3 DEF Job
    <3>5. j.sale \notin sent
      BY <1>2 DEF IInv, SaleOK
    <3>7. job' = [job EXCEPT ![p] = r]
      BY <2>2, <3>3 DEF IInv, TypeOK
    <3>6. JobOK(r)'
      BY <1>2, <1>3, <2>2, <3>4, <3>5 DEF JobOK, InitPCs, HoldPCs
    <3> QED
      BY <3>4, <3>6, <3>7
  <2> QED
    BY <1>6, <2>1, <2>2
<1>8. PICK r \in Job : /\ job' = [job EXCEPT ![p] = r]
                       /\ JobOK(r)' /\ r.pc # "mint"
                       /\ Creating(r) => r.sale = j.sale
  BY <1>7
<1>9. sent' \subseteq Sales /\ \A s \in Sales : s # j.sale => (s \in sent' <=> s \in sent)
  BY <1>2, <1>6 DEF IInv, TypeOK
<1>10. job' \in [Procs -> Job] => TypeOK'
  BY <1>3, <1>5, <1>9 DEF IInv, TypeOK, holdVars, payVars
<1>11. ASSUME NEW q \in Procs, q # p PROVE JobOK(job[q])'
  <2>1. /\ job'[q] = job[q] /\ JobOK(job[q])
        /\ job[q].sale # NoSale => job[q].sale \in Sales
    BY <1>8, <1>11 DEF IInv, TypeOK, Job
  <2>2. CASE job[q].sale = j.sale
    <3>1. ~Creating(job[q])
      BY <1>1, <1>2, <1>11, <2>2 DEF IInv, OneCreator
    <3>2. /\ job[q].pc \notin InitPCs /\ job[q].goal # "sell"
          /\ ~(job[q].goal = "release" /\ job[q].ans = "none")
      BY <3>1 DEF Creating
    <3>3. /\ job[q].pc \notin {"load", "query", "ask", "claim", "mint"}
          /\ ~(job[q].goal = "release" /\ job[q].ans # "none")
      BY <1>2, <2>1, <2>2 DEF JobOK
    <3> QED
      BY <1>2, <1>3, <2>1, <2>2, <3>2, <3>3 DEF JobOK, holdVars, payVars
  <2>3. CASE job[q].sale # j.sale
    BY <1>3, <1>5, <1>9, <2>1, <2>3 DEF JobOK, holdVars, payVars
  <2> QED
    BY <2>2, <2>3
<1>12. ASSUME NEW s \in Sales PROVE SaleOK(s)'
  <2>1. SaleOK(s)
    BY DEF IInv
  <2>2. s \in sent' => ref'[s]
    BY <1>2, <1>5, <1>6, <1>9, <2>1 DEF SaleOK
  <2>3. ref[s] => ref'[s]
    BY <1>2, <1>5
  <2>4. ref'[s] => ref[s] \/ (status[s] # "none" /\ rail[s] # "CASH")
    BY <1>2, <1>5
  <2> QED
    BY <1>3, <2>1, <2>2, <2>3, <2>4 DEF SaleOK, holdVars, payVars
<1>13. ASSUME NEW q \in Procs PROVE ListOK(q)'
  BY <1>2, <1>3, <1>5 DEF IInv, ListOK, TypeOK
<1> QED
  BY <1>1, <1>8, <1>10, <1>11, <1>12, <1>13, MoveStep

LEMMA CommitSaleStep ==
    ASSUME IInv, NEW p \in Procs, CommitSale(p)
    PROVE  IInv'
<1> DEFINE j == job[p]
<1>1. j \in Job /\ JobOK(j) /\ j.pc = "commit"
  BY DEF IInv, TypeOK, CommitSale, At
<1>2. /\ j.sale \in Sales /\ j.sale # NoSale
      /\ status[j.sale] = "none" /\ rail[j.sale] = "CASH"
  BY <1>1, WorkingSale, SalesAssumption DEF JobOK
<1>3. \A q \in Procs : q # p => job[q].sale # j.sale
  BY <1>2, AloneBeforeCreate
<1>4. PICK r \in Job : /\ job' = [job EXCEPT ![p] = r]
                       /\ JobOK(r)' /\ ~Creating(r) /\ r.pc # "mint"
  BY FinishedJob DEF CommitSale
<1>5. UNCHANGED <<rail, ref, sent, refunded, holdVars, payVars, tier, todo, faults>>
  BY DEF CommitSale
<1>6. /\ status' = [status EXCEPT ![j.sale] = "COMPLETED"]
      /\ minted' = [minted EXCEPT ![j.sale] = Qty[j.sale]]
      /\ Qty[j.sale] \in Nat
  BY <1>2, SalesAssumption DEF CommitSale
<1>7. job' \in [Procs -> Job] => TypeOK'
  BY <1>2, <1>5, <1>6 DEF IInv, TypeOK, holdVars, payVars
<1>8. /\ status'[j.sale] = "COMPLETED" /\ minted'[j.sale] = Qty[j.sale]
      /\ \A s \in Sales : s # j.sale => status'[s] = status[s] /\ minted'[s] = minted[s]
  BY <1>2, <1>6 DEF IInv, TypeOK
<1>9. ASSUME NEW q \in Procs, q # p PROVE JobOK(job[q])'
  <2>1. /\ job'[q] = job[q] /\ JobOK(job[q]) /\ job[q].sale # j.sale
        /\ job[q].sale # NoSale => job[q].sale \in Sales
    BY <1>3, <1>4, <1>9 DEF IInv, TypeOK, Job
  <2> QED
    BY <1>5, <1>8, <2>1 DEF JobOK, holdVars, payVars
<1>10. ASSUME NEW s \in Sales PROVE SaleOK(s)'
  <2>1. SaleOK(s)
    BY DEF IInv
  <2> QED
    BY <1>2, <1>5, <1>6, <1>8, <2>1 DEF SaleOK, holdVars, payVars
<1>11. ASSUME NEW q \in Procs PROVE ListOK(q)'
  BY <1>2, <1>5, <1>8 DEF IInv, ListOK, TypeOK
<1> QED
  BY <1>4, <1>7, <1>9, <1>10, <1>11, MoveStep

-----------------------------------------------------------------------------
(* The steps that settle a sale and mint its tickets.                      *)

LEMMA ClaimStep ==
    ASSUME IInv, NEW p \in Procs, Claim(p)
    PROVE  IInv'
<1> DEFINE j == job[p]
<1>1. j \in Job /\ JobOK(j) /\ j.pc = "claim" /\ tier \in Tier
  BY DEF IInv, TypeOK, Claim, At
<1>2. /\ j.sale \in Sales /\ j.sale # NoSale /\ rail[j.sale] # "CASH"
      /\ j.goal = "confirm" /\ j.ans = "success" /\ ref[j.sale] /\ j.n = 0
      /\ checkout[j.sale] = "paid"
  BY <1>1, WorkingSale, SalesAssumption DEF JobOK
<1>3. UNCHANGED <<rail, ref, sent, minted, refunded, holdVars, payVars, tier, todo, faults>>
  BY DEF Claim
<1>4. CASE status[j.sale] # "PENDING"
  <2>1. Finish(p) /\ UNCHANGED <<saleVars, holdVars, payVars, todo, faults>> /\ tier' \in Tier
    BY <1>1, <1>3, <1>4 DEF Claim, saleVars
  <2> QED
    BY <2>1, FinishStep
<1>5. CASE status[j.sale] = "PENDING"
  <2>1. PICK r \in Job : r = [j EXCEPT !.pc = "mint"]
    BY <1>1, JobFields DEF PCs
  <2>2. r.pc = "mint" /\ r.sale = j.sale /\ r.goal = j.goal /\ r.ans = j.ans /\ r.n = j.n
    BY <1>1, <2>1 DEF Job
  <2>3. job' = [job EXCEPT ![p] = r]
    BY <1>5, <2>1 DEF Claim, Goto, IInv, TypeOK
  <2>4. status' = [status EXCEPT ![j.sale] = "COMPLETED"]
    BY <1>5 DEF Claim
  <2>5. job' \in [Procs -> Job] => TypeOK'
    BY <1>2, <1>3, <2>4 DEF IInv, TypeOK, holdVars, payVars
  <2>6. /\ status'[j.sale] = "COMPLETED"
        /\ \A s \in Sales : s # j.sale => status'[s] = status[s]
    BY <1>2, <2>4 DEF IInv, TypeOK
  <2>7. minted[j.sale] = 0 /\ Qty[j.sale] \in Nat \ {0}
    BY <1>2, <1>5, SalesAssumption DEF IInv, SaleOK
  <2>8. JobOK(r)'
    BY <1>2, <1>3, <2>2, <2>6, <2>7 DEF JobOK, InitPCs, HoldPCs, holdVars, payVars
  <2>9. ASSUME NEW q \in Procs, q # p PROVE JobOK(job[q])'
    <3>1. /\ job'[q] = job[q] /\ JobOK(job[q])
          /\ job[q].sale # NoSale => job[q].sale \in Sales
      BY <2>3, <2>9 DEF IInv, TypeOK, Job
    <3> QED
      BY <1>2, <1>3, <1>5, <2>6, <3>1 DEF JobOK, holdVars, payVars
  <2>10. ASSUME NEW s \in Sales PROVE SaleOK(s)'
    <3>1. SaleOK(s)
      BY DEF IInv
    <3> QED
      BY <1>2, <1>3, <2>6, <3>1 DEF SaleOK, holdVars, payVars
  <2>11. ASSUME NEW q \in Procs PROVE ListOK(q)'
    BY <1>2, <1>3, <2>6 DEF IInv, ListOK, TypeOK
  <2>12. \A q \in Procs : job[q].sale = r.sale => ~At(q, "mint")
    <3> SUFFICES ASSUME NEW q \in Procs, job[q].sale = j.sale, At(q, "mint")
                 PROVE  FALSE
      BY <2>2
    <3> QED
      BY <1>2, <1>5 DEF IInv, JobOK, At
  <2>13. ~Creating(r)
    BY <1>2, <2>2 DEF Creating, InitPCs
  <2> QED
    BY <2>3, <2>5, <2>8, <2>9, <2>10, <2>11, <2>12, <2>13, MoveStep
<1> QED
  BY <1>4, <1>5

LEMMA MintTicketStep ==
    ASSUME IInv, NEW p \in Procs, MintTicket(p)
    PROVE  IInv'
<1> DEFINE j == job[p]
           l == IF j.n + 1 < Qty[j.sale] THEN "mint" ELSE "find"
<1>1. j \in Job /\ JobOK(j) /\ j.pc = "mint" /\ j.n \in Nat
  BY DEF IInv, TypeOK, MintTicket, At, Job
<1>2. /\ j.sale \in Sales /\ j.sale # NoSale /\ rail[j.sale] # "CASH"
      /\ j.goal = "confirm" /\ j.ans = "success" /\ ref[j.sale]
      /\ checkout[j.sale] = "paid" /\ minted[j.sale] = j.n /\ j.n < Qty[j.sale]
      /\ status[j.sale] \notin {"none", "PENDING"} /\ Qty[j.sale] \in Nat
  BY <1>1, WorkingSale, SalesAssumption DEF JobOK
<1>3. UNCHANGED <<rail, status, ref, sent, refunded, holdVars, payVars, tier, todo, faults>>
  BY DEF MintTicket
<1>4. PICK r \in Job : r = [j EXCEPT !.n = j.n + 1, !.pc = l]
  <2>0. j.n + 1 \in Nat
    BY <1>1
  <2>1. [j EXCEPT !.n = j.n + 1] \in Job
    BY <1>1, <2>0, JobFields
  <2>2. l \in PCs
    BY DEF PCs
  <2> QED
    BY <2>1, <2>2, JobFields
<1>5. r.pc = l /\ r.sale = j.sale /\ r.goal = j.goal /\ r.ans = j.ans /\ r.n = j.n + 1
  BY <1>1, <1>4 DEF Job
<1>6. job' = [job EXCEPT ![p] = r]
  BY <1>4 DEF MintTicket, IInv, TypeOK
<1>7. minted' = [minted EXCEPT ![j.sale] = j.n + 1]
  BY <1>2 DEF MintTicket
<1>8. job' \in [Procs -> Job] => TypeOK'
  BY <1>1, <1>2, <1>3, <1>7 DEF IInv, TypeOK, holdVars, payVars
<1>9. /\ minted'[j.sale] = j.n + 1
      /\ \A s \in Sales : s # j.sale => minted'[s] = minted[s]
  BY <1>2, <1>7 DEF IInv, TypeOK
<1>10. JobOK(r)'
  BY <1>1, <1>2, <1>3, <1>5, <1>9 DEF JobOK, InitPCs, HoldPCs, holdVars, payVars
<1>11. ASSUME NEW q \in Procs, q # p PROVE JobOK(job[q])'
  <2>1. /\ job'[q] = job[q] /\ JobOK(job[q])
        /\ job[q].sale # NoSale => job[q].sale \in Sales
    BY <1>6, <1>11 DEF IInv, TypeOK, Job
  <2>2. job[q].sale = j.sale => job[q].pc # "mint"
    BY <1>1, <1>11 DEF IInv, OneMinter, At
  <2> QED
    BY <1>3, <1>9, <2>1, <2>2 DEF JobOK, holdVars, payVars
<1>12. ASSUME NEW s \in Sales PROVE SaleOK(s)'
  <2>1. SaleOK(s)
    BY DEF IInv
  <2> QED
    BY <1>1, <1>2, <1>3, <1>9, <2>1 DEF SaleOK, holdVars, payVars
<1>13. ASSUME NEW q \in Procs PROVE ListOK(q)'
  BY <1>3 DEF IInv, ListOK
<1>14. ~Creating(r)
  BY <1>2, <1>5 DEF Creating, InitPCs
<1> QED
  BY <1>1, <1>5, <1>6, <1>8, <1>10, <1>11, <1>12, <1>13, <1>14, MoveStep

-----------------------------------------------------------------------------
(* The steps that close a hold or fail a sale.                             *)

LEMMA HoldSaveStep ==
    ASSUME IInv, NEW p \in Procs, HoldSave(p)
    PROVE  IInv'
<1> DEFINE j == job[p]
           l == After(j.goal)
<1>1. j \in Job /\ JobOK(j) /\ j.pc = "hold_save"
  BY DEF IInv, TypeOK, HoldSave, At
<1>2. /\ j.sale \in Sales /\ j.sale # NoSale /\ rail[j.sale] # "CASH"
      /\ j.goal \in {"confirm", "release", "sweep"} /\ status[j.sale] # "none"
  BY <1>1, WorkingSale, SalesAssumption DEF JobOK, HoldPCs
<1>3. UNCHANGED <<saleVars, lapsed, payVars, tier, todo, faults>>
  BY DEF HoldSave
<1>4. /\ l \in PCs
      /\ \/ j.goal = "confirm" /\ l = "sold_read"
         \/ j.goal = "release" /\ l = "fail"
         \/ j.goal = "sweep"   /\ l = "sweep_fail"
  BY <1>2 DEF After, PCs
<1>5. PICK r \in Job : r = [j EXCEPT !.pc = l]
  BY <1>1, <1>4, JobFields
<1>6. r.pc = l /\ r.sale = j.sale /\ r.goal = j.goal /\ r.ans = j.ans
  BY <1>1, <1>5 DEF Job
<1>7. job' = [job EXCEPT ![p] = r]
  BY <1>5 DEF HoldSave, Goto, IInv, TypeOK
<1>8. PICK h \in {"confirmed", "released"} : hold' = [hold EXCEPT ![j.sale] = h]
  BY DEF HoldSave
<1>9. job' \in [Procs -> Job] => TypeOK'
  BY <1>2, <1>3, <1>8 DEF IInv, TypeOK, saleVars, payVars
<1>10. \A s \in Sales : s # j.sale => hold'[s] = hold[s]
  BY <1>2, <1>8 DEF IInv, TypeOK
<1>11. JobOK(r)'
  BY <1>1, <1>2, <1>3, <1>4, <1>6 DEF JobOK, InitPCs, HoldPCs, saleVars, payVars
<1>12. ASSUME NEW q \in Procs, q # p PROVE JobOK(job[q])'
  <2>1. job'[q] = job[q] /\ JobOK(job[q])
    BY <1>7, <1>12 DEF IInv, TypeOK
  <2> QED
    BY <1>3, <2>1 DEF JobOK, saleVars, payVars
<1>13. ASSUME NEW s \in Sales PROVE SaleOK(s)'
  <2>1. SaleOK(s)
    BY DEF IInv
  <2> QED
    BY <1>2, <1>3, <1>10, <2>1 DEF SaleOK, saleVars, payVars
<1>14. ASSUME NEW q \in Procs PROVE ListOK(q)'
  BY <1>3 DEF IInv, ListOK, saleVars
<1>15. /\ r.pc # "mint"
       /\ Creating(r) => Creating(j) /\ r.sale = j.sale
  BY <1>1, <1>4, <1>6 DEF Creating, InitPCs
<1> QED
  BY <1>7, <1>9, <1>11, <1>12, <1>13, <1>14, <1>15, MoveStep

(* FAILED is written over any status but COMPLETED-and-synchronous, and    *)
(* with it, by the request that created the sale, its reference.           *)
LEMMA FailStep ==
    ASSUME IInv, NEW p \in Procs, NEW s \in Sales, NEW b \in BOOLEAN, Finish(p),
           status[s] # "none", rail[s] # "CASH",
           status' = [status EXCEPT ![s] = "FAILED"],
           ref' = [ref EXCEPT ![s] = @ \/ b],
           b => ref[s] \/ (job[p].sale = s /\ Creating(job[p])),
           UNCHANGED <<rail, sent, minted, refunded, holdVars, payVars, tier, todo, faults>>
    PROVE  IInv'
<1> USE DEF holdVars, payVars
<1>1. PICK r \in Job : /\ job' = [job EXCEPT ![p] = r]
                       /\ JobOK(r)' /\ ~Creating(r) /\ r.pc # "mint"
  BY FinishedJob
<1>2. job' \in [Procs -> Job] => TypeOK'
  BY DEF IInv, TypeOK
<1>3. status'[s] = "FAILED" /\ \A x \in Sales : x # s => status'[x] = status[x]
  BY DEF IInv, TypeOK
<1>0. (ref[s] => ref'[s]) /\ \A x \in Sales : x # s => ref'[x] = ref[x]
  BY DEF IInv, TypeOK
<1>4. ASSUME NEW q \in Procs, q # p PROVE JobOK(job[q])'
  <2>1. /\ job'[q] = job[q] /\ JobOK(job[q])
        /\ job[q].sale # NoSale => job[q].sale \in Sales
    BY <1>1, <1>4 DEF IInv, TypeOK, Job
  <2>2. CASE ref'[s] = ref[s]
    BY <1>0, <1>3, <2>1, <2>2 DEF JobOK
  <2>3. CASE ref'[s] # ref[s]
    <3>1. s # NoSale /\ job[p].sale = s /\ Creating(job[p])
      BY <2>3, SalesAssumption DEF IInv, TypeOK
    <3>2. job[q].sale = s => ~Creating(job[q])
      BY <1>4, <3>1 DEF IInv, OneCreator
    <3>3. job[q].sale = s => job[q].pc \notin InitPCs
      BY <3>2 DEF Creating
    <3> QED
      BY <1>0, <1>3, <2>1, <3>3 DEF JobOK
  <2> QED
    BY <2>2, <2>3
<1>5. ASSUME NEW x \in Sales PROVE SaleOK(x)'
  <2>1. SaleOK(x)
    BY DEF IInv
  <2> QED
    BY <1>0, <1>3, <2>1 DEF SaleOK
<1>6. ASSUME NEW q \in Procs PROVE ListOK(q)'
  BY <1>0, <1>3 DEF IInv, ListOK, TypeOK
<1> QED
  BY <1>1, <1>2, <1>4, <1>5, <1>6, MoveStep

LEMMA FailSaleStep ==
    ASSUME IInv, NEW p \in Procs, FailSale(p)
    PROVE  IInv'
<1>1. JobOK(job[p]) /\ job[p].pc = "fail" /\ job[p] \in Job
  BY DEF IInv, FailSale, At, TypeOK
<1>2. job[p].sale \in Sales /\ job[p].sale # NoSale
  BY <1>1, WorkingSale, SalesAssumption
<1>3. status[job[p].sale] # "none" /\ rail[job[p].sale] # "CASH"
  BY <1>1, <1>2 DEF JobOK
<1>4. job[p].dirty \in BOOLEAN /\ (ref[job[p].sale] \/ Creating(job[p]))
  BY <1>1, <1>2 DEF JobOK, Job, Creating
<1> QED
  BY <1>2, <1>3, <1>4, FailStep DEF FailSale

LEMMA SweepFailStep ==
    ASSUME IInv, NEW p \in Procs, SweepFail(p)
    PROVE  IInv'
<1> DEFINE s == job[p].sale
<1>1. JobOK(job[p]) /\ job[p].pc = "sweep_fail" /\ tier \in Tier
  BY DEF IInv, SweepFail, At, TypeOK
<1>2. s \in Sales /\ s # NoSale
  BY <1>1, WorkingSale, SalesAssumption
<1>3. status[s] # "none" /\ rail[s] # "CASH"
  BY <1>1, <1>2 DEF JobOK
<1>4. UNCHANGED <<rail, ref, sent, minted, refunded, holdVars, payVars, tier, todo, faults>> /\ Finish(p)
  BY DEF SweepFail
<1>5. CASE status[s] = "PENDING" /\ rail[s] \notin NoAutoFail
  <2>1. status' = [status EXCEPT ![s] = "FAILED"]
    BY <1>5 DEF SweepFail
  <2>2. ref' = [ref EXCEPT ![s] = @ \/ FALSE]
    BY <1>2, <1>4 DEF IInv, TypeOK
  <2> QED
    BY <1>2, <1>3, <1>4, <2>1, <2>2, FailStep
<1>6. CASE ~(status[s] = "PENDING" /\ rail[s] \notin NoAutoFail)
  <2>1. status' = status
    BY <1>6 DEF SweepFail, IInv, TypeOK
  <2>2. UNCHANGED <<saleVars, holdVars, payVars, todo, faults>> /\ tier' \in Tier
    BY <1>1, <1>4, <2>1 DEF saleVars
  <2> QED
    BY <1>4, <2>2, FinishStep
<1> QED
  BY <1>5, <1>6

-----------------------------------------------------------------------------
(* The steps of the background jobs.                                       *)

(* A job that has found sales to work through.                             *)
LEMMA ListStep ==
    ASSUME IInv, NEW p \in Jobs, MayStart(p), NEW found \in SUBSET Sales,
           \A s \in found : /\ status[s] # "none" /\ rail[s] # "CASH"
                            /\ p # Sweeper => rail[s] = p /\ ref[s],
           todo' = [todo EXCEPT ![p] = found], Goto(p, "next"),
           UNCHANGED <<saleVars, holdVars, payVars, tier, faults>>
    PROVE  IInv'
<1>1. p \in Procs /\ p \notin Handlers
  BY SalesAssumption DEF Procs, Jobs, Reconcilers
<1>2. job[p] \in Job /\ JobOK(job[p]) /\ job[p].pc = "idle"
  BY <1>1 DEF IInv, TypeOK, MayStart, At
<1>3. PICK r \in Job : r = [job[p] EXCEPT !.pc = "next"]
  BY <1>2, JobFields DEF PCs
<1>4. /\ r.pc = "next" /\ r.sale = job[p].sale /\ r.goal = job[p].goal
      /\ r.ans = job[p].ans
  BY <1>2, <1>3 DEF Job
<1>5. r.sale = NoSale /\ r.goal = "none" /\ r.ans = "none"
  BY <1>2, <1>4 DEF JobOK
<1>6. job' = [job EXCEPT ![p] = r]
  BY <1>1, <1>3 DEF Goto, IInv, TypeOK
<1>7. tier' \in Tier /\ faults' \in Nat /\ todo' \in [Procs -> SUBSET Sales]
  BY <1>1 DEF IInv, TypeOK
<1>8. \A q \in Procs : ListOK(q)'
  BY <1>1 DEF IInv, TypeOK, ListOK, saleVars
<1>9. JobOK(r) /\ ~Creating(r)
  BY <1>4, <1>5 DEF JobOK, Creating, InitPCs
<1> QED
  BY <1>1, <1>4, <1>6, <1>7, <1>8, <1>9, QuietStep

LEMMA StartSweepStep ==
    ASSUME IInv, StartSweep
    PROVE  IInv'
<1> DEFINE found == {s \in Sales : hold[s] = "held" /\ lapsed[s]}
<1>1. \A s \in found : status[s] # "none" /\ rail[s] # "CASH"
  BY DEF IInv, SaleOK
<1>2. Sweeper \in Jobs
  BY DEF Jobs
<1>3. todo' = [todo EXCEPT ![Sweeper] = found]
  BY DEF StartSweep
<1> QED
  BY <1>1, <1>2, <1>3, ListStep DEF StartSweep

LEMMA StartReconcileStep ==
    ASSUME IInv, NEW p \in Reconcilers, StartReconcile(p)
    PROVE  IInv'
<1> DEFINE stuck == {s \in Sales : rail[s] = p /\ status[s] = "PENDING" /\ ref[s]}
<1>1. \A s \in stuck : status[s] # "none" /\ rail[s] # "CASH" /\ rail[s] = p /\ ref[s]
  BY DEF Reconcilers, Reconciled
<1>2. p \in Jobs
  BY DEF Jobs
<1>3. todo' = [todo EXCEPT ![p] = stuck]
  BY DEF StartReconcile
<1> QED
  BY <1>1, <1>2, <1>3, ListStep DEF StartReconcile

LEMMA NextItemStep ==
    ASSUME IInv, NEW p \in Procs, NextItem(p)
    PROVE  IInv'
<1> DEFINE l == IF p = Sweeper THEN "hold_read"
                ELSE IF p = "YEBOPAY" THEN "query" ELSE "load"
           g == IF p = Sweeper THEN "sweep" ELSE "none"
<1>1. PICK s \in todo[p] :
        /\ todo' = [todo EXCEPT ![p] = @ \ {s}]
        /\ job' = [job EXCEPT ![p] = [IdleJob EXCEPT !.sale = s, !.pc = l, !.goal = g]]
  BY Zenon DEF NextItem
<1>2. UNCHANGED <<saleVars, holdVars, payVars, tier, faults>>
  BY DEF NextItem
<1>3. s \in Sales /\ s # NoSale /\ p \notin Handlers
  BY SalesAssumption DEF IInv, TypeOK, ListOK
<1>4. /\ status[s] # "none" /\ rail[s] # "CASH"
      /\ p # Sweeper => rail[s] = p /\ ref[s]
  BY DEF IInv, ListOK
<1>5. p = Sweeper \/ p \in Reconciled
  BY <1>3 DEF Procs, Jobs, Reconcilers
<1>6. PICK r \in Job : r = [IdleJob EXCEPT !.sale = s, !.pc = l, !.goal = g]
  <2>1. [IdleJob EXCEPT !.sale = s] \in Job
    BY <1>3, IdleIsJob, JobFields
  <2>2. [IdleJob EXCEPT !.sale = s, !.pc = l] \in Job
    BY <2>1, JobFields DEF PCs
  <2> QED
    BY <2>2, JobFields
<1>7. r.pc = l /\ r.sale = s /\ r.goal = g /\ r.ans = "none" /\ r.n = 0
  BY <1>6 DEF IdleJob
<1>8. JobOK(r)
  BY <1>3, <1>4, <1>5, <1>7 DEF JobOK, InitPCs, HoldPCs, Sweeper, Reconciled, Polled
<1>9. ~Creating(r) /\ r.pc # "mint"
  BY <1>7 DEF Creating, InitPCs
<1>10. tier' \in Tier /\ faults' \in Nat /\ todo' \in [Procs -> SUBSET Sales]
  BY <1>1, <1>2 DEF IInv, TypeOK
<1>11. \A q \in Procs : ListOK(q)'
  BY <1>1, <1>2 DEF IInv, TypeOK, ListOK, saleVars
<1> QED
  BY <1>1, <1>2, <1>6, <1>8, <1>9, <1>10, <1>11, QuietStep

LEMMA AbortStep ==
    ASSUME IInv, NEW p \in Procs, Abort(p)
    PROVE  IInv'
<1>1. PICK r \in Job : /\ job' = [job EXCEPT ![p] = r]
                       /\ JobOK(r) /\ ~Creating(r) /\ r.pc # "mint"
  BY FinishedJob DEF Abort
<1>2. UNCHANGED <<saleVars, holdVars, payVars, tier, todo>>
  BY DEF Abort
<1>3. tier' \in Tier /\ faults' \in Nat /\ todo' \in [Procs -> SUBSET Sales]
  BY <1>2 DEF Abort, IInv, TypeOK
<1>4. \A q \in Procs : ListOK(q)'
  BY <1>2 DEF IInv, ListOK, saleVars
<1> QED
  BY <1>1, <1>2, <1>3, <1>4, QuietStep

-----------------------------------------------------------------------------
(* The steps of the world move no process.                                 *)

LEMMA WorldStep ==
    ASSUME IInv, NEW s \in Sales, World(s)
    PROVE  IInv'
<1> USE DEF saleVars, holdVars, payVars
<1>1. TypeOK /\ SaleOK(s)
  BY DEF IInv
<1>2. SUFFICES /\ TypeOK'
               /\ \A p \in Procs : JobOK(job[p])'
               /\ \A x \in Sales : SaleOK(x)'
               /\ \A p \in Procs : ListOK(p)'
               /\ job' = job
  BY DEF IInv, OneCreator, OneMinter, At, Creating
<1>3. \A p \in Procs : job[p].sale # NoSale => job[p].sale \in Sales
  BY DEF IInv, TypeOK, Job
<1>4. CASE RefundTicket(s)
  <2>1. tier' \in Tier /\ refunded' \in [Sales -> Nat]
    BY <1>4 DEF IInv, TypeOK, RefundTicket, Tier
  <2>2. UNCHANGED <<rail, status, ref, sent, minted, holdVars, payVars, job, todo, faults>>
    BY <1>4 DEF RefundTicket
  <2>3. TypeOK'
    BY <2>1, <2>2 DEF IInv, TypeOK
  <2> QED
    BY <2>2, <2>3 DEF IInv, JobOK, SaleOK, ListOK
<1>5. CASE HoldLapses(s)
  <2>1. lapsed' \in [Sales -> BOOLEAN]
    BY <1>5 DEF IInv, TypeOK, HoldLapses
  <2>2. UNCHANGED <<saleVars, hold, payVars, tier, job, todo, faults>>
    BY <1>5 DEF HoldLapses
  <2>3. TypeOK'
    BY <2>1, <2>2 DEF IInv, TypeOK
  <2> QED
    BY <2>2, <2>3 DEF IInv, JobOK, SaleOK, ListOK
<1>6. CASE Pay(s) \/ Reject(s) \/ DeclineAttempt(s)
  <2>1. UNCHANGED <<saleVars, holdVars, tier, job, todo, faults>> /\ checkout[s] = "open"
    BY <1>6 DEF Pay, Reject, DeclineAttempt
  <2>2. PICK c \in {"open", "paid", "mismatch", "rejected"}, e \in Answers :
          /\ checkout' = [checkout EXCEPT ![s] = c]
          /\ posted' = posted \/ posted' = [posted EXCEPT ![s] = @ \cup {e}]
          /\ e = "success" => c = "paid"
    <3>1. CASE Pay(s)
      BY <3>1 DEF Pay, Post, Answers
    <3>2. CASE Reject(s)
      BY <3>2 DEF Reject, Post, Answers
    <3>3. CASE DeclineAttempt(s)
      <4>1. checkout' = [checkout EXCEPT ![s] = "open"]
        BY <2>1, <3>3, <1>1 DEF DeclineAttempt, TypeOK
      <4> QED
        BY <3>3, <4>1 DEF DeclineAttempt, Post, Answers
    <3> QED
      BY <1>6, <3>1, <3>2, <3>3
  <2>3. /\ checkout'[s] = c
        /\ \A x \in Sales : x # s => checkout'[x] = checkout[x] /\ posted'[x] = posted[x]
        /\ "success" \in posted'[s] => "success" \in posted[s] \/ e = "success"
    BY <2>2, <1>1 DEF TypeOK
  <2>4. TypeOK'
    <3>1. checkout' \in [Sales -> {"none", "open", "paid", "mismatch", "rejected"}]
      BY <2>2, <1>1 DEF TypeOK
    <3>2. posted' \in [Sales -> SUBSET Answers]
      BY <2>2, <1>1 DEF TypeOK
    <3> QED
      BY <2>1, <3>1, <3>2, <1>1 DEF TypeOK
  <2>5. ASSUME NEW p \in Procs PROVE JobOK(job[p])'
    <3>1. JobOK(job[p]) /\ job'[p] = job[p]
      BY <2>1 DEF IInv
    <3>2. CASE job[p].sale = s
      BY <2>1, <2>3, <3>1, <3>2 DEF JobOK, InitPCs
    <3>3. CASE job[p].sale # s
      BY <2>1, <2>3, <1>3, <3>1, <3>3 DEF JobOK
    <3> QED
      BY <3>2, <3>3
  <2>6. ASSUME NEW x \in Sales PROVE SaleOK(x)'
    <3>1. SaleOK(x)
      BY DEF IInv
    <3> QED
      BY <1>1, <2>1, <2>2, <2>3, <3>1 DEF SaleOK
  <2>7. ASSUME NEW p \in Procs PROVE ListOK(p)'
    BY <2>1 DEF IInv, ListOK
  <2> QED
    BY <2>1, <2>4, <2>5, <2>6, <2>7
<1> QED
  BY <1>4, <1>5, <1>6 DEF World

-----------------------------------------------------------------------------
(* The invariant is inductive.                                             *)

LEMMA InitIInv == Init => IInv
<1> SUFFICES ASSUME Init PROVE IInv
  OBVIOUS
<1> USE DEF Init
<1>1. TypeOK
  BY IdleIsJob DEF TypeOK
<1>2. \A p \in Procs : /\ job[p].pc = "idle" /\ job[p].sale = NoSale
                       /\ job[p].goal = "none" /\ job[p].ans = "none"
  BY DEF IdleJob
<1>3. \A p \in Procs : JobOK(job[p])
  BY <1>2 DEF JobOK
<1>4. \A s \in Sales : SaleOK(s)
  BY SalesAssumption DEF SaleOK
<1>5. \A p \in Procs : ListOK(p)
  BY DEF ListOK
<1>6. OneCreator /\ OneMinter
  BY <1>2 DEF OneCreator, OneMinter, At
<1> QED
  BY <1>1, <1>3, <1>4, <1>5, <1>6 DEF IInv

LEMMA NextIInv == IInv /\ [Next]_vars => IInv'
<1> SUFFICES ASSUME IInv, [Next]_vars PROVE IInv'
  OBVIOUS
<1>1. ASSUME NEW p \in Handlers, NEW s \in Sales, Request(p, s) PROVE IInv'
  BY <1>1, RequestStep
<1>2. ASSUME NEW p \in Procs, Step(p) PROVE IInv'
  BY <1>2, LocalSteps, SoldWriteStep, QueryCheckoutStep, LoadSaleStep, AskProviderStep,
     CreateSaleStep, CreateHoldStep, CallProviderStep, StoreRefStep, CommitSaleStep,
     ClaimStep, MintTicketStep, HoldSaveStep, FailSaleStep, SweepFailStep, NextItemStep
  DEF Step
<1>3. ASSUME NEW p \in Procs, Abort(p) PROVE IInv'
  BY <1>3, AbortStep
<1>4. CASE StartSweep
  BY <1>4, StartSweepStep
<1>5. ASSUME NEW p \in Reconcilers, StartReconcile(p) PROVE IInv'
  BY <1>5, StartReconcileStep
<1>6. ASSUME NEW s \in Sales, World(s) PROVE IInv'
  BY <1>6, WorldStep
<1>7. CASE UNCHANGED vars
  BY <1>7 DEF vars, saleVars, holdVars, payVars, IInv, TypeOK, JobOK, SaleOK, ListOK,
              OneCreator, OneMinter, Creating, At
<1> QED
  BY <1>1, <1>2, <1>3, <1>4, <1>5, <1>6, <1>7 DEF Next

(* Every reachable state satisfies the inductive invariant.                *)
THEOREM Invariance == Spec => []IInv
  BY InitIInv, NextIInv, PTL DEF Spec

(* Every variable keeps its type; in particular the counters of the tier   *)
(* that adjustReserved and updateTicketsSold store are never negative.     *)
THEOREM TypeCorrect == Spec => []TypeOK
<1>1. IInv => TypeOK
  BY DEF IInv
<1> QED
  BY <1>1, Invariance, PTL

(* However many finalizers run over a sale at once, it never has more      *)
(* tickets than were asked for.                                            *)
THEOREM NeverDoubleMinted == Spec => []NoDoubleMint
<1>1. IInv => NoDoubleMint
  BY DEF IInv, SaleOK, NoDoubleMint
<1> QED
  BY <1>1, Invariance, PTL

(* No ticket of an asynchronous rail without the payment asked for.        *)
THEOREM OnlyPaidIsMinted == Spec => []MintOnlyPaid
<1>1. IInv => MintOnlyPaid
  BY DEF IInv, SaleOK, MintOnlyPaid
<1> QED
  BY <1>1, Invariance, PTL

(* Both at once, as the run checks them.                                   *)
THEOREM EveryMintIsEarned == Spec => []MintsAreEarned
<1>1. NoDoubleMint /\ MintOnlyPaid => MintsAreEarned
  BY DEF MintsAreEarned
<1> QED
  BY <1>1, NeverDoubleMinted, OnlyPaidIsMinted, PTL

(* The decision a step of the code must not undo.                          *)
Settled(s) ==
    \/ status[s] = "FAILED"
    \/ status[s] = "COMPLETED" /\ rail[s] = "CASH"
    \/ status[s] = "COMPLETED" /\ rail[s] \in Polled /\ s \in sent

LEMMA SettledStep ==
    ASSUME IInv, Next, NEW s \in Sales, Settled(s)
    PROVE  status'[s] = status[s]
<1> USE DEF saleVars
<1>1. ASSUME NEW p \in Handlers, NEW x \in Sales, Request(p, x)
      PROVE  status' = status
  BY <1>1, Zenon DEF Request, Initiate, SellTickets, StartPoll, StartWebhook, StartReturn
<1>2. ASSUME NEW p \in Procs, CreateSale(p) \/ CommitSale(p)
      PROVE  status'[s] = status[s]
  <2>1. job[p].sale \in Sales /\ job[p].sale # NoSale /\ JobOK(job[p])
    BY <1>2, WorkingSale, SalesAssumption DEF CreateSale, CommitSale, At, IInv
  <2>2. status[job[p].sale] = "none"
    BY <1>2, <2>1 DEF CreateSale, CommitSale, At, JobOK
  <2>3. job[p].sale # s
    BY <2>2 DEF Settled
  <2> QED
    BY <1>2, <2>1, <2>3 DEF CreateSale, CommitSale, IInv, TypeOK
<1>3. ASSUME NEW p \in Procs, Claim(p) \/ SweepFail(p)
      PROVE  status'[s] = status[s]
  BY <1>3 DEF Claim, SweepFail, Settled, IInv, TypeOK
<1>4. ASSUME NEW p \in Procs, FailSale(p)
      PROVE  status'[s] = status[s]
  <2>1. JobOK(job[p]) /\ job[p].pc = "fail" /\ SaleOK(s)
    BY <1>4 DEF IInv, FailSale, At
  <2>2. job[p].sale \in Sales /\ job[p].sale # NoSale
    BY <2>1, WorkingSale, SalesAssumption
  <2>3. status' = [status EXCEPT ![job[p].sale] = "FAILED"]
    BY <1>4 DEF FailSale
  <2>4. CASE job[p].sale # s
    BY <2>2, <2>3, <2>4 DEF IInv, TypeOK
  <2>5. CASE job[p].sale = s
    <3>1. job[p].goal = "release" /\ rail[s] # "CASH"
      BY <2>1, <2>2, <2>5 DEF JobOK
    <3>2. ~(status[s] = "COMPLETED" /\ rail[s] \in Polled /\ s \in sent)
      BY <2>1, <2>2, <2>5, <3>1 DEF JobOK, SaleOK
    <3> QED
      BY <2>2, <2>3, <2>5, <3>1, <3>2 DEF Settled, IInv, TypeOK
  <2> QED
    BY <2>4, <2>5
<1>5. ASSUME NEW p \in Procs,
             \/ ReserveRead(p) \/ ReserveWrite(p) \/ CreateHold(p) \/ CallProvider(p)
             \/ StoreRef(p) \/ QueryCheckout(p) \/ LoadSale(p) \/ AskProvider(p)
             \/ MintTicket(p) \/ FindHold(p) \/ HoldRead(p) \/ HoldWrite(p)
             \/ HoldSave(p) \/ SoldRead(p) \/ SoldWrite(p) \/ NextItem(p) \/ Abort(p)
      PROVE  status' = status
  BY <1>5, Zenon DEF ReserveRead, ReserveWrite, CreateHold, CallProvider, StoreRef,
              QueryCheckout, LoadSale, AskProvider, MintTicket, FindHold, HoldRead,
              HoldWrite, HoldSave, SoldRead, SoldWrite, NextItem, Abort
<1>6. StartSweep => status' = status
  BY DEF StartSweep
<1>7. ASSUME NEW p \in Reconcilers, StartReconcile(p) PROVE status' = status
  BY <1>7 DEF StartReconcile
<1>8. ASSUME NEW x \in Sales, World(x) PROVE status' = status
  BY <1>8 DEF World, RefundTicket, Pay, Reject, DeclineAttempt, HoldLapses
<1> QED
  BY <1>1, <1>2, <1>3, <1>4, <1>5, <1>6, <1>7, <1>8 DEF Next, Step

(* A failed sale stays failed on every rail; a completed sale, of a polled *)
(* rail whose buyer was sent to pay or of the synchronous sale, stays      *)
(* completed, whatever stale handler writes last.                          *)
THEOREM SettledStays == Spec => SettledIsFinal
<1> DEFINE Kept == \A s \in Sales :
                     \/ status[s] = "FAILED"
                     \/ status[s] = "COMPLETED" /\ rail[s] = "CASH"
                     \/ status[s] = "COMPLETED" /\ rail[s] \in Polled /\ s \in sent
                     => status'[s] = status[s]
<1>1. IInv /\ [Next]_vars => [Kept]_vars
  <2> SUFFICES ASSUME IInv, Next PROVE Kept
    OBVIOUS
  <2> QED
    BY SettledStep DEF Settled
<1>2. Spec => [][Kept]_vars
  <2> HIDE DEF Kept
  <2> QED
    BY <1>1, Invariance, PTL DEF Spec
<1> QED
  BY <1>2 DEF SettledIsFinal

-----------------------------------------------------------------------------
(* What the holds and the webhooks add: a second invariant, inductive      *)
(* relative to IInv.  It does not need that no handler was cut short,      *)
(* except in HeldOK and MintedOK, where a process has yet to do its work.  *)

Reserving == {"create", "res_read", "res_write", "res_create"}

(* On the way from the claim to a confirmed hold.                          *)
Confirming(j) == j.goal = "confirm" /\ j.pc \in {"mint"} \cup HoldPCs

(* An event that says the payment failed, or was not the one asked for.    *)
Evidence(s) == posted[s] \cap {"rejected", "mismatch"} # {}

(* A hold goes from none to held to given back, so that every process past *)
(* its creation finds one; who fails a sale has seen it given back; and a  *)
(* Yoco handler has its answer from an event that was posted.              *)
JobQ(j) ==
    j.sale # NoSale =>
        /\ j.pc \in Reserving => hold[j.sale] = "none"
        /\ j.pc \in Reserving \ {"create"} => status[j.sale] = "PENDING"
        /\ j.pc \notin Reserving /\ j.goal # "sell" => hold[j.sale] # "none"
        /\ j.pc \in {"fail", "sweep_fail"} => hold[j.sale] # "held"
        /\ j.pc = "mint" /\ rail[j.sale] \in Polled /\ j.sale \in sent
             => status[j.sale] = "COMPLETED"
        /\ j.goal = "release" => j.ans # "success"
        /\ rail[j.sale] = "YOCO" /\ j.ans # "none" => j.ans \in posted[j.sale]
        /\ rail[j.sale] = "YOCO" /\ j.pc \in InitPCs /\ status[j.sale] = "FAILED"
             => Evidence(j.sale)

SaleQ(s) ==
    /\ ref[s] => hold[s] # "none"
    /\ minted[s] > 0 /\ rail[s] # "CASH" => ref[s]
    /\ status[s] = "FAILED" /\ rail[s] \in Polled /\ s \in sent => minted[s] = 0
    /\ rail[s] = "YOCO" /\ s \in sent /\ status[s] = "FAILED" => Evidence(s)

(* A settled sale whose hold is not given back has a process about to.     *)
HeldOK(s) ==
    faults = 0 /\ hold[s] = "held" =>
        \/ status[s] = "PENDING"
        \/ \E p \in Procs : job[p].sale = s /\ Confirming(job[p])

(* A completed sale that lacks tickets has a process in the mint loop.     *)
MintedOK(s) ==
    faults = 0 /\ status[s] = "COMPLETED" =>
        \/ minted[s] = Qty[s]
        \/ \E p \in Procs : job[p].sale = s /\ job[p].pc = "mint"

ListQ(p) == \A s \in todo[p] : hold[s] # "none"

QInv ==
    /\ \A p \in Procs : JobQ(job[p])
    /\ \A s \in Sales : SaleQ(s)
    /\ \A s \in Sales : HeldOK(s)
    /\ \A s \in Sales : MintedOK(s)
    /\ \A p \in Procs : ListQ(p)

(* What both invariants say of a process at work.                          *)
LEMMA WorkQ ==
    ASSUME IInv, QInv, NEW p \in Procs, job[p].pc \notin {"idle", "next"}
    PROVE  /\ job[p].sale \in Sales /\ job[p].sale # NoSale
           /\ job[p] \in Job /\ job \in [Procs -> Job]
           /\ JobOK(job[p]) /\ JobQ(job[p])
           /\ SaleOK(job[p].sale) /\ SaleQ(job[p].sale)
BY WorkingSale, SalesAssumption DEF IInv, TypeOK, QInv

(* HeldOK survives a step of p that keeps the hold and the status, unless  *)
(* p was the one confirming the hold and stops.                            *)
LEMMA HeldKept ==
    ASSUME NEW s \in Sales, HeldOK(s), job \in [Procs -> Job],
           NEW p \in Procs, NEW r, job' = [job EXCEPT ![p] = r],
           faults' = 0 => faults = 0,
           hold'[s] = "held" /\ faults' = 0 =>
               /\ hold[s] = "held"
               /\ status[s] = "PENDING" => status'[s] = "PENDING"
               /\ job[p].sale = s /\ Confirming(job[p]) => r.sale = s /\ Confirming(r)
    PROVE  HeldOK(s)'
<1> SUFFICES ASSUME faults' = 0, hold'[s] = "held", status'[s] # "PENDING"
             PROVE  \E q \in Procs : job'[q].sale = s /\ Confirming(job'[q])
  BY DEF HeldOK, Confirming
<1>1. PICK q \in Procs : job[q].sale = s /\ Confirming(job[q])
  BY DEF HeldOK
<1>2. CASE q = p
  <2>1. job'[p] = r /\ r.sale = s /\ Confirming(r)
    BY <1>1, <1>2
  <2> QED
    BY <2>1
<1>3. CASE q # p
  BY <1>1, <1>3
<1> QED
  BY <1>2, <1>3

LEMMA MintedKept ==
    ASSUME NEW s \in Sales, MintedOK(s), job \in [Procs -> Job],
           NEW p \in Procs, NEW r, job' = [job EXCEPT ![p] = r],
           faults' = 0 => faults = 0,
           status'[s] = "COMPLETED" /\ faults' = 0 =>
               /\ status[s] = "COMPLETED"
               /\ minted'[s] = minted[s]
               /\ job[p].sale = s => job[p].pc # "mint"
    PROVE  MintedOK(s)'
<1> SUFFICES ASSUME faults' = 0, status'[s] = "COMPLETED", minted[s] # Qty[s]
             PROVE  \E q \in Procs : job'[q].sale = s /\ job'[q].pc = "mint"
  BY DEF MintedOK
<1>1. PICK q \in Procs : job[q].sale = s /\ job[q].pc = "mint"
  BY DEF MintedOK
<1>2. q # p
  BY <1>1
<1> QED
  BY <1>1, <1>2

(* A step that only moves one process.                                     *)
LEMMA QuietQ ==
    ASSUME IInv, QInv, NEW p \in Procs, NEW r, job' = [job EXCEPT ![p] = r],
           UNCHANGED <<rail, status, ref, sent, hold, minted, posted>>,
           faults' = 0 => faults = 0,
           \A q \in Procs : ListQ(q)',
           JobQ(r),
           faults' = 0 /\ Confirming(job[p]) =>
               \/ hold[job[p].sale] # "held"
               \/ r.sale = job[p].sale /\ Confirming(r),
           faults' = 0 => job[p].pc # "mint"
    PROVE  QInv'
<1>1. job \in [Procs -> Job]
  BY DEF IInv, TypeOK
<1>2. ASSUME NEW q \in Procs PROVE JobQ(job[q])'
  <2>1. job'[q] = IF q = p THEN r ELSE job[q]
    BY <1>1
  <2>2. JobQ(job'[q])
    BY <2>1 DEF QInv
  <2> QED
    BY <2>2 DEF JobQ, Evidence
<1>3. ASSUME NEW s \in Sales PROVE SaleQ(s)'
  BY DEF QInv, SaleQ, Evidence
<1>4. ASSUME NEW s \in Sales PROVE HeldOK(s)'
  <2>1. HeldOK(s)
    BY DEF QInv
  <2> QED
    BY <1>1, <2>1, HeldKept
<1>5. ASSUME NEW s \in Sales PROVE MintedOK(s)'
  <2>1. MintedOK(s)
    BY DEF QInv
  <2> QED
    BY <1>1, <2>1, MintedKept
<1> QED
  BY <1>2, <1>3, <1>4, <1>5 DEF QInv

(* The lists are read from the holds there are, and holds never unhappen.  *)
LEMMA ListsQ ==
    ASSUME QInv, UNCHANGED <<hold, todo>>
    PROVE  \A q \in Procs : ListQ(q)'
BY DEF QInv, ListQ

(* A handler that returns.                                                 *)
LEMMA FinishQ ==
    ASSUME IInv, QInv, NEW p \in Procs, Finish(p),
           UNCHANGED <<rail, status, ref, sent, hold, minted, posted, todo>>,
           faults' = 0 => faults = 0,
           faults' = 0 => job[p].pc # "mint",
           faults' = 0 /\ Confirming(job[p]) => hold[job[p].sale] # "held"
    PROVE  QInv'
<1> DEFINE r == [IdleJob EXCEPT !.pc = IF todo[p] = {} THEN "idle" ELSE "next"]
<1>1. job' = [job EXCEPT ![p] = r]
  BY DEF Finish
<1>2. r.sale = NoSale
  BY DEF IdleJob
<1>3. JobQ(r)
  BY <1>2 DEF JobQ
<1> HIDE DEF r
<1> QED
  BY <1>1, <1>3, ListsQ, QuietQ

-----------------------------------------------------------------------------
(* The steps that store nothing on a sale or a hold.                       *)

LEMMA RequestQ ==
    ASSUME IInv, QInv, NEW p \in Handlers, NEW s \in Sales, Request(p, s)
    PROVE  QInv'
<1>1. p \in Procs /\ s # NoSale
  BY SalesAssumption DEF Procs
<1>2. job[p].pc = "idle"
  <2>1. MayStart(p)
    <3>1. StartWebhook(p, s) => MayStart(p)
      BY Zenon DEF StartWebhook
    <3> QED
      BY <3>1 DEF Request, Initiate, SellTickets, StartPoll, StartReturn
  <2> QED
    BY <2>1 DEF MayStart, At
<1>3. /\ UNCHANGED <<rail, status, ref, sent, hold, minted, posted, todo>>
      /\ faults' = faults
  <2>1. StartWebhook(p, s) => UNCHANGED <<saleVars, holdVars, payVars, tier, todo, faults>>
    BY Zenon DEF StartWebhook
  <2>2. UNCHANGED <<saleVars, holdVars, payVars, tier, todo, faults>>
    BY <2>1 DEF Request, Initiate, SellTickets, StartPoll, StartReturn
  <2> QED
    BY <2>2 DEF saleVars, holdVars, payVars
<1>4. SaleOK(s) /\ SaleQ(s)
  BY DEF IInv, QInv
<1>5. \E r : /\ job' = [job EXCEPT ![p] = r]
             /\ JobQ(r)
  <2>1. CASE Initiate(p, s)
    <3> DEFINE r == [IdleJob EXCEPT !.pc = "create", !.sale = s]
    <3>1. job' = [job EXCEPT ![p] = r]
      BY <2>1 DEF Initiate, Begin
    <3>2. r.sale = s /\ r.pc = "create" /\ r.goal = "none" /\ r.ans = "none"
      BY DEF IdleJob
    <3>3. status[s] = "none"
      BY <2>1 DEF Initiate, Unborn
    <3>4. JobQ(r)
      BY <1>4, <3>2, <3>3 DEF JobQ, SaleOK, Reserving
    <3> QED
      BY <3>1, <3>4
  <2>2. CASE SellTickets(p, s)
    <3> DEFINE r == [IdleJob EXCEPT !.pc = "sold_read", !.sale = s, !.goal = "sell"]
    <3>1. job' = [job EXCEPT ![p] = r]
      BY <2>2 DEF SellTickets
    <3>2. r.sale = s /\ r.pc = "sold_read" /\ r.goal = "sell" /\ r.ans = "none"
      BY DEF IdleJob
    <3>4. JobQ(r)
      BY <3>2 DEF JobQ, Reserving, InitPCs
    <3> QED
      BY <3>1, <3>4
  <2>3. CASE StartPoll(p, s) \/ StartReturn(p, s)
    <3>1. PICK l \in {"load", "query"} : Begin(p, l, s)
      BY <2>3 DEF StartPoll, StartReturn
    <3> DEFINE r == [IdleJob EXCEPT !.pc = l, !.sale = s]
    <3>2. job' = [job EXCEPT ![p] = r]
      BY <3>1 DEF Begin
    <3>3. r.sale = s /\ r.pc = l /\ r.goal = "none" /\ r.ans = "none"
      BY DEF IdleJob
    <3>4. hold[s] # "none"
      BY <2>3, <1>4 DEF StartPoll, StartReturn, SaleQ
    <3>5. JobQ(r)
      BY <3>3, <3>4 DEF JobQ, Reserving, InitPCs
    <3> QED
      BY <3>2, <3>5
  <2>4. CASE StartWebhook(p, s)
    <3>1. PICK e \in posted[s] :
            job' = [job EXCEPT ![p] =
                      [IdleJob EXCEPT !.pc = "load", !.sale = s, !.ans = e]]
      BY <2>4, Zenon DEF StartWebhook
    <3> DEFINE r == [IdleJob EXCEPT !.pc = "load", !.sale = s, !.ans = e]
    <3>3. r.sale = s /\ r.pc = "load" /\ r.goal = "none" /\ r.ans = e
      BY DEF IdleJob
    <3>4. hold[s] # "none"
      BY <2>4, <1>4 DEF StartWebhook, SaleQ
    <3>5. JobQ(r)
      BY <3>1, <3>3, <3>4 DEF JobQ, Reserving, InitPCs
    <3> QED
      BY <3>1, <3>5
  <2> QED
    BY <2>1, <2>2, <2>3, <2>4 DEF Request
<1>6. PICK r : job' = [job EXCEPT ![p] = r] /\ JobQ(r)
  BY <1>5
<1>7. ~Confirming(job[p]) /\ job[p].pc # "mint"
  BY <1>2 DEF Confirming, HoldPCs
<1> QED
  BY <1>1, <1>3, <1>6, <1>7, ListsQ, QuietQ

(* The reads, and the writes of the tier's counters.                       *)
LEMMA LocalQ ==
    ASSUME IInv, QInv, NEW p \in Procs,
           \/ ReserveRead(p) \/ ReserveWrite(p) \/ CallProvider(p) \/ FindHold(p)
           \/ HoldRead(p) \/ HoldWrite(p) \/ SoldRead(p) \/ SoldWrite(p)
    PROVE  QInv'
<1> USE DEF saleVars, holdVars, payVars, At
<1>0. job[p].pc \notin {"idle", "next"}
  BY DEF ReserveRead, ReserveWrite, CallProvider, FindHold, HoldRead, HoldWrite,
         SoldRead, SoldWrite
<1>1. /\ job[p].sale \in Sales /\ job[p].sale # NoSale
      /\ job[p] \in Job /\ job \in [Procs -> Job] /\ JobOK(job[p]) /\ JobQ(job[p])
  BY <1>0, WorkQ
<1>2. UNCHANGED <<rail, status, ref, sent, hold, minted, posted, todo, faults>>
  BY DEF ReserveRead, ReserveWrite, CallProvider, FindHold, HoldRead, HoldWrite,
         SoldRead, SoldWrite
<1>3. CASE ReserveRead(p) \/ ReserveWrite(p)
  <2>01. ReserveRead(p) =>
           job' = [job EXCEPT ![p] = [job[p] EXCEPT !.pc = "res_write", !.doc = tier]]
    BY <1>1 DEF ReserveRead
  <2>02. ReserveWrite(p) =>
           job' = [job EXCEPT ![p] = [job[p] EXCEPT !.pc = "res_create", !.doc = NoDoc]]
    BY <1>1 DEF ReserveWrite
  <2>0. PICK l \in {"res_write", "res_create"} :
          \E d : job' = [job EXCEPT ![p] = [job[p] EXCEPT !.pc = l, !.doc = d]]
    BY <1>3, <2>01, <2>02, Zenon
  <2>1. PICK d : job' = [job EXCEPT ![p] = [job[p] EXCEPT !.pc = l, !.doc = d]]
    BY <2>0, Zenon
  <2> DEFINE r == [job[p] EXCEPT !.pc = l, !.doc = d]
  <2>2. r.pc = l /\ r.sale = job[p].sale /\ r.goal = job[p].goal /\ r.ans = job[p].ans
    BY <1>1 DEF Job
  <2>3. job[p].pc \in {"res_read", "res_write"}
    BY <1>3 DEF ReserveRead, ReserveWrite
  <2>4. JobQ(r)
    BY <1>1, <2>2, <2>3 DEF JobQ, Reserving, InitPCs
  <2>5. ~Confirming(job[p])
    BY <2>3 DEF Confirming, HoldPCs
  <2> QED
    BY <1>2, <2>1, <2>3, <2>4, <2>5, ListsQ, QuietQ
<1>4. CASE CallProvider(p)
  <2>1. job[p].pc = "provider"
    BY <1>4 DEF CallProvider
  <2>2. PICK ok \in BOOLEAN :
          job' = [job EXCEPT ![p].pc   = IF ok THEN "store" ELSE "find",
                             ![p].goal = IF ok THEN "none" ELSE "release"]
    BY <1>4, Zenon DEF CallProvider
  <2> DEFINE l == IF ok THEN "store" ELSE "find"
             g == IF ok THEN "none" ELSE "release"
             r == [job[p] EXCEPT !.pc = l, !.goal = g]
  <2>0. job' = [job EXCEPT ![p] = r]
    BY <1>1, <2>2
  <2>3. r.pc = l /\ r.sale = job[p].sale /\ r.goal = g /\ r.ans = job[p].ans
    BY <1>1 DEF Job
  <2>4. JobQ(r)
    BY <1>1, <2>1, <2>3 DEF JobQ, JobOK, Reserving, InitPCs
  <2>5. ~Confirming(job[p])
    BY <2>1 DEF Confirming, HoldPCs
  <2> HIDE DEF r
  <2> QED
    BY <1>2, <2>0, <2>1, <2>4, <2>5, ListsQ, QuietQ
<1>5. CASE FindHold(p)
  <2> DEFINE l == IF hold[job[p].sale] = "held" THEN "hold_read" ELSE After(job[p].goal)
             r == [job[p] EXCEPT !.pc = l]
  <2>1. job[p].pc = "find" /\ job' = [job EXCEPT ![p] = r]
    BY <1>5 DEF FindHold, Goto
  <2>2. r.pc = l /\ r.sale = job[p].sale /\ r.goal = job[p].goal /\ r.ans = job[p].ans
    BY <1>1 DEF Job
  <2>3. /\ l \in {"hold_read", "sold_read", "fail", "sweep_fail"}
        /\ l \in {"fail", "sweep_fail"} => hold[job[p].sale] # "held"
        /\ hold[job[p].sale] = "held" => l = "hold_read"
    BY DEF After
  <2> HIDE DEF l
  <2>4. JobQ(r)
    BY <1>1, <2>1, <2>2, <2>3 DEF JobQ, Reserving, InitPCs
  <2>5. Confirming(job[p]) /\ hold[job[p].sale] = "held" => Confirming(r)
    BY <2>2, <2>3 DEF Confirming, HoldPCs
  <2> QED
    BY <1>2, <2>1, <2>2, <2>4, <2>5, ListsQ, QuietQ
<1>6. CASE HoldRead(p) \/ HoldWrite(p)
  <2>01. HoldRead(p) =>
           job' = [job EXCEPT ![p] = [job[p] EXCEPT !.pc = "hold_write", !.doc = tier]]
    BY <1>1 DEF HoldRead
  <2>02. HoldWrite(p) =>
           job' = [job EXCEPT ![p] = [job[p] EXCEPT !.pc = "hold_save", !.doc = NoDoc]]
    BY <1>1 DEF HoldWrite
  <2>0. PICK l \in {"hold_write", "hold_save"} :
          \E d : job' = [job EXCEPT ![p] = [job[p] EXCEPT !.pc = l, !.doc = d]]
    BY <1>6, <2>01, <2>02, Zenon
  <2>1. PICK d : job' = [job EXCEPT ![p] = [job[p] EXCEPT !.pc = l, !.doc = d]]
    BY <2>0, Zenon
  <2> DEFINE r == [job[p] EXCEPT !.pc = l, !.doc = d]
  <2>2. r.pc = l /\ r.sale = job[p].sale /\ r.goal = job[p].goal /\ r.ans = job[p].ans
    BY <1>1 DEF Job
  <2>3. job[p].pc \in {"hold_read", "hold_write"}
    BY <1>6 DEF HoldRead, HoldWrite
  <2>4. JobQ(r)
    BY <1>1, <2>2, <2>3 DEF JobQ, Reserving, InitPCs
  <2>5. Confirming(job[p]) => Confirming(r)
    BY <2>2 DEF Confirming, HoldPCs
  <2> QED
    BY <1>2, <2>1, <2>2, <2>3, <2>4, <2>5, ListsQ, QuietQ
<1>7. CASE SoldRead(p)
  <2> DEFINE r == [job[p] EXCEPT !.pc = "sold_write", !.doc = tier]
  <2>1. job[p].pc = "sold_read" /\ job' = [job EXCEPT ![p] = r]
    BY <1>7, <1>1 DEF SoldRead
  <2>2. /\ r.pc = "sold_write"
        /\ r.sale = job[p].sale /\ r.goal = job[p].goal /\ r.ans = job[p].ans
    BY <1>1 DEF Job
  <2>4. JobQ(r)
    BY <1>1, <2>1, <2>2 DEF JobQ, Reserving, InitPCs
  <2>5. ~Confirming(job[p])
    BY <2>1 DEF Confirming, HoldPCs
  <2> QED
    BY <1>2, <2>1, <2>4, <2>5, ListsQ, QuietQ
<1>8. CASE SoldWrite(p)
  <2>1. job[p].pc = "sold_write"
    BY <1>8 DEF SoldWrite
  <2>5. ~Confirming(job[p])
    BY <2>1 DEF Confirming, HoldPCs
  <2>2. CASE job[p].goal = "sell"
    <3> DEFINE r == [job[p] EXCEPT !.pc = "commit", !.doc = NoDoc]
    <3>1. job' = [job EXCEPT ![p] = r]
      BY <1>8, <1>1, <2>2 DEF SoldWrite
    <3>2. r.pc = "commit" /\ r.sale = job[p].sale /\ r.goal = "sell" /\ r.ans = job[p].ans
      BY <1>1, <2>2 DEF Job
    <3>4. JobQ(r)
      BY <1>1, <2>1, <2>2, <3>2 DEF JobQ, Reserving, InitPCs
    <3> QED
      BY <1>2, <2>1, <2>5, <3>1, <3>4, ListsQ, QuietQ
  <2>3. CASE job[p].goal # "sell"
    <3>1. Finish(p)
      BY <1>8, <2>3 DEF SoldWrite
    <3> QED
      BY <1>2, <2>1, <2>5, <3>1, FinishQ
  <2> QED
    BY <2>2, <2>3
<1> QED
  BY <1>3, <1>4, <1>5, <1>6, <1>7, <1>8

(* The finalizer up to its decision.                                       *)
LEMMA FinalizeQ ==
    ASSUME IInv, QInv, NEW p \in Procs,
           QueryCheckout(p) \/ LoadSale(p) \/ AskProvider(p)
    PROVE  QInv'
<1> USE DEF saleVars, holdVars, payVars, At
<1>0. job[p].pc \in {"query", "load", "ask"}
  BY DEF QueryCheckout, LoadSale, AskProvider
<1>1. /\ job[p].sale \in Sales /\ job[p].sale # NoSale
      /\ job[p] \in Job /\ job \in [Procs -> Job] /\ JobOK(job[p]) /\ JobQ(job[p])
  BY <1>0, WorkQ
<1>2. UNCHANGED <<rail, status, ref, sent, hold, minted, posted, todo, faults>>
  BY DEF QueryCheckout, LoadSale, AskProvider
<1>3. ~Confirming(job[p]) /\ job[p].pc # "mint"
  BY <1>0 DEF Confirming, HoldPCs
<1>4. hold[job[p].sale] # "none" /\ job[p].goal = "none"
  BY <1>0, <1>1 DEF JobQ, JobOK, Reserving
<1>5. CASE Finish(p)
  BY <1>2, <1>3, <1>5, FinishQ
<1>6. CASE QueryCheckout(p) /\ ~Finish(p)
  <2> DEFINE a == IF p \in Handlers THEN ReturnOutcome(job[p].sale)
                  ELSE Outcome(job[p].sale)
             r == [job[p] EXCEPT !.pc = "load", !.ans = a]
  <2>1. job' = [job EXCEPT ![p] = r]
    BY <1>6, <1>1 DEF QueryCheckout
  <2> HIDE DEF a
  <2>2. r.pc = "load" /\ r.sale = job[p].sale /\ r.goal = "none"
    BY <1>1, <1>4 DEF Job
  <2>3. rail[job[p].sale] # "YOCO"
    BY <1>6, <1>1 DEF QueryCheckout, JobOK
  <2>4. JobQ(r)
    BY <1>4, <2>2, <2>3 DEF JobQ, Reserving, InitPCs
  <2> QED
    BY <1>2, <1>3, <2>1, <2>4, ListsQ, QuietQ
<1>7. CASE LoadSale(p) /\ Goto(p, "ask")
  <2> DEFINE r == [job[p] EXCEPT !.pc = "ask"]
  <2>1. job' = [job EXCEPT ![p] = r]
    BY <1>7 DEF Goto
  <2>2. r.pc = "ask" /\ r.sale = job[p].sale /\ r.goal = "none" /\ r.ans = job[p].ans
    BY <1>1, <1>4 DEF Job
  <2>4. JobQ(r)
    BY <1>1, <1>4, <2>2 DEF JobQ, Reserving, InitPCs
  <2> QED
    BY <1>2, <1>3, <2>1, <2>4, ListsQ, QuietQ
<1>8. ASSUME NEW a, Decide(p, a),
             rail[job[p].sale] = "YOCO" => a \in posted[job[p].sale]
      PROVE  QInv'
  <2> DEFINE l == IF a = "success" THEN "claim" ELSE "find"
             g == IF a = "success" THEN "confirm" ELSE "release"
             r == [job[p] EXCEPT !.ans = a, !.pc = l, !.goal = g]
  <2>1. job' = [job EXCEPT ![p] = r]
    BY <1>8, <1>1 DEF Decide
  <2>2. r.pc = l /\ r.sale = job[p].sale /\ r.goal = g /\ r.ans = a
    BY <1>1 DEF Job
  <2>3. JobQ(r)
    BY <1>4, <1>8, <2>2 DEF JobQ, Reserving, InitPCs
  <2> HIDE DEF r
  <2> QED
    BY <1>2, <1>3, <2>1, <2>3, ListsQ, QuietQ
<1>9. CASE LoadSale(p) /\ Decide(p, job[p].ans) /\ rail[job[p].sale] \notin Polled
  <2>1. rail[job[p].sale] = "YOCO" => job[p].ans \in posted[job[p].sale]
    BY <1>9, <1>1 DEF LoadSale, JobOK, JobQ
  <2> QED
    BY <1>8, <1>9, <2>1
<1>10. CASE AskProvider(p) /\ ~Finish(p)
  <2>1. Decide(p, Outcome(job[p].sale))
    BY <1>10 DEF AskProvider
  <2>2. rail[job[p].sale] # "YOCO"
    BY <1>10, <1>1 DEF AskProvider, JobOK, Polled
  <2> QED
    BY <1>8, <2>1, <2>2
<1>11. CASE LoadSale(p)
  BY <1>5, <1>7, <1>9, <1>11 DEF LoadSale
<1> QED
  BY <1>5, <1>6, <1>10, <1>11

LEMMA NextItemQ ==
    ASSUME IInv, QInv, NEW p \in Procs, NextItem(p)
    PROVE  QInv'
<1> USE DEF saleVars, holdVars, payVars, At
<1>1. job[p].pc = "next" /\ ~Confirming(job[p])
  BY DEF NextItem, Confirming, HoldPCs
<1>2. UNCHANGED <<rail, status, ref, sent, hold, minted, posted, faults>>
  BY DEF NextItem
<1>3. todo \in [Procs -> SUBSET Sales] /\ ListQ(p) /\ ListOK(p)
  BY DEF IInv, TypeOK, QInv
<1>4. PICK s \in todo[p] :
        /\ todo' = [todo EXCEPT ![p] = @ \ {s}]
        /\ job' = [job EXCEPT ![p] =
             [IdleJob EXCEPT !.sale = s,
                             !.pc   = IF p = Sweeper THEN "hold_read"
                                      ELSE IF p = "YEBOPAY" THEN "query" ELSE "load",
                             !.goal = IF p = Sweeper THEN "sweep" ELSE "none"]]
  BY Zenon DEF NextItem
<1> DEFINE l == IF p = Sweeper THEN "hold_read"
                ELSE IF p = "YEBOPAY" THEN "query" ELSE "load"
           g == IF p = Sweeper THEN "sweep" ELSE "none"
           r == [IdleJob EXCEPT !.sale = s, !.pc = l, !.goal = g]
<1>5. job' = [job EXCEPT ![p] = r]
  BY <1>4
<1>6. r.sale = s /\ r.pc = l /\ r.goal = g /\ r.ans = "none"
  BY DEF IdleJob
<1>7. hold[s] # "none"
  BY <1>3, <1>4 DEF ListQ
<1>8. JobQ(r)
  BY <1>6, <1>7 DEF JobQ, Reserving, InitPCs
<1>9. \A q \in Procs : ListQ(q)'
  BY <1>2, <1>3, <1>4 DEF QInv, ListQ
<1> HIDE DEF r
<1> QED
  BY <1>1, <1>2, <1>5, <1>8, <1>9, QuietQ

(* A job that begins, or a handler cut short.                              *)
LEMMA JobsQ ==
    ASSUME IInv, QInv,
           \/ StartSweep
           \/ \E x \in Reconcilers : StartReconcile(x)
           \/ \E p \in Procs : Abort(p)
    PROVE  QInv'
<1> USE DEF saleVars, holdVars, payVars, At
<1>0. job \in [Procs -> Job] /\ todo \in [Procs -> SUBSET Sales] /\ faults \in Nat
  BY DEF IInv, TypeOK
<1>1. ASSUME NEW p \in Procs, NEW found, job[p].pc = "idle", Goto(p, "next"),
             \A s \in found : hold[s] # "none",
             todo' = [todo EXCEPT ![p] = found],
             UNCHANGED <<rail, status, ref, sent, hold, minted, posted, faults>>
      PROVE  QInv'
  <2> DEFINE r == [job[p] EXCEPT !.pc = "next"]
  <2>1. job' = [job EXCEPT ![p] = r]
    BY <1>1 DEF Goto
  <2>2. job[p].sale = NoSale
    BY <1>1, <1>0 DEF IInv, JobOK, Job
  <2>3. r.sale = NoSale
    BY <2>2, <1>0 DEF Job
  <2>4. JobQ(r)
    BY <2>3 DEF JobQ
  <2>5. \A q \in Procs : ListQ(q)'
    BY <1>0, <1>1 DEF QInv, ListQ
  <2>6. ~Confirming(job[p])
    BY <1>1 DEF Confirming, HoldPCs
  <2> HIDE DEF r
  <2> QED
    BY <1>1, <2>1, <2>4, <2>5, <2>6, QuietQ
<1>2. CASE StartSweep
  <2>1. Sweeper \in Procs
    BY DEF Procs, Jobs
  <2> QED
    BY <1>1, <1>2, <2>1 DEF StartSweep, MayStart
<1>3. ASSUME NEW x \in Reconcilers, StartReconcile(x) PROVE QInv'
  <2>1. x \in Procs
    BY DEF Procs, Jobs
  <2>2. \A s \in {s \in Sales : rail[s] = x /\ status[s] = "PENDING" /\ ref[s]} :
          hold[s] # "none"
    BY DEF QInv, SaleQ
  <2> QED
    BY <1>1, <1>3, <2>1, <2>2 DEF StartReconcile, MayStart
<1>4. ASSUME NEW p \in Procs, Abort(p) PROVE QInv'
  <2>1. Finish(p) /\ faults' # 0
    BY <1>4, <1>0 DEF Abort
  <2> QED
    BY <1>4, <2>1, FinishQ DEF Abort
<1> QED
  BY <1>2, <1>3, <1>4

-----------------------------------------------------------------------------
(* The steps that store something on a sale or a hold.                     *)

(* While a sale is being created without its hold, no one else works on it.*)
LEMMA AloneReserving ==
    ASSUME IInv, QInv, NEW p \in Procs, job[p].pc \in Reserving \cup {"commit"},
           NEW q \in Procs, q # p
    PROVE  job[q].sale # job[p].sale
<1> SUFFICES ASSUME job[q].sale = job[p].sale PROVE FALSE
  OBVIOUS
<1>1. /\ job[p].sale \in Sales /\ job[p].sale # NoSale
      /\ JobOK(job[p]) /\ JobQ(job[p]) /\ SaleOK(job[p].sale)
  BY WorkQ DEF Reserving
<1>2. JobOK(job[q]) /\ JobQ(job[q])
  BY DEF IInv, QInv
<1>3. Creating(job[p])
  BY <1>1 DEF Creating, Reserving, InitPCs, JobOK
<1>4. ~Creating(job[q])
  BY <1>1, <1>3 DEF IInv, OneCreator
<1>5. job[q].pc \notin InitPCs /\ job[q].goal # "sell"
  BY <1>4 DEF Creating
<1>6. hold[job[q].sale] # "none"
  BY <1>1, <1>2, <1>5 DEF JobQ, Reserving, InitPCs
<1>7. hold[job[p].sale] = "none"
  BY <1>1 DEF JobQ, JobOK, SaleOK, Reserving
<1> QED
  BY <1>6, <1>7

(* A step of p that writes one sale and moves p: what is left to show.     *)
SaleMove(p, r, s) ==
    /\ s = job[p].sale /\ job' = [job EXCEPT ![p] = r]
    /\ r.sale \in {s, NoSale}
    /\ UNCHANGED <<rail, posted, todo, faults>>
    /\ \A x \in Sales : x # s =>
         /\ status'[x] = status[x] /\ ref'[x] = ref[x]
         /\ x \in sent' <=> x \in sent
         /\ hold'[x] = hold[x] /\ minted'[x] = minted[x]
    /\ hold[s] # "none" => hold'[s] # "none"
    /\ JobQ(r)'
    /\ \A q \in Procs : q # p /\ job[q].sale = s => JobQ(job[q])'
    /\ SaleQ(s)' /\ HeldOK(s)' /\ MintedOK(s)'

LEMMA SaleQStep ==
    ASSUME IInv, QInv, NEW p \in Procs, NEW r, NEW s \in Sales, SaleMove(p, r, s)
    PROVE  QInv'
<1> USE DEF SaleMove
<1>1. job \in [Procs -> Job] /\ job'[p] = r /\ \A q \in Procs : q # p => job'[q] = job[q]
  BY DEF IInv, TypeOK
<1>2. ASSUME NEW q \in Procs PROVE JobQ(job[q])'
  <2>1. CASE q = p
    BY <1>1, <2>1 DEF JobQ
  <2>2. CASE q # p /\ job[q].sale = s
    BY <2>2
  <2>3. CASE q # p /\ job[q].sale # s
    <3>1. job'[q] = job[q] /\ JobQ(job[q]) /\ job[q].sale \in Sales \cup {NoSale}
      BY <1>1, <2>3 DEF QInv, Job
    <3> QED
      BY <2>3, <3>1 DEF JobQ, Evidence
  <2> QED
    BY <2>1, <2>2, <2>3
<1>3. ASSUME NEW x \in Sales, x # s PROVE SaleQ(x)' /\ HeldOK(x)' /\ MintedOK(x)'
  <2>1. SaleQ(x) /\ HeldOK(x) /\ MintedOK(x)
    BY DEF QInv
  <2>2. SaleQ(x)'
    BY <1>3, <2>1 DEF SaleQ, Evidence
  <2>3. HeldOK(x)'
    BY <1>1, <1>3, <2>1, HeldKept
  <2>4. MintedOK(x)'
    BY <1>1, <1>3, <2>1, MintedKept
  <2> QED
    BY <2>2, <2>3, <2>4
<1>4. ASSUME NEW q \in Procs PROVE ListQ(q)'
  <2>1. ListQ(q) /\ todo'[q] \in SUBSET Sales /\ todo'[q] = todo[q]
    BY DEF QInv, IInv, TypeOK
  <2>2. \A x \in Sales : hold[x] # "none" => hold'[x] # "none"
    OBVIOUS
  <2> QED
    BY <2>1, <2>2 DEF ListQ
<1> QED
  BY <1>2, <1>3, <1>4 DEF QInv

LEMMA CreateQ ==
    ASSUME IInv, QInv, NEW p \in Procs, CreateSale(p) \/ CreateHold(p)
    PROVE  QInv'
<1> USE DEF saleVars, holdVars, payVars, At
<1>0. job[p].pc \in {"create", "res_create"}
  BY DEF CreateSale, CreateHold
<1> PICK s : s = job[p].sale
  OBVIOUS
<1> PICK l : l = IF job[p].pc = "create" THEN "res_read" ELSE "provider"
  OBVIOUS
<1> PICK r : r = [job[p] EXCEPT !.pc = l]
  OBVIOUS
<1>1. /\ s \in Sales /\ s # NoSale
      /\ job[p] \in Job /\ job \in [Procs -> Job] /\ JobOK(job[p]) /\ JobQ(job[p])
      /\ SaleOK(s) /\ SaleQ(s)
  BY <1>0, WorkQ
<1>2. job' = [job EXCEPT ![p] = r]
  BY <1>0 DEF CreateSale, CreateHold, Goto
<1>3. r.pc = l /\ r.sale = s /\ r.goal = "none" /\ r.ans = "none"
  BY <1>0, <1>1 DEF Job, JobOK, InitPCs
<1>4. /\ UNCHANGED <<rail, ref, sent, minted, posted, todo, faults>>
      /\ \A x \in Sales : x # s => status'[x] = status[x] /\ hold'[x] = hold[x]
  BY DEF CreateSale, CreateHold, IInv, TypeOK
<1>5. /\ status'[s] = "PENDING" /\ hold[s] = "none"
      /\ hold'[s] = IF job[p].pc = "create" THEN "none" ELSE "held"
  BY <1>0, <1>1 DEF CreateSale, CreateHold, IInv, TypeOK, JobQ, Reserving
<1>6. \A q \in Procs : q # p => job[q].sale # s
  BY <1>0, AloneReserving DEF Reserving
<1>7. ~ref[s]
  BY <1>0, <1>1 DEF JobOK, InitPCs
<1>8. JobQ(r)'
  BY <1>0, <1>3, <1>4, <1>5 DEF JobQ, Reserving, InitPCs
<1>9. SaleQ(s)' /\ HeldOK(s)' /\ MintedOK(s)'
  BY <1>1, <1>4, <1>5, <1>7 DEF SaleQ, HeldOK, MintedOK
<1>30. SaleMove(p, r, s)
  BY <1>1, <1>2, <1>3, <1>4, <1>5, <1>6, <1>8, <1>9 DEF SaleMove
<1> QED
  BY <1>1, <1>30, SaleQStep

LEMMA StoreRefQ ==
    ASSUME IInv, QInv, NEW p \in Procs, StoreRef(p)
    PROVE  QInv'
<1> USE DEF saleVars, holdVars, payVars, At
<1> PICK s : s = job[p].sale
  OBVIOUS
<1>0. job[p].pc = "store"
  BY DEF StoreRef
<1>1. /\ s \in Sales /\ s # NoSale
      /\ job[p] \in Job /\ job \in [Procs -> Job] /\ JobOK(job[p]) /\ JobQ(job[p])
      /\ SaleOK(s) /\ SaleQ(s)
  BY <1>0, WorkQ
<1>2. UNCHANGED <<rail, status, hold, minted, posted, todo, faults>>
  BY DEF StoreRef
<1>3. /\ hold[s] # "none" /\ job[p].ans = "none" /\ ~Confirming(job[p])
      /\ ~ref[s] /\ rail[s] # "CASH"
  BY <1>0, <1>1 DEF JobQ, JobOK, Reserving, InitPCs, Confirming, HoldPCs
<1>4. \A x \in Sales : x # s => ref'[x] = ref[x] /\ (x \in sent' <=> x \in sent)
  BY <1>1 DEF StoreRef, IInv, TypeOK
<1>5. minted[s] = 0 /\ s \notin sent
  BY <1>1, <1>3 DEF SaleQ, SaleOK, IInv, TypeOK
<1>6. ASSUME NEW q \in Procs, q # p, job[q].sale = s, job'[q] = job[q] PROVE JobQ(job[q])'
  <2>1. JobQ(job[q]) /\ JobOK(job[q])
    BY DEF QInv, IInv
  <2>2. job[q].pc # "mint"
    BY <1>1, <1>3, <1>6, <2>1 DEF JobOK
  <2> QED
    BY <1>2, <1>6, <2>1, <2>2 DEF JobQ, Evidence
<1>7. rail[s] = "YOCO" /\ status[s] = "FAILED" => Evidence(s)
  BY <1>0, <1>1 DEF JobQ, InitPCs
<1>8. SaleQ(s)'
  BY <1>1, <1>2, <1>3, <1>5, <1>7 DEF SaleQ, Evidence
<1>9. HeldOK(s) /\ MintedOK(s)
  BY <1>1 DEF QInv
<1>10. ASSUME NEW r, job' = [job EXCEPT ![p] = r], r.sale \in {s, NoSale}, JobQ(r)'
       PROVE  QInv'
  <2>1. HeldOK(s)'
    BY <1>1, <1>2, <1>3, <1>9, <1>10, HeldKept
  <2>2. MintedOK(s)'
    BY <1>0, <1>1, <1>2, <1>9, <1>10, MintedKept
  <2>3. \A q \in Procs : q # p /\ job[q].sale = s => JobQ(job[q])'
    BY <1>1, <1>6, <1>10
  <2>30. SaleMove(p, r, s)
    BY <1>2, <1>3, <1>4, <1>8, <1>10, <2>1, <2>2, <2>3 DEF SaleMove
  <2> QED
    BY <1>1, <2>30, SaleQStep
<1>11. CASE Finish(p)
  <2> PICK r : r = [IdleJob EXCEPT !.pc = IF todo[p] = {} THEN "idle" ELSE "next"]
    OBVIOUS
  <2>1. job' = [job EXCEPT ![p] = r]
    BY <1>11 DEF Finish
  <2>2. r.sale = NoSale
    BY DEF IdleJob
  <2>3. JobQ(r)'
    BY <2>2 DEF JobQ
  <2> QED
    BY <1>10, <2>1, <2>2, <2>3
<1>12. CASE job' = [job EXCEPT ![p].pc = "find", ![p].goal = "release", ![p].dirty = TRUE]
  <2> PICK r : r = [job[p] EXCEPT !.pc = "find", !.goal = "release", !.dirty = TRUE]
    OBVIOUS
  <2>1. job' = [job EXCEPT ![p] = r]
    BY <1>1, <1>12
  <2>2. r.pc = "find" /\ r.sale = s /\ r.goal = "release" /\ r.ans = "none"
    BY <1>1, <1>3 DEF Job
  <2>3. JobQ(r)'
    BY <1>2, <1>3, <2>2 DEF JobQ, Reserving, InitPCs
  <2> QED
    BY <1>10, <2>1, <2>2, <2>3
<1> QED
  BY <1>11, <1>12, Zenon DEF StoreRef

LEMMA CommitSaleQ ==
    ASSUME IInv, QInv, NEW p \in Procs, CommitSale(p)
    PROVE  QInv'
<1> USE DEF saleVars, holdVars, payVars, At
<1> PICK s : s = job[p].sale
  OBVIOUS
<1> PICK r : r = [IdleJob EXCEPT !.pc = IF todo[p] = {} THEN "idle" ELSE "next"]
  OBVIOUS
<1>0. job[p].pc = "commit"
  BY DEF CommitSale
<1>1. /\ s \in Sales /\ s # NoSale
      /\ job[p] \in Job /\ job \in [Procs -> Job] /\ JobOK(job[p]) /\ JobQ(job[p])
      /\ SaleOK(s) /\ SaleQ(s)
  BY <1>0, WorkQ
<1>2. /\ UNCHANGED <<rail, ref, sent, hold, posted, todo, faults>>
      /\ job' = [job EXCEPT ![p] = r]
  BY DEF CommitSale, Finish
<1>3. r.sale = NoSale
  BY DEF IdleJob
<1>4. \A x \in Sales : x # s => status'[x] = status[x] /\ minted'[x] = minted[x]
  BY <1>1 DEF CommitSale, IInv, TypeOK
<1>5. status'[s] = "COMPLETED" /\ minted'[s] = Qty[s]
  BY <1>1 DEF CommitSale, IInv, TypeOK
<1>6. rail[s] = "CASH" /\ hold[s] = "none" /\ ~ref[s]
  BY <1>0, <1>1 DEF JobOK, SaleOK
<1>7. \A q \in Procs : q # p => job[q].sale # s
  BY <1>0, AloneReserving
<1>8. JobQ(r)'
  BY <1>3 DEF JobQ
<1>9. SaleQ(s)' /\ HeldOK(s)' /\ MintedOK(s)'
  BY <1>2, <1>5, <1>6 DEF SaleQ, HeldOK, MintedOK
<1>30. SaleMove(p, r, s)
  BY <1>1, <1>2, <1>3, <1>4, <1>7, <1>8, <1>9 DEF SaleMove
<1> QED
  BY <1>1, <1>30, SaleQStep

LEMMA ClaimQ ==
    ASSUME IInv, QInv, NEW p \in Procs, Claim(p)
    PROVE  QInv'
<1> USE DEF saleVars, holdVars, payVars, At
<1> PICK s : s = job[p].sale
  OBVIOUS
<1> PICK r : r = [job[p] EXCEPT !.pc = "mint"]
  OBVIOUS
<1>0. job[p].pc = "claim"
  BY DEF Claim
<1>1. /\ s \in Sales /\ s # NoSale
      /\ job[p] \in Job /\ job \in [Procs -> Job] /\ JobOK(job[p]) /\ JobQ(job[p])
      /\ SaleOK(s) /\ SaleQ(s)
  BY <1>0, WorkQ
<1>2. UNCHANGED <<rail, ref, sent, hold, minted, posted, todo, faults>>
  BY DEF Claim
<1>3. hold[s] # "none" /\ job[p].goal = "confirm" /\ ref[s]
  BY <1>0, <1>1 DEF JobQ, JobOK, Reserving
<1>4. CASE status[s] = "PENDING"
  <2>1. /\ job' = [job EXCEPT ![p] = r]
        /\ status'[s] = "COMPLETED" /\ \A x \in Sales : x # s => status'[x] = status[x]
    BY <1>1, <1>4 DEF Claim, Goto, IInv, TypeOK
  <2>2. r.pc = "mint" /\ r.sale = s /\ r.goal = "confirm" /\ r.ans = job[p].ans
    BY <1>1, <1>3 DEF Job
  <2>3. JobQ(r)'
    BY <1>1, <1>2, <1>3, <2>1, <2>2 DEF JobQ, Reserving, InitPCs
  <2>4. ASSUME NEW q \in Procs, q # p, job[q].sale = s PROVE JobQ(job[q])'
    <3>1. job'[q] = job[q] /\ JobQ(job[q])
      BY <1>1, <2>1, <2>4 DEF QInv
    <3>2. job[q].pc \notin Reserving
      BY <1>1, <1>3, <2>4, <3>1 DEF JobQ
    <3> QED
      BY <1>2, <2>1, <2>4, <3>1, <3>2 DEF JobQ, Evidence
  <2>5. job'[p] = r
    BY <1>1, <2>1
  <2>6. SaleQ(s)'
    BY <1>1, <1>2, <2>1 DEF SaleQ
  <2>7. HeldOK(s)' /\ MintedOK(s)'
    BY <2>2, <2>5 DEF HeldOK, MintedOK, Confirming
  <2>20. /\ r.sale \in {s, NoSale} /\ UNCHANGED <<rail, posted, todo, faults>>
         /\ \A x \in Sales : x # s =>
              /\ status'[x] = status[x] /\ ref'[x] = ref[x]
              /\ x \in sent' <=> x \in sent
              /\ hold'[x] = hold[x] /\ minted'[x] = minted[x]
         /\ hold[s] # "none" => hold'[s] # "none"
    BY <1>2, <2>1, <2>2
  <2>21. \A q \in Procs : q # p /\ job[q].sale = s => JobQ(job[q])'
    BY <2>4
  <2>22. s \in Sales
    BY <1>1
  <2>30. SaleMove(p, r, s)
    BY <2>20, <2>21, <2>22, <2>1, <2>3, <2>6, <2>7 DEF SaleMove
  <2> QED
    BY <1>1, <2>30, SaleQStep
<1>5. CASE status[s] # "PENDING"
  <2>1. Finish(p) /\ UNCHANGED status /\ ~Confirming(job[p])
    BY <1>0, <1>5 DEF Claim, Confirming, HoldPCs
  <2> QED
    BY <1>0, <1>2, <2>1, FinishQ
<1> QED
  BY <1>4, <1>5

LEMMA MintTicketQ ==
    ASSUME IInv, QInv, NEW p \in Procs, MintTicket(p)
    PROVE  QInv'
<1> USE DEF saleVars, holdVars, payVars, At
<1> PICK s : s = job[p].sale
  OBVIOUS
<1> PICK l : l = IF job[p].n + 1 < Qty[s] THEN "mint" ELSE "find"
  OBVIOUS
<1> PICK r : r = [job[p] EXCEPT !.n = @ + 1, !.pc = l]
  OBVIOUS
<1>0. job[p].pc = "mint"
  BY DEF MintTicket
<1>1. /\ s \in Sales /\ s # NoSale
      /\ job[p] \in Job /\ job \in [Procs -> Job] /\ JobOK(job[p]) /\ JobQ(job[p])
      /\ SaleOK(s) /\ SaleQ(s)
  BY <1>0, WorkQ
<1>2. UNCHANGED <<rail, status, ref, sent, hold, posted, todo, faults>>
  BY DEF MintTicket
<1>3. /\ job' = [job EXCEPT ![p] = r]
      /\ minted'[s] = minted[s] + 1 /\ \A x \in Sales : x # s => minted'[x] = minted[x]
  BY <1>1 DEF MintTicket, IInv, TypeOK
<1>4. /\ hold[s] # "none" /\ job[p].goal = "confirm" /\ ref[s]
      /\ minted[s] = job[p].n /\ job[p].n < Qty[s] /\ job[p].n \in Nat
      /\ rail[s] \in Polled /\ s \in sent => status[s] = "COMPLETED"
  BY <1>0, <1>1 DEF JobQ, JobOK, Reserving, Job
<1>5. r.pc = l /\ r.sale = s /\ r.goal = "confirm" /\ r.ans = job[p].ans
  BY <1>1, <1>4 DEF Job
<1>6. JobQ(r)'
  BY <1>1, <1>2, <1>4, <1>5 DEF JobQ, Reserving, InitPCs
<1>7. ASSUME NEW q \in Procs, q # p, job[q].sale = s PROVE JobQ(job[q])'
  <2>1. job'[q] = job[q] /\ JobQ(job[q])
    BY <1>1, <1>3, <1>7 DEF QInv
  <2> QED
    BY <1>2, <2>1 DEF JobQ, Evidence
<1>8. job'[p] = r
  BY <1>1, <1>3
<1>9. SaleQ(s)'
  BY <1>1, <1>2, <1>4 DEF SaleQ, Evidence
<1>10. HeldOK(s)'
  BY <1>5, <1>8 DEF HeldOK, Confirming, HoldPCs
<1>11. MintedOK(s)'
  <2>1. Qty[s] \in Nat
    BY <1>1, SalesAssumption
  <2>2. CASE job[p].n + 1 < Qty[s]
    BY <1>5, <1>8, <2>2 DEF MintedOK
  <2>3. CASE ~(job[p].n + 1 < Qty[s])
    BY <1>3, <1>4, <2>1, <2>3 DEF MintedOK
  <2> QED
    BY <2>2, <2>3
<1>20. /\ r.sale \in {s, NoSale} /\ UNCHANGED <<rail, posted, todo, faults>>
       /\ \A x \in Sales : x # s =>
            /\ status'[x] = status[x] /\ ref'[x] = ref[x]
            /\ x \in sent' <=> x \in sent
            /\ hold'[x] = hold[x] /\ minted'[x] = minted[x]
       /\ hold[s] # "none" => hold'[s] # "none"
  BY <1>2, <1>3, <1>5
<1>21. \A q \in Procs : q # p /\ job[q].sale = s => JobQ(job[q])'
  BY <1>7
<1>22. s \in Sales
  BY <1>1
<1>30. SaleMove(p, r, s)
  BY <1>20, <1>21, <1>22, <1>3, <1>6, <1>9, <1>10, <1>11 DEF SaleMove
<1> QED
  BY <1>1, <1>30, SaleQStep

LEMMA HoldSaveQ ==
    ASSUME IInv, QInv, NEW p \in Procs, HoldSave(p)
    PROVE  QInv'
<1> USE DEF saleVars, holdVars, payVars, At
<1> PICK s : s = job[p].sale
  OBVIOUS
<1> PICK l : l = After(job[p].goal)
  OBVIOUS
<1> PICK r : r = [job[p] EXCEPT !.pc = l]
  OBVIOUS
<1>0. job[p].pc = "hold_save"
  BY DEF HoldSave
<1>1. /\ s \in Sales /\ s # NoSale
      /\ job[p] \in Job /\ job \in [Procs -> Job] /\ JobOK(job[p]) /\ JobQ(job[p])
      /\ SaleOK(s) /\ SaleQ(s)
  BY <1>0, WorkQ
<1>2. UNCHANGED <<rail, status, ref, sent, minted, posted, todo, faults>>
  BY DEF HoldSave
<1>3. /\ job' = [job EXCEPT ![p] = r]
      /\ hold'[s] \in {"confirmed", "released"}
      /\ \A x \in Sales : x # s => hold'[x] = hold[x]
  BY <1>1 DEF HoldSave, Goto, IInv, TypeOK
<1>4. l \in {"sold_read", "fail", "sweep_fail"} /\ hold[s] # "none"
  BY <1>0, <1>1 DEF After, JobQ, JobOK, HoldPCs, Reserving
<1>5. r.pc = l /\ r.sale = s /\ r.goal = job[p].goal /\ r.ans = job[p].ans
  BY <1>1 DEF Job
<1>6. JobQ(r)'
  BY <1>1, <1>2, <1>3, <1>4, <1>5 DEF JobQ, Reserving, InitPCs
<1>7. ASSUME NEW q \in Procs, q # p, job[q].sale = s PROVE JobQ(job[q])'
  <2>1. job'[q] = job[q] /\ JobQ(job[q])
    BY <1>1, <1>3, <1>7 DEF QInv
  <2> QED
    BY <1>1, <1>2, <1>3, <1>4, <1>7, <2>1 DEF JobQ, Evidence
<1>8. SaleQ(s)' /\ HeldOK(s)'
  BY <1>1, <1>2, <1>3 DEF SaleQ, Evidence, HeldOK
<1>9. MintedOK(s)'
  <2>1. MintedOK(s)
    BY <1>1 DEF QInv
  <2> QED
    BY <1>0, <1>1, <1>2, <1>3, <2>1, MintedKept
<1>20. /\ r.sale \in {s, NoSale} /\ UNCHANGED <<rail, posted, todo, faults>>
       /\ \A x \in Sales : x # s =>
            /\ status'[x] = status[x] /\ ref'[x] = ref[x]
            /\ x \in sent' <=> x \in sent
            /\ hold'[x] = hold[x] /\ minted'[x] = minted[x]
       /\ hold[s] # "none" => hold'[s] # "none"
  BY <1>2, <1>3, <1>5
<1>21. \A q \in Procs : q # p /\ job[q].sale = s => JobQ(job[q])'
  BY <1>7
<1>22. s \in Sales
  BY <1>1
<1>30. SaleMove(p, r, s)
  BY <1>20, <1>21, <1>22, <1>3, <1>6, <1>8, <1>9 DEF SaleMove
<1> QED
  BY <1>1, <1>30, SaleQStep

(* FailSale on evidence, or because the provider call or the save of the   *)
(* reference threw; SweepFail with its filters.                            *)
LEMMA FailQ ==
    ASSUME IInv, QInv, NEW p \in Procs, FailSale(p) \/ SweepFail(p)
    PROVE  QInv'
<1> USE DEF saleVars, holdVars, payVars, At
<1> PICK s : s = job[p].sale
  OBVIOUS
<1> PICK r : r = [IdleJob EXCEPT !.pc = IF todo[p] = {} THEN "idle" ELSE "next"]
  OBVIOUS
<1>0. job[p].pc \in {"fail", "sweep_fail"}
  BY DEF FailSale, SweepFail
<1>1. /\ s \in Sales /\ s # NoSale
      /\ job[p] \in Job /\ job \in [Procs -> Job] /\ JobOK(job[p]) /\ JobQ(job[p])
      /\ SaleOK(s) /\ SaleQ(s)
  BY <1>0, WorkQ
<1>2. /\ UNCHANGED <<rail, sent, hold, minted, posted, todo, faults>>
      /\ Finish(p) /\ job' = [job EXCEPT ![p] = r]
  BY Zenon DEF FailSale, SweepFail, Finish
<1>3. ~Confirming(job[p]) /\ job[p].pc # "mint"
  BY <1>0 DEF Confirming, HoldPCs
<1>6. /\ ref[s] => ref'[s]
      /\ \A x \in Sales : x # s => ref'[x] = ref[x]
      /\ SweepFail(p) => ref' = ref
  BY <1>1 DEF FailSale, SweepFail, IInv, TypeOK
<1>4. CASE status' = status /\ ref' = ref
  BY <1>2, <1>3, <1>4, FinishQ
<1>5. CASE ~(status' = status /\ ref' = ref)
  <2>1. status'[s] = "FAILED" /\ \A x \in Sales : x # s => status'[x] = status[x]
    BY <1>1, <1>5 DEF FailSale, SweepFail, IInv, TypeOK
  <2>2. hold[s] # "none" /\ hold[s] # "held"
    BY <1>0, <1>1 DEF JobQ, JobOK, Reserving
  <2>9. SweepFail(p) => status[s] = "PENDING" /\ rail[s] \notin NoAutoFail
    BY <1>1, <1>5, <1>6 DEF SweepFail, IInv, TypeOK
  <2>3. /\ rail[s] \in Polled /\ s \in sent => minted[s] = 0
        /\ rail[s] = "YOCO" /\ s \in sent => Evidence(s)
    <3>1. CASE job[p].pc = "sweep_fail"
      <4>1. status[s] = "PENDING" /\ rail[s] \notin NoAutoFail
        BY <2>9, <3>1 DEF FailSale
      <4> QED
        BY <1>1, <4>1 DEF SaleOK, NoAutoFail
    <3>2. CASE job[p].pc = "fail"
      <4>1. job[p].goal = "release" /\ rail[s] # "CASH" /\ job[p].ans # "success"
        BY <1>1, <3>2 DEF JobOK, JobQ
      <4>2. job[p].ans = "none" => s \notin sent
        BY <1>1, <4>1 DEF JobOK
      <4>3. job[p].ans # "none" /\ rail[s] \in Polled
              => checkout[s] \in {"mismatch", "rejected"}
        BY <1>1, <4>1 DEF JobOK
      <4>4. job[p].ans # "none" /\ rail[s] = "YOCO" => Evidence(s)
        <5>1. job[p].ans \in {"success", "mismatch", "rejected", "none"}
          BY <1>1 DEF Job, Answers
        <5> QED
          BY <1>1, <4>1, <5>1 DEF JobQ, Evidence
      <4>5. minted[s] > 0 => ref[s] /\ checkout[s] = "paid"
        BY <1>1, <4>1 DEF SaleQ, SaleOK
      <4>6. minted[s] \in Nat
        BY <1>1 DEF IInv, TypeOK
      <4> QED
        BY <4>2, <4>3, <4>4, <4>5, <4>6
    <3> QED
      BY <1>0, <3>1, <3>2
  <2>4. ASSUME NEW q \in Procs, q # p, job[q].sale = s PROVE JobQ(job[q])'
    <3>1. job'[q] = job[q] /\ JobQ(job[q]) /\ JobOK(job[q])
      BY <1>1, <1>2, <2>4 DEF QInv, IInv
    <3>2. job[q].pc \notin Reserving
      BY <1>1, <2>2, <2>4, <3>1 DEF JobQ
    <3>3. job[q].pc = "mint" => ~(rail[s] \in Polled /\ s \in sent)
      <4> SUFFICES ASSUME job[q].pc = "mint", rail[s] \in Polled, s \in sent PROVE FALSE
        OBVIOUS
      <4>1. ref[s] /\ checkout[s] = "paid" /\ status[s] # "PENDING"
        BY <1>1, <2>4, <3>1 DEF JobOK
      <4>2. job[p].pc = "fail"
        BY <2>9, <4>1 DEF FailSale
      <4>3. job[p].goal = "release"
        BY <1>1, <4>2 DEF JobOK
      <4> QED
        BY <1>1, <4>1, <4>3 DEF JobOK
    <3>4. rail[s] = "YOCO" /\ job[q].pc \in InitPCs => Evidence(s)
      <4> SUFFICES ASSUME rail[s] = "YOCO", job[q].pc \in InitPCs PROVE Evidence(s)
        OBVIOUS
      <4>1. ~ref[s] /\ Creating(job[q])
        BY <1>1, <2>4, <3>1 DEF JobOK, Creating
      <4>2. job[p].pc = "fail"
        BY <2>9 DEF FailSale, NoAutoFail
      <4>3. job[p].goal = "release" /\ job[p].ans # "success"
        BY <1>1, <4>2 DEF JobOK, JobQ
      <4>4. job[p].ans # "none"
        BY <1>1, <2>4, <4>1, <4>3 DEF Creating, IInv, OneCreator
      <4>5. job[p].ans \in {"success", "mismatch", "rejected", "none"}
        BY <1>1 DEF Job, Answers
      <4> QED
        BY <1>1, <4>3, <4>4, <4>5 DEF JobQ, Evidence
    <3> QED
      BY <1>1, <1>2, <2>1, <2>4, <3>1, <3>2, <3>3, <3>4 DEF JobQ, Evidence
  <2>5. SaleQ(s)'
    BY <1>1, <1>2, <1>6, <2>2, <2>3 DEF SaleQ, Evidence
  <2>6. HeldOK(s)' /\ MintedOK(s)'
    BY <1>2, <2>1, <2>2 DEF HeldOK, MintedOK
  <2>7. r.sale = NoSale
    BY DEF IdleJob
  <2>8. JobQ(r)'
    BY <2>7 DEF JobQ
  <2>20. /\ r.sale \in {s, NoSale} /\ UNCHANGED <<rail, posted, todo, faults>>
         /\ \A x \in Sales : x # s =>
              /\ status'[x] = status[x] /\ ref'[x] = ref[x]
              /\ x \in sent' <=> x \in sent
              /\ hold'[x] = hold[x] /\ minted'[x] = minted[x]
         /\ hold[s] # "none" => hold'[s] # "none"
    BY <1>2, <1>6, <2>1, <2>7
  <2>21. \A q \in Procs : q # p /\ job[q].sale = s => JobQ(job[q])'
    BY <2>4
  <2>22. s \in Sales
    BY <1>1
  <2>30. SaleMove(p, r, s)
    BY <2>20, <2>21, <2>22, <1>2, <2>5, <2>6, <2>8 DEF SaleMove
  <2> QED
    BY <1>1, <2>30, SaleQStep
<1> QED
  BY <1>4, <1>5

(* The providers only add to what was posted.                              *)
LEMMA WorldQ ==
    ASSUME IInv, QInv, NEW s \in Sales, World(s)
    PROVE  QInv'
<1>1. UNCHANGED <<rail, status, ref, sent, hold, minted, job, todo, faults>>
  BY DEF World, RefundTicket, Pay, Reject, DeclineAttempt, HoldLapses,
         saleVars, holdVars, payVars
<1>2. \A x \in Sales : posted[x] \subseteq posted'[x]
  <2>1. posted \in [Sales -> SUBSET Answers]
    BY DEF IInv, TypeOK
  <2>2. ASSUME NEW e, Post(s, e) PROVE \A x \in Sales : posted[x] \subseteq posted'[x]
    BY <2>1, <2>2 DEF Post
  <2>3. CASE RefundTicket(s) \/ HoldLapses(s)
    BY <2>3 DEF RefundTicket, HoldLapses, payVars
  <2>4. CASE Pay(s) \/ Reject(s) \/ DeclineAttempt(s)
    BY <2>2, <2>4 DEF Pay, Reject, DeclineAttempt
  <2> QED
    BY <2>3, <2>4 DEF World
<1>3. \A x \in Sales : Evidence(x) => Evidence(x)'
  BY <1>2 DEF Evidence
<1>4. ASSUME NEW q \in Procs PROVE JobQ(job[q])'
  <2>1. JobQ(job[q]) /\ job[q].sale \in Sales \cup {NoSale}
    BY DEF QInv, IInv, TypeOK, Job
  <2> QED
    BY <1>1, <1>2, <1>3, <2>1 DEF JobQ
<1>5. ASSUME NEW x \in Sales PROVE SaleQ(x)' /\ HeldOK(x)' /\ MintedOK(x)'
  <2>1. SaleQ(x) /\ HeldOK(x) /\ MintedOK(x)
    BY DEF QInv
  <2> QED
    BY <1>1, <1>3, <2>1 DEF SaleQ, HeldOK, MintedOK, Confirming
<1>6. ASSUME NEW q \in Procs PROVE ListQ(q)'
  BY <1>1 DEF QInv, ListQ
<1> QED
  BY <1>4, <1>5, <1>6 DEF QInv

-----------------------------------------------------------------------------
(* QInv holds of every reachable state, and so do the properties.          *)

LEMMA InitQInv == Init => QInv
<1> SUFFICES ASSUME Init PROVE QInv
  OBVIOUS
<1> USE DEF Init
<1>1. \A p \in Procs : job[p].sale = NoSale
  BY DEF IdleJob
<1> QED
  BY <1>1 DEF QInv, JobQ, SaleQ, HeldOK, MintedOK, ListQ

LEMMA NextQInv == IInv /\ QInv /\ [Next]_vars => QInv'
<1> SUFFICES ASSUME IInv, QInv, [Next]_vars PROVE QInv'
  OBVIOUS
<1>1. ASSUME NEW p \in Handlers, NEW s \in Sales, Request(p, s) PROVE QInv'
  BY <1>1, RequestQ
<1>2. ASSUME NEW p \in Procs, Step(p) PROVE QInv'
  BY <1>2, LocalQ, FinalizeQ, NextItemQ, CreateQ, StoreRefQ, CommitSaleQ, ClaimQ,
     MintTicketQ, HoldSaveQ, FailQ
  DEF Step
<1>3. CASE \/ StartSweep
           \/ \E x \in Reconcilers : StartReconcile(x)
           \/ \E p \in Procs : Abort(p)
  BY <1>3, JobsQ
<1>4. ASSUME NEW s \in Sales, World(s) PROVE QInv'
  BY <1>4, WorldQ
<1>5. CASE UNCHANGED vars
  BY <1>5 DEF vars, saleVars, holdVars, payVars, QInv, JobQ, SaleQ, HeldOK, MintedOK,
              ListQ, Evidence, Confirming
<1> QED
  BY <1>1, <1>2, <1>3, <1>4, <1>5 DEF Next

THEOREM SaleInvariance == Spec => [](IInv /\ QInv)
<1>1. Init => IInv /\ QInv
  BY InitIInv, InitQInv
<1>2. IInv /\ QInv /\ [Next]_vars => (IInv /\ QInv)'
  BY NextIInv, NextQInv
<1> QED
  BY <1>1, <1>2, PTL DEF Spec

(* When every handler has returned and none was cut short: the hold of a   *)
(* settled sale is given back, a completed sale has all its tickets and a  *)
(* failed one of a polled rail none, whichever handlers raced, unless its  *)
(* buyer was never sent to pay and its reference was stored all the same.  *)
THEOREM QuietIsWhole == Spec => []QuietSalesAreWhole
<1>1. IInv /\ QInv => QuietSalesAreWhole
  <2> SUFFICES ASSUME IInv, QInv, Idle, faults = 0, NEW s \in Sales
               PROVE  /\ hold[s] = "held" => status[s] = "PENDING"
                      /\ status[s] = "COMPLETED" => minted[s] = Qty[s]
                      /\ status[s] = "FAILED" /\ rail[s] \in Polled /\ minted[s] > 0
                         => ref[s] /\ s \notin sent
    BY DEF QuietSalesAreWhole
  <2>1. SaleQ(s) /\ HeldOK(s) /\ MintedOK(s)
    BY DEF QInv
  <2>2. \A p \in Procs : ~Confirming(job[p]) /\ job[p].pc # "mint"
    BY DEF Idle, At, Confirming, HoldPCs
  <2>3. rail[s] \in Polled => rail[s] # "CASH"
    BY DEF Polled
  <2> QED
    BY <2>1, <2>2, <2>3 DEF SaleQ, HeldOK, MintedOK
<1> QED
  BY <1>1, SaleInvariance, PTL

(* The sweep, a thrown provider call and a reference whose save threw      *)
(* leave a Yoco sale alone whose buyer was sent to pay: it fails only      *)
(* after an event that says so.                                            *)
THEOREM YocoNeedsEvidence == Spec => []YocoFailsOnEvidence
<1>1. QInv => YocoFailsOnEvidence
  BY DEF QInv, SaleQ, Evidence, YocoFailsOnEvidence
<1> QED
  BY <1>1, SaleInvariance, PTL

-----------------------------------------------------------------------------
(* The implementation of SalePromise.  What the promise names is the same  *)
(* here, so a step of a handler either is one of its actions, on the sale  *)
(* of that handler, or leaves all of it alone; the invariants say which.   *)

LEMMA InitPromise == Init => Promise!Init
BY DEF Init, Promise!Init

LEMMA StepsAside ==
    \/ \E p \in Handlers, s \in Sales : Request(p, s)
    \/ \E p \in Procs :
         \/ ReserveRead(p) \/ ReserveWrite(p) \/ CreateHold(p)
         \/ QueryCheckout(p) \/ LoadSale(p) \/ AskProvider(p)
         \/ FindHold(p) \/ HoldRead(p) \/ HoldWrite(p) \/ HoldSave(p)
         \/ SoldRead(p) \/ SoldWrite(p) \/ NextItem(p) \/ Abort(p)
    \/ StartSweep
    \/ \E r \in Reconcilers : StartReconcile(r)
    \/ UNCHANGED vars
    => UNCHANGED Promise!pvars
<1>1. ASSUME NEW p \in Handlers, NEW s \in Sales, Request(p, s)
      PROVE  UNCHANGED Promise!pvars
  <2>1. UNCHANGED <<saleVars, payVars>>
    BY <1>1, Zenon DEF Request, Initiate, SellTickets, StartPoll, StartWebhook, StartReturn
  <2> QED
    BY <2>1 DEF Promise!pvars, saleVars, payVars
<1> USE DEF Promise!pvars, saleVars, payVars
<1>2. ASSUME NEW p \in Procs,
             \/ ReserveRead(p) \/ ReserveWrite(p) \/ CreateHold(p)
             \/ QueryCheckout(p) \/ LoadSale(p) \/ AskProvider(p) \/ FindHold(p)
      PROVE  UNCHANGED Promise!pvars
  BY <1>2 DEF ReserveRead, ReserveWrite, CreateHold, QueryCheckout, LoadSale,
              AskProvider, FindHold
<1>3. ASSUME NEW p \in Procs,
             HoldRead(p) \/ HoldWrite(p) \/ HoldSave(p)
      PROVE  UNCHANGED Promise!pvars
  BY <1>3 DEF HoldRead, HoldWrite, HoldSave
<1>6. ASSUME NEW p \in Procs,
             SoldRead(p) \/ SoldWrite(p) \/ NextItem(p) \/ Abort(p)
      PROVE  UNCHANGED Promise!pvars
  BY <1>6, Zenon DEF SoldRead, SoldWrite, NextItem, Abort
<1>4. CASE StartSweep \/ \E r \in Reconcilers : StartReconcile(r)
  BY <1>4 DEF StartSweep, StartReconcile
<1>5. CASE UNCHANGED vars
  BY <1>5 DEF vars
<1> QED
  BY <1>1, <1>2, <1>3, <1>4, <1>5, <1>6

\* A sale is opened or sold by the one request that creates it.
LEMMA CreatePromise ==
    ASSUME IInv, QInv, NEW p \in Procs, CreateSale(p) \/ CommitSale(p)
    PROVE  Promise!Open(job[p].sale) \/ Promise!Sell(job[p].sale)
<1>1. /\ job[p].sale # NoSale /\ JobOK(job[p])
      /\ SaleOK(job[p].sale)
  BY WorkQ DEF CreateSale, CommitSale, At
<1>2. CASE CreateSale(p)
  <2>1. rail[job[p].sale] # "CASH" /\ status[job[p].sale] = "none"
    BY <1>1, <1>2 DEF CreateSale, At, JobOK, InitPCs
  <2> QED
    BY <1>2, <2>1 DEF CreateSale, payVars, Promise!Open, Promise!Decide
<1>3. CASE CommitSale(p)
  <2>1. rail[job[p].sale] = "CASH" /\ status[job[p].sale] = "none"
    BY <1>1, <1>3 DEF CommitSale, At, JobOK
  <2> QED
    BY <1>3, <2>1 DEF CommitSale, payVars, Promise!Sell, Promise!Decide
<1> QED
  BY <1>2, <1>3

\* A payment is opened once, and not for a sale that is completed.
LEMMA ProviderPromise ==
    ASSUME IInv, QInv, NEW p \in Procs, CallProvider(p)
    PROVE  Promise!Present(job[p].sale) \/ UNCHANGED Promise!pvars
<1> DEFINE s == job[p].sale
<1>1. /\ s \in Sales /\ s # NoSale /\ JobOK(job[p]) /\ SaleOK(s)
      /\ checkout \in [Sales -> {"none", "open", "paid", "mismatch", "rejected"}]
      /\ status \in [Sales -> {"none", "PENDING", "COMPLETED", "FAILED"}]
  BY WorkQ DEF CallProvider, At, IInv, TypeOK
<1>2. checkout[s] = "none" /\ status[s] # "none" /\ rail[s] # "CASH"
  BY <1>1 DEF CallProvider, At, JobOK, InitPCs
<1>3. status[s] \in {"PENDING", "FAILED"}
  BY <1>1, <1>2 DEF SaleOK
<1>4. PICK opened \in BOOLEAN :
        checkout' = [checkout EXCEPT ![s] = IF opened THEN "open" ELSE @]
  BY DEF CallProvider
<1>5. UNCHANGED saleVars
  BY DEF CallProvider
<1>6. CASE opened
  BY <1>2, <1>3, <1>4, <1>5, <1>6 DEF saleVars, Promise!Present, Promise!Turn
<1>7. CASE ~opened
  <2>1. checkout' = checkout
    BY <1>1, <1>4, <1>7
  <2> QED
    BY <1>5, <2>1 DEF saleVars, Promise!pvars
<1> QED
  BY <1>6, <1>7

\* The buyer is sent to a page that was opened, before anyone could complete
\* the sale.
LEMMA StoreRefPromise ==
    ASSUME IInv, QInv, NEW p \in Procs, StoreRef(p)
    PROVE  Promise!Send(job[p].sale) \/ UNCHANGED Promise!pvars
<1> DEFINE s == job[p].sale
<1>1. /\ s \in Sales /\ s # NoSale /\ JobOK(job[p]) /\ SaleOK(s) /\ job[p].pc = "store"
      /\ status \in [Sales -> {"none", "PENDING", "COMPLETED", "FAILED"}]
  BY WorkQ DEF StoreRef, At, IInv, TypeOK
<1>2. checkout[s] # "none" /\ status[s] # "none" /\ rail[s] # "CASH" /\ ~ref[s]
  BY <1>1 DEF JobOK, InitPCs
<1>3. status[s] \in {"PENDING", "FAILED"}
  BY <1>1, <1>2 DEF SaleOK
<1>4. UNCHANGED <<rail, status, checkout, minted, refunded>>
  BY DEF StoreRef, payVars
<1>5. sent' = sent \cup {s} \/ sent' = sent
  BY DEF StoreRef
<1> QED
  BY <1>2, <1>3, <1>4, <1>5 DEF Promise!Send, Promise!pvars

\* The claim that wins is the decision, and it rests on the payment.
LEMMA ClaimPromise ==
    ASSUME IInv, QInv, NEW p \in Procs, Claim(p)
    PROVE  Promise!Complete(job[p].sale) \/ UNCHANGED Promise!pvars
<1> DEFINE s == job[p].sale
<1>1. s # NoSale /\ JobOK(job[p])
  BY WorkQ DEF Claim, At
<1>2. checkout[s] = "paid"
  BY <1>1 DEF Claim, At, JobOK
<1>3. CASE status[s] = "PENDING"
  BY <1>2, <1>3 DEF Claim, payVars, Promise!Complete, Promise!Decide
<1>4. CASE status[s] # "PENDING"
  BY <1>4 DEF Claim, payVars, Promise!pvars
<1> QED
  BY <1>3, <1>4

\* Whoever mints has claimed the sale and mints alone.
LEMMA MintPromise ==
    ASSUME IInv, QInv, NEW p \in Procs, MintTicket(p)
    PROVE  Promise!Mint(job[p].sale)
<1> DEFINE s == job[p].sale
<1>1. /\ s \in Sales /\ s # NoSale /\ JobOK(job[p]) /\ JobQ(job[p])
      /\ job[p].pc = "mint"
      /\ rail[s] \in AllRails
      /\ status[s] \in {"none", "PENDING", "COMPLETED", "FAILED"}
  BY WorkQ, SalesAssumption DEF MintTicket, At, IInv, TypeOK
<1>2. /\ checkout[s] = "paid" /\ minted[s] < Qty[s]
      /\ rail[s] # "CASH" /\ status[s] \in {"COMPLETED", "FAILED"}
  BY <1>1 DEF JobOK
<1>3. status[s] = "COMPLETED" \/ (status[s] = "FAILED" /\ Promise!Retracts(s))
  BY <1>1, <1>2 DEF JobQ, AllRails, Promise!Retracts
<1> QED
  BY <1>2, <1>3 DEF MintTicket, payVars, Promise!Mint

\* A save of FAILED finds the sale pending, or failed already, or completed on
\* a rail whose event is taken at its word, or comes from the request that has
\* not sent the buyer to pay.
LEMMA FailPromise ==
    ASSUME IInv, QInv, NEW p \in Procs, FailSale(p) \/ SweepFail(p)
    PROVE  Promise!Fail(job[p].sale) \/ UNCHANGED Promise!pvars
<1> DEFINE s == job[p].sale
<1>1. /\ s \in Sales /\ s # NoSale /\ JobOK(job[p]) /\ SaleOK(s)
      /\ rail[s] \in AllRails
      /\ status \in [Sales -> {"none", "PENDING", "COMPLETED", "FAILED"}]
  BY WorkQ, SalesAssumption DEF FailSale, SweepFail, At, IInv, TypeOK
<1>2. UNCHANGED <<rail, sent, minted, refunded, checkout>>
  BY DEF FailSale, SweepFail, payVars
<1>3. CASE FailSale(p)
  <2>1. /\ job[p].goal = "release" /\ rail[s] # "CASH" /\ status[s] # "none"
        /\ status' = [status EXCEPT ![s] = "FAILED"]
    BY <1>1, <1>3 DEF FailSale, At, JobOK
  <2>2. CASE status[s] = "PENDING"
    BY <1>2, <2>1, <2>2 DEF Promise!Fail, Promise!Decide
  <2>3. CASE status[s] = "COMPLETED"
    <3>1. rail[s] \notin Polled \/ s \notin sent
      BY <1>1, <2>1, <2>3 DEF JobOK, SaleOK
    <3>2. Promise!Retracts(s)
      BY <1>1, <2>1, <3>1 DEF AllRails, Promise!Retracts
    <3> QED
      BY <1>2, <2>1, <2>3, <3>2 DEF Promise!Fail, Promise!Decide
  <2>4. CASE status[s] = "FAILED"
    <3>1. status' = status
      BY <1>1, <2>1, <2>4
    <3> QED
      BY <1>2, <3>1 DEF Promise!pvars
  <2> QED
    BY <1>1, <2>1, <2>2, <2>3, <2>4
<1>4. CASE SweepFail(p)
  <2>1. CASE status[s] = "PENDING" /\ rail[s] \notin NoAutoFail
    BY <1>1, <1>2, <1>4, <2>1 DEF SweepFail, Promise!Fail, Promise!Decide
  <2>2. CASE ~(status[s] = "PENDING" /\ rail[s] \notin NoAutoFail)
    <3>1. status' = status
      BY <1>1, <1>4, <2>2 DEF SweepFail
    <3> QED
      BY <1>2, <3>1 DEF Promise!pvars
  <2> QED
    BY <2>1, <2>2
<1> QED
  BY <1>3, <1>4

LEMMA WorldPromise ==
    ASSUME NEW s \in Sales, World(s)
    PROVE  Promise!Settle(s) \/ Promise!Refund(s) \/ UNCHANGED Promise!pvars
<1>1. CASE Pay(s) \/ Reject(s)
  BY <1>1 DEF Pay, Reject, saleVars, Promise!Settle, Promise!Turn
<1>2. CASE RefundTicket(s)
  BY <1>2 DEF RefundTicket, payVars, Promise!Refund
<1>3. CASE DeclineAttempt(s) \/ HoldLapses(s)
  BY <1>3 DEF DeclineAttempt, HoldLapses, saleVars, payVars, Promise!pvars
<1> QED
  BY <1>1, <1>2, <1>3 DEF World

LEMMA NextPromise ==
    IInv /\ QInv /\ [Next]_vars => [Promise!Next]_(Promise!pvars)
<1> SUFFICES ASSUME IInv, QInv, [Next]_vars
             PROVE  Promise!Next \/ UNCHANGED Promise!pvars
  OBVIOUS
<1>1. ASSUME NEW p \in Procs,
             \/ CreateSale(p) \/ CommitSale(p) \/ CallProvider(p) \/ Claim(p)
             \/ MintTicket(p) \/ FailSale(p) \/ SweepFail(p) \/ StoreRef(p)
      PROVE  Promise!Next \/ UNCHANGED Promise!pvars
  <2>1. job[p].sale \in Sales
    BY <1>1, WorkQ DEF CreateSale, CommitSale, CallProvider, Claim, MintTicket, FailSale,
                       SweepFail, StoreRef, At
  <2>2. \/ Promise!Send(job[p].sale) \/ Promise!Open(job[p].sale) \/ Promise!Sell(job[p].sale)
        \/ Promise!Present(job[p].sale) \/ Promise!Complete(job[p].sale)
        \/ Promise!Mint(job[p].sale) \/ Promise!Fail(job[p].sale)
        \/ UNCHANGED Promise!pvars
    BY <1>1, CreatePromise, ProviderPromise, StoreRefPromise, ClaimPromise, MintPromise,
       FailPromise
  <2> QED
    BY <2>1, <2>2 DEF Promise!Next
<1>2. ASSUME NEW s \in Sales, World(s)
      PROVE  Promise!Next \/ UNCHANGED Promise!pvars
  BY <1>2, WorldPromise DEF Promise!Next
<1> QED
  BY <1>1, <1>2, StepsAside DEF Next, Step

(* Five rails and the cash sale, with every race of their handlers, jobs   *)
(* and webhooks and every request cut short between two awaits, implement  *)
(* SalePromise: one decision a sale, tickets only for its payment.         *)
THEOREM PromiseImplemented == Spec => PromiseIsKept
<1>1. Init => Promise!Init
  BY InitPromise
<1>2. IInv /\ QInv /\ [Next]_vars => [Promise!Next]_(Promise!pvars)
  BY NextPromise
<1> QED
  BY <1>1, <1>2, SaleInvariance, PTL DEF Spec, PromiseIsKept, Promise!Spec

-----------------------------------------------------------------------------
(* The places of a tier.                                                   *)

Block(s, a, b) == {s} \X (a..b)

LEMMA BlockSize ==
    ASSUME NEW s, NEW a \in Nat, NEW b \in Nat, a <= b + 1
    PROVE  /\ IsFiniteSet(Block(s, a, b))
           /\ Cardinality(Block(s, a, b)) = b - a + 1
<1>1. IsFiniteSet({s}) /\ Cardinality({s}) = 1
  BY FS_Singleton
<1>2. IsFiniteSet(a..b) /\ Cardinality(a..b) = IF a > b THEN 0 ELSE b - a + 1
  BY FS_Interval
<1>3. /\ IsFiniteSet({s} \X (a..b))
      /\ Cardinality({s} \X (a..b)) = 1 * Cardinality(a..b)
  BY <1>1, <1>2, FS_Product
<1>4. Cardinality(a..b) = b - a + 1
  BY <1>2
<1> QED
  BY <1>3, <1>4 DEF Block

(* Places of another sale.                                                 *)
LEMMA DisjointUnion ==
    ASSUME NEW A, NEW B, IsFiniteSet(A), IsFiniteSet(B), A \cap B = {}
    PROVE  /\ IsFiniteSet(A \cup B)
           /\ Cardinality(A \cup B) = Cardinality(A) + Cardinality(B)
<1>1. /\ IsFiniteSet(A \cup B)
      /\ Cardinality(A \cup B) = Cardinality(A) + Cardinality(B) - Cardinality(A \cap B)
  BY FS_Union
<1>2. Cardinality(A \cap B) = 0
  BY FS_EmptySet
<1>3. Cardinality(A) \in Nat /\ Cardinality(B) \in Nat
  BY FS_CardinalityType
<1> QED
  BY <1>1, <1>2, <1>3

(* A hold is Qty[s] places more ...                                        *)
LEMMA HeldAdd ==
    ASSUME TypeOK, NEW s \in Sales, hold[s] # "held", IsFiniteSet(HeldPlaces),
           hold' = [hold EXCEPT ![s] = "held"]
    PROVE  IsFiniteSet(HeldPlaces') /\ HeldTickets' = HeldTickets + Qty[s]
<1>1. Qty[s] \in Nat /\ Qty[s] >= 1
  BY SalesAssumption
<1>2. hold'[s] = "held" /\ \A x \in Sales : x # s => hold'[x] = hold[x]
  BY DEF TypeOK
<1>3. HeldPlaces' = HeldPlaces \cup Block(s, 1, Qty[s])
  BY <1>2 DEF HeldPlaces, Block
<1>4. HeldPlaces \cap Block(s, 1, Qty[s]) = {}
  BY DEF HeldPlaces, Block
<1>5. IsFiniteSet(Block(s, 1, Qty[s])) /\ Cardinality(Block(s, 1, Qty[s])) = Qty[s]
  BY <1>1, BlockSize
<1> QED
  BY <1>3, <1>4, <1>5, DisjointUnion DEF HeldTickets

(* ... and Qty[s] places fewer when it is given back.                      *)
LEMMA HeldDrop ==
    ASSUME TypeOK, NEW s \in Sales, hold[s] = "held", IsFiniteSet(HeldPlaces),
           NEW h, h # "held", hold' = [hold EXCEPT ![s] = h]
    PROVE  IsFiniteSet(HeldPlaces') /\ HeldTickets' = HeldTickets - Qty[s]
<1>1. Qty[s] \in Nat /\ Qty[s] >= 1
  BY SalesAssumption
<1>2. hold'[s] = h /\ \A x \in Sales : x # s => hold'[x] = hold[x]
  BY DEF TypeOK
<1>3. HeldPlaces = HeldPlaces' \cup Block(s, 1, Qty[s])
  BY <1>2 DEF HeldPlaces, Block
<1>4. HeldPlaces' \cap Block(s, 1, Qty[s]) = {}
  BY <1>2 DEF HeldPlaces, Block
<1>5. IsFiniteSet(Block(s, 1, Qty[s])) /\ Cardinality(Block(s, 1, Qty[s])) = Qty[s]
  BY <1>1, BlockSize
<1>6. IsFiniteSet(HeldPlaces')
  BY <1>3, FS_Subset
<1>7. Cardinality(HeldPlaces) = Cardinality(HeldPlaces') + Qty[s]
  BY <1>3, <1>4, <1>5, <1>6, DisjointUnion
<1>8. Cardinality(HeldPlaces') \in Nat
  BY <1>6, FS_CardinalityType
<1> QED
  BY <1>1, <1>6, <1>7, <1>8 DEF HeldTickets

LEMMA HeldMin ==
    ASSUME NEW s \in Sales, hold[s] = "held", IsFiniteSet(HeldPlaces)
    PROVE  HeldTickets >= Qty[s]
<1>1. Qty[s] \in Nat /\ Qty[s] >= 1
  BY SalesAssumption
<1>2. Block(s, 1, Qty[s]) \subseteq HeldPlaces
  BY DEF HeldPlaces, Block
<1>3. Cardinality(Block(s, 1, Qty[s])) = Qty[s]
  BY <1>1, BlockSize
<1>4. Cardinality(Block(s, 1, Qty[s])) <= Cardinality(HeldPlaces)
  BY <1>2, FS_Subset
<1> QED
  BY <1>3, <1>4 DEF HeldTickets

(* A ticket minted is one place more, a ticket refunded one fewer.         *)
LEMMA LiveMint ==
    ASSUME TypeOK, NEW s \in Sales, refunded[s] <= minted[s], IsFiniteSet(LivePlaces),
           minted' = [minted EXCEPT ![s] = @ + 1], refunded' = refunded
    PROVE  IsFiniteSet(LivePlaces') /\ LiveTickets' = LiveTickets + 1
<1>1. refunded[s] \in Nat /\ minted[s] \in Nat
  BY DEF TypeOK
<1>2. minted'[s] = minted[s] + 1 /\ \A x \in Sales : x # s => minted'[x] = minted[x]
  BY DEF TypeOK
<1>3. (refunded[s] + 1)..(minted[s] + 1) = ((refunded[s] + 1)..minted[s]) \cup {minted[s] + 1}
  BY <1>1
<1>4. LivePlaces' = LivePlaces \cup {<<s, minted[s] + 1>>}
  BY <1>2, <1>3 DEF LivePlaces
<1>5. <<s, minted[s] + 1>> \notin LivePlaces
  BY <1>1 DEF LivePlaces
<1> QED
  BY <1>4, <1>5, FS_AddElement DEF LiveTickets

LEMMA LiveRefund ==
    ASSUME TypeOK, NEW s \in Sales, refunded[s] < minted[s], IsFiniteSet(LivePlaces),
           refunded' = [refunded EXCEPT ![s] = @ + 1], minted' = minted
    PROVE  IsFiniteSet(LivePlaces') /\ LiveTickets' = LiveTickets - 1
<1>1. refunded[s] \in Nat /\ minted[s] \in Nat
  BY DEF TypeOK
<1>2. refunded'[s] = refunded[s] + 1 /\ \A x \in Sales : x # s => refunded'[x] = refunded[x]
  BY DEF TypeOK
<1>3. (refunded[s] + 1 + 1)..minted[s] = ((refunded[s] + 1)..minted[s]) \ {refunded[s] + 1}
  BY <1>1
<1>4. LivePlaces' = LivePlaces \ {<<s, refunded[s] + 1>>}
  BY <1>2, <1>3 DEF LivePlaces
<1>5. <<s, refunded[s] + 1>> \in LivePlaces
  BY <1>1 DEF LivePlaces
<1> QED
  BY <1>4, <1>5, FS_RemoveElement DEF LiveTickets

(* The tickets of a synchronous sale appear with its commit.               *)
LEMMA LiveSale ==
    ASSUME TypeOK, NEW s \in Sales, refunded[s] = 0, minted[s] = 0, IsFiniteSet(LivePlaces),
           minted' = [minted EXCEPT ![s] = Qty[s]], refunded' = refunded
    PROVE  IsFiniteSet(LivePlaces') /\ LiveTickets' = LiveTickets + Qty[s]
<1>1. Qty[s] \in Nat /\ Qty[s] >= 1
  BY SalesAssumption
<1>2. minted'[s] = Qty[s] /\ \A x \in Sales : x # s => minted'[x] = minted[x]
  BY DEF TypeOK
<1>3. LivePlaces \cap Block(s, 1, Qty[s]) = {}
  BY DEF LivePlaces, Block
<1>4. LivePlaces' = LivePlaces \cup Block(s, 1, Qty[s])
  BY <1>2 DEF LivePlaces, Block
<1>5. IsFiniteSet(Block(s, 1, Qty[s])) /\ Cardinality(Block(s, 1, Qty[s])) = Qty[s]
  BY <1>1, BlockSize
<1> QED
  BY <1>3, <1>4, <1>5, DisjointUnion DEF LiveTickets

-----------------------------------------------------------------------------
(* SInv: a server that takes one request at a time.                        *)

Solo(p) == \A q \in Procs : q # p => At(q, "idle")

(* A paid sale being finalized: COMPLETED, its tickets not yet counted.    *)
Paying(j) == j.goal = "confirm" /\ j.pc \in {"mint", "sold_read", "sold_write"} \cup HoldPCs

(* What the process has counted before it shows, or shown before it is     *)
(* counted.                                                                *)
ExtraReserved(j) == IF j.pc = "res_create" THEN Qty[j.sale]
                    ELSE IF j.pc = "hold_save" THEN -Qty[j.sale] ELSE 0
ExtraSold(j) == IF j.pc = "commit" THEN Qty[j.sale]
                ELSE IF Paying(j) THEN -minted[j.sale] ELSE 0

Account(j) ==
    /\ IsFiniteSet(HeldPlaces) /\ IsFiniteSet(LivePlaces)
    /\ tier.reserved = HeldTickets + ExtraReserved(j)
    /\ tier.sold = LiveTickets + ExtraSold(j)
    /\ j.pc \in {"res_write", "hold_write", "sold_write"} => j.doc = tier
    /\ j.pc \in {"hold_read", "hold_write", "hold_save"} => hold[j.sale] = "held"
    /\ j.pc \in {"sold_read", "sold_write"} => j.goal \in {"sell", "confirm"}
    /\ Paying(j) => /\ refunded[j.sale] = 0
                    /\ j.pc # "mint" => minted[j.sale] = Qty[j.sale]

(* The sweep's list, read when nothing else ran, stays a list of holds.    *)
Swept == \A s \in todo[Sweeper] : hold[s] = "held" /\ job[Sweeper].sale # s

SInv ==
    /\ \A p \in Procs : At(p, "idle") => todo[p] = {}
    /\ \A p \in Procs : ~At(p, "idle") => Solo(p)
    /\ Swept
    /\ \A s \in Sales : refunded[s] <= minted[s]
    /\ faults = 0 => \A p \in Procs : Solo(p) => Account(job[p])

(* A process that has counted nothing that does not show.                  *)
Even(j) ==
    /\ j.pc \notin {"res_write", "res_create", "hold_read", "hold_write", "hold_save",
                     "sold_write", "commit"}
    /\ j.pc = "sold_read" => j.goal = "sell"
    /\ ~Paying(j)

Books ==
    /\ IsFiniteSet(HeldPlaces) /\ IsFiniteSet(LivePlaces)
    /\ tier.reserved = HeldTickets
    /\ tier.sold = LiveTickets

LEMMA TicketsType ==
    ASSUME IsFiniteSet(HeldPlaces), IsFiniteSet(LivePlaces)
    PROVE  HeldTickets \in Nat /\ LiveTickets \in Nat
BY FS_CardinalityType DEF HeldTickets, LiveTickets

LEMMA EvenAccount ==
    ASSUME NEW j, Even(j)
    PROVE  Account(j) <=> Books
<1>1. ExtraReserved(j) = 0 /\ ExtraSold(j) = 0
  BY DEF Even, ExtraReserved, ExtraSold
<1>2. IsFiniteSet(HeldPlaces) /\ IsFiniteSet(LivePlaces)
        => HeldTickets \in Nat /\ LiveTickets \in Nat
  BY TicketsType
<1> QED
  BY <1>1, <1>2 DEF Account, Books, Even

(* A step of one process while the others are at rest.                     *)
SerialMove(p, r) ==
    /\ Solo(p)
    /\ job' = [job EXCEPT ![p] = r]
    /\ r.pc = "idle" => todo'[p] = {}
    /\ \A q \in Procs : q # p => todo'[q] = todo[q]
    /\ \A s \in Sales : refunded'[s] <= minted'[s]
    /\ Swept'
    /\ faults' = 0 => faults = 0
    /\ faults' = 0 => Account(r)'

LEMMA SerialStep ==
    ASSUME IInv, SInv, NEW p \in Procs, NEW r, SerialMove(p, r), TypeOK'
    PROVE  SInv'
<1> USE DEF At
<1>1. job'[p] = r /\ \A q \in Procs : q # p => job'[q] = job[q]
  BY DEF SerialMove, IInv, TypeOK
<1>2. ASSUME NEW q \in Procs, At(q, "idle")' PROVE todo'[q] = {}
  BY <1>1, <1>2 DEF SerialMove, SInv
<1>3. ASSUME NEW q \in Procs, ~At(q, "idle")' PROVE Solo(q)'
  <2>1. q = p
    BY <1>1, <1>3 DEF SerialMove, Solo
  <2> QED
    BY <1>1, <2>1 DEF SerialMove, Solo
<1>4. ASSUME faults' = 0, NEW q \in Procs, Solo(q)' PROVE Account(job[q])'
  <2>1. Account(r)'
    BY <1>4 DEF SerialMove
  <2>2. CASE q = p
    BY <1>1, <2>1, <2>2 DEF Account, Paying, ExtraReserved, ExtraSold
  <2>3. CASE q # p
    <3>1. r.pc = "idle" /\ job'[q].pc = "idle"
      BY <1>1, <1>4, <2>3 DEF Solo, SerialMove
    <3> QED
      BY <2>1, <3>1 DEF Account, Paying, HoldPCs, ExtraReserved, ExtraSold
  <2> QED
    BY <2>2, <2>3
<1> QED
  BY <1>2, <1>3, <1>4 DEF SInv, SerialMove

-----------------------------------------------------------------------------
(* What SInv says of a process that works on a sale.                       *)
LEMMA WorkS ==
    ASSUME IInv, QInv, SInv, NEW p \in Procs, job[p].pc \notin {"idle", "next"}
    PROVE  /\ job[p].sale \in Sales /\ job[p].sale # NoSale
           /\ job[p] \in Job /\ job \in [Procs -> Job]
           /\ JobOK(job[p]) /\ JobQ(job[p]) /\ SaleOK(job[p].sale)
           /\ Qty[job[p].sale] \in Nat /\ Qty[job[p].sale] >= 1
           /\ minted[job[p].sale] \in Nat /\ refunded[job[p].sale] \in Nat
           /\ refunded[job[p].sale] <= minted[job[p].sale]
           /\ tier \in Tier
           /\ Solo(p)
           /\ faults = 0 => Account(job[p])
<1>1. job[p].sale \in Sales
  BY WorkingSale
<1>2. Solo(p)
  BY DEF SInv, At
<1> QED
  BY <1>1, <1>2, WorkQ, SalesAssumption DEF IInv, TypeOK, SInv

(* A step that leaves the sales, the holds and the lists as they are.      *)
LEMMA LocalSerial ==
    ASSUME IInv, SInv, TypeOK', NEW p \in Procs, NEW r, Solo(p),
           job' = [job EXCEPT ![p] = r],
           r.pc = "idle" => todo[p] = {},
           p # Sweeper \/ r.sale \in {job[p].sale, NoSale},
           UNCHANGED <<hold, minted, refunded, todo, faults>>,
           faults = 0 => Account(r)'
    PROVE  SInv'
<1>1. job'[p] = r /\ \A q \in Procs : q # p => job'[q] = job[q]
  BY DEF IInv, TypeOK
<1>2. Swept'
  <2>1. todo[Sweeper] \subseteq Sales /\ NoSale \notin Sales /\ Sweeper \in Procs
    BY SalesAssumption DEF IInv, TypeOK, Procs, Jobs
  <2> QED
    BY <1>1, <2>1 DEF SInv, Swept
<1>3. \A s \in Sales : refunded'[s] <= minted'[s]
  BY DEF SInv
<1>4. SerialMove(p, r)
  BY <1>2, <1>3 DEF SerialMove
<1> QED
  BY <1>4, SerialStep

LEMMA FinishS ==
    ASSUME IInv, SInv, TypeOK', NEW p \in Procs, Solo(p), Finish(p),
           UNCHANGED <<hold, minted, refunded, todo, faults>>,
           faults = 0 => Books'
    PROVE  SInv'
<1> PICK r : r = [IdleJob EXCEPT !.pc = IF todo[p] = {} THEN "idle" ELSE "next"]
  OBVIOUS
<1>1. job' = [job EXCEPT ![p] = r]
  BY DEF Finish
<1>2. r.sale = NoSale /\ r.pc = IF todo[p] = {} THEN "idle" ELSE "next"
  BY DEF IdleJob
<1>3. faults = 0 => Account(r)'
  <2> SUFFICES ASSUME faults = 0 PROVE Account(r)'
    OBVIOUS
  <2>1. Books' /\ HeldTickets' \in Nat /\ LiveTickets' \in Nat
    BY FS_CardinalityType DEF HeldTickets, LiveTickets, Books
  <2>2. r.pc \in {"idle", "next"}
    BY <1>2
  <2> QED
    BY <2>1, <2>2 DEF Books, Account, Paying, HoldPCs, ExtraReserved, ExtraSold
<1>4. /\ r.pc = "idle" => todo[p] = {}
      /\ p # Sweeper \/ r.sale \in {job[p].sale, NoSale}
  BY <1>2
<1> QED
  BY <1>1, <1>3, <1>4, LocalSerial

(* A step that leaves the counters and what they count as they are, by a   *)
(* process that has nothing pending.                                       *)
LEMMA EvenS ==
    ASSUME IInv, SInv, TypeOK', NEW p \in Procs, NEW r, Solo(p),
           job' = [job EXCEPT ![p] = r],
           r.pc # "idle", p # Sweeper \/ r.sale = job[p].sale,
           UNCHANGED <<hold, minted, refunded, tier, todo, faults>>,
           Even(job[p]), Even(r)
    PROVE  SInv'
<1>1. faults = 0 => Books
  BY EvenAccount DEF SInv
<1>2. faults = 0 => Account(r)
  BY <1>1, EvenAccount
<1>3. Account(r) => Account(r)'
  BY DEF Account, ExtraReserved, ExtraSold, HeldTickets, LiveTickets, HeldPlaces, LivePlaces,
         Paying
<1> QED
  BY <1>2, <1>3, LocalSerial

LEMMA EvenFinishS ==
    ASSUME IInv, SInv, TypeOK', NEW p \in Procs, Solo(p), Finish(p),
           UNCHANGED <<hold, minted, refunded, tier, todo, faults>>,
           Even(job[p])
    PROVE  SInv'
<1>1. faults = 0 => Books
  BY EvenAccount DEF SInv
<1>2. Books => Books'
  BY DEF Books, HeldTickets, LiveTickets, HeldPlaces, LivePlaces
<1> QED
  BY <1>1, <1>2, FinishS

(* The reads, and the writes of the tier's counters.                       *)
LEMMA LocalS ==
    ASSUME IInv, QInv, SInv, TypeOK', NEW p \in Procs,
           \/ ReserveRead(p) \/ ReserveWrite(p) \/ CallProvider(p) \/ FindHold(p)
           \/ HoldRead(p) \/ HoldWrite(p) \/ SoldRead(p) \/ SoldWrite(p)
    PROVE  SInv'
<1> USE DEF saleVars, holdVars, payVars, At
<1> PICK s : s = job[p].sale
  OBVIOUS
<1>0. job[p].pc \notin {"idle", "next"}
  BY DEF ReserveRead, ReserveWrite, CallProvider, FindHold, HoldRead, HoldWrite,
         SoldRead, SoldWrite
<1>1. /\ s \in Sales /\ s # NoSale
      /\ job[p] \in Job /\ job \in [Procs -> Job] /\ JobOK(job[p]) /\ JobQ(job[p])
      /\ Qty[s] \in Nat /\ Qty[s] >= 1 /\ minted[s] \in Nat /\ refunded[s] \in Nat
      /\ tier \in Tier /\ Solo(p)
      /\ faults = 0 => Account(job[p])
  BY <1>0, WorkS
<1>2. UNCHANGED <<hold, minted, refunded, todo, faults>>
  BY DEF ReserveRead, ReserveWrite, CallProvider, FindHold, HoldRead, HoldWrite,
         SoldRead, SoldWrite
<1>3. /\ HeldPlaces' = HeldPlaces /\ HeldTickets' = HeldTickets
      /\ LivePlaces' = LivePlaces /\ LiveTickets' = LiveTickets
  BY <1>2 DEF HeldPlaces, LivePlaces, HeldTickets, LiveTickets
<1>4. Account(job[p]) => HeldTickets \in Nat /\ LiveTickets \in Nat
  BY TicketsType DEF Account
<1>5. ASSUME NEW r, job' = [job EXCEPT ![p] = r], r.pc # "idle", r.sale = s,
             Account(job[p]) => Account(r)'
      PROVE  SInv'
  BY <1>1, <1>2, <1>5, LocalSerial
<1>6. CASE ReserveRead(p) \/ HoldRead(p) \/ SoldRead(p)
  <2> PICK l : l = IF job[p].pc = "res_read" THEN "res_write"
                   ELSE IF job[p].pc = "hold_read" THEN "hold_write" ELSE "sold_write"
    OBVIOUS
  <2> PICK r : r = [job[p] EXCEPT !.pc = l, !.doc = tier]
    OBVIOUS
  <2>1. /\ job[p].pc \in {"res_read", "hold_read", "sold_read"}
        /\ job' = [job EXCEPT ![p] = r] /\ tier' = tier
    BY <1>6, <1>1 DEF ReserveRead, HoldRead, SoldRead
  <2>2. r.pc = l /\ r.sale = s /\ r.goal = job[p].goal /\ r.doc = tier
    BY <1>1 DEF Job
  <2>3. Account(job[p]) => Account(r)'
    BY <1>1, <1>2, <1>3, <2>1, <2>2
    DEF Account, Paying, HoldPCs, ExtraReserved, ExtraSold
  <2>4. r.pc # "idle"
    BY <2>2
  <2> QED
    BY <1>5, <2>1, <2>2, <2>3, <2>4
<1>7. CASE ReserveWrite(p)
  <2> PICK r : r = [job[p] EXCEPT !.pc = "res_create", !.doc = NoDoc]
    OBVIOUS
  <2>1. /\ job[p].pc = "res_write" /\ job' = [job EXCEPT ![p] = r]
        /\ tier' = [tier EXCEPT !.reserved = job[p].doc.reserved + Qty[s]]
    BY <1>7, <1>1 DEF ReserveWrite
  <2>2. r.pc = "res_create" /\ r.sale = s /\ r.goal = job[p].goal
    BY <1>1 DEF Job
  <2>3. job[p].goal = "none"
    BY <1>1, <2>1 DEF JobOK, InitPCs
  <2>4. Account(job[p]) =>
          tier'.reserved = tier.reserved + Qty[s] /\ tier'.sold = tier.sold
    BY <1>1, <2>1 DEF Tier, Account
  <2>5. Account(job[p]) => Account(r)'
    BY <1>1, <1>2, <1>3, <1>4, <2>1, <2>2, <2>3, <2>4
    DEF Account, Paying, HoldPCs, ExtraReserved, ExtraSold
  <2> QED
    BY <1>5, <2>1, <2>2, <2>5
<1>8. CASE CallProvider(p)
  <2>1. job[p].pc = "provider" /\ tier' = tier
    BY <1>8 DEF CallProvider
  <2>2. PICK ok \in BOOLEAN :
          job' = [job EXCEPT ![p].pc   = IF ok THEN "store" ELSE "find",
                             ![p].goal = IF ok THEN "none" ELSE "release"]
    BY <1>8, Zenon DEF CallProvider
  <2> PICK l : l = IF ok THEN "store" ELSE "find"
    OBVIOUS
  <2> PICK g : g = IF ok THEN "none" ELSE "release"
    OBVIOUS
  <2> PICK r : r = [job[p] EXCEPT !.pc = l, !.goal = g]
    OBVIOUS
  <2>3. job' = [job EXCEPT ![p] = r]
    BY <1>1, <2>2
  <2>4. r.pc = l /\ r.sale = s /\ r.goal = g
    BY <1>1 DEF Job
  <2>5. Account(job[p]) => Account(r)'
    BY <1>1, <1>2, <1>3, <1>4, <2>1, <2>4
    DEF Account, Paying, HoldPCs, ExtraReserved, ExtraSold
  <2>6. r.pc # "idle"
    BY <2>4
  <2> QED
    BY <1>5, <2>3, <2>4, <2>5, <2>6
<1>9. CASE FindHold(p)
  <2> PICK l : l = IF hold[s] = "held" THEN "hold_read" ELSE After(job[p].goal)
    OBVIOUS
  <2> PICK r : r = [job[p] EXCEPT !.pc = l]
    OBVIOUS
  <2>1. job[p].pc = "find" /\ job' = [job EXCEPT ![p] = r] /\ tier' = tier
    BY <1>9, <1>1 DEF FindHold, Goto
  <2>2. r.pc = l /\ r.sale = s /\ r.goal = job[p].goal
    BY <1>1 DEF Job
  <2>3. /\ l \in {"hold_read", "sold_read", "fail", "sweep_fail"}
        /\ l = "hold_read" => hold[s] = "held"
        /\ l = "sold_read" => job[p].goal = "confirm"
        /\ l \in {"fail", "sweep_fail"} => job[p].goal # "confirm"
    BY DEF After
  <2>5. Account(job[p]) => Account(r)'
    BY <1>1, <1>2, <1>3, <1>4, <2>1, <2>2, <2>3
    DEF Account, Paying, HoldPCs, ExtraReserved, ExtraSold
  <2> QED
    BY <1>5, <2>1, <2>2, <2>3, <2>5
<1>10. CASE HoldWrite(p)
  <2> PICK r : r = [job[p] EXCEPT !.pc = "hold_save", !.doc = NoDoc]
    OBVIOUS
  <2>1. /\ job[p].pc = "hold_write" /\ job' = [job EXCEPT ![p] = r]
        /\ tier' = IF job[p].doc.reserved = 0 THEN tier
                   ELSE [tier EXCEPT !.reserved = NonNeg(job[p].doc.reserved - Qty[s])]
    BY <1>10, <1>1 DEF HoldWrite
  <2>2. r.pc = "hold_save" /\ r.sale = s /\ r.goal = job[p].goal
    BY <1>1 DEF Job
  <2>3. Account(job[p]) => HeldTickets >= Qty[s]
    BY <1>1, <2>1, HeldMin DEF Account
  <2>4. Account(job[p]) =>
          tier'.reserved = tier.reserved - Qty[s] /\ tier'.sold = tier.sold
    BY <1>1, <1>4, <2>1, <2>3 DEF Tier, NonNeg, Account, ExtraReserved
  <2>5. Account(job[p]) => Account(r)'
    BY <1>1, <1>2, <1>3, <1>4, <2>1, <2>2, <2>4
    DEF Account, Paying, HoldPCs, ExtraReserved, ExtraSold
  <2> QED
    BY <1>5, <2>1, <2>2, <2>5
<1>11. CASE SoldWrite(p)
  <2>1. /\ job[p].pc = "sold_write"
        /\ tier' = [tier EXCEPT !.sold = job[p].doc.sold + Qty[s]]
    BY <1>11, <1>1 DEF SoldWrite
  <2>4. Account(job[p]) =>
          tier'.sold = tier.sold + Qty[s] /\ tier'.reserved = tier.reserved
    BY <1>1, <2>1 DEF Tier, Account
  <2>2. CASE job[p].goal = "sell"
    <3> PICK r : r = [job[p] EXCEPT !.pc = "commit", !.doc = NoDoc]
      OBVIOUS
    <3>1. job' = [job EXCEPT ![p] = r]
      BY <1>11, <1>1, <2>2 DEF SoldWrite
    <3>2. r.pc = "commit" /\ r.sale = s /\ r.goal = "sell"
      BY <1>1, <2>2 DEF Job
    <3>3. Account(job[p]) => Account(r)'
      BY <1>1, <1>2, <1>3, <1>4, <2>1, <2>2, <2>4, <3>2
      DEF Account, Paying, HoldPCs, ExtraReserved, ExtraSold
    <3> QED
      BY <1>5, <3>1, <3>2, <3>3
  <2>3. CASE job[p].goal # "sell"
    <3>1. Finish(p)
      BY <1>11, <2>3 DEF SoldWrite
    <3>2. faults = 0 => Books'
      BY <1>1, <1>2, <1>3, <1>4, <2>1, <2>3, <2>4
      DEF Account, Paying, HoldPCs, ExtraReserved, ExtraSold, Books
    <3> QED
      BY <1>1, <1>2, <3>1, <3>2, FinishS
  <2> QED
    BY <2>2, <2>3
<1> QED
  BY <1>6, <1>7, <1>8, <1>9, <1>10, <1>11

-----------------------------------------------------------------------------
LEMMA RequestS ==
    ASSUME IInv, SInv, TypeOK', Overlap = FALSE,
           NEW p \in Handlers, NEW s \in Sales, Request(p, s)
    PROVE  SInv'
<1> USE DEF saleVars, holdVars, payVars, At
<1>1. p \in Procs /\ p # Sweeper
  BY SalesAssumption DEF Procs
<1>2. MayStart(p)
  BY Zenon DEF Request, Initiate, SellTickets, StartPoll, StartWebhook, StartReturn
<1>3. Solo(p) /\ job[p].pc = "idle"
  BY <1>2 DEF MayStart, Solo
<1>4. UNCHANGED <<hold, minted, refunded, tier, todo, faults>>
  BY Zenon DEF Request, Initiate, SellTickets, StartPoll, StartWebhook, StartReturn
<1>5. Even(job[p])
  BY <1>3 DEF Even, Paying, HoldPCs
<1>6. \E r : /\ job' = [job EXCEPT ![p] = r]
             /\ r.pc \in {"create", "sold_read", "load", "query"}
             /\ r.goal = IF r.pc = "sold_read" THEN "sell" ELSE "none"
  <2>1. ASSUME NEW l \in {"create", "load", "query"}, Begin(p, l, s)
        PROVE  \E r : /\ job' = [job EXCEPT ![p] = r]
                      /\ r.pc \in {"create", "sold_read", "load", "query"}
                      /\ r.goal = IF r.pc = "sold_read" THEN "sell" ELSE "none"
    <3> PICK r : r = [IdleJob EXCEPT !.pc = l, !.sale = s]
      OBVIOUS
    <3>1. r.pc = l /\ r.goal = "none"
      BY DEF IdleJob
    <3> QED
      BY <2>1, <3>1 DEF Begin
  <2>2. CASE Initiate(p, s) \/ StartPoll(p, s) \/ StartReturn(p, s)
    BY <2>1, <2>2 DEF Initiate, StartPoll, StartReturn
  <2>3. CASE SellTickets(p, s)
    <3> PICK r : r = [IdleJob EXCEPT !.pc = "sold_read", !.sale = s, !.goal = "sell"]
      OBVIOUS
    <3>1. r.pc = "sold_read" /\ r.goal = "sell"
      BY DEF IdleJob
    <3> QED
      BY <2>3, <3>1 DEF SellTickets
  <2>4. CASE StartWebhook(p, s)
    <3>1. PICK e \in posted[s] :
            job' = [job EXCEPT ![p] =
                      [IdleJob EXCEPT !.pc = "load", !.sale = s, !.ans = e]]
      BY <2>4, Zenon DEF StartWebhook
    <3> PICK r : r = [IdleJob EXCEPT !.pc = "load", !.sale = s, !.ans = e]
      OBVIOUS
    <3>2. r.pc = "load" /\ r.goal = "none"
      BY DEF IdleJob
    <3> QED
      BY <3>1, <3>2
  <2> QED
    BY <2>2, <2>3, <2>4 DEF Request
<1>7. PICK r : /\ job' = [job EXCEPT ![p] = r]
               /\ r.pc \in {"create", "sold_read", "load", "query"}
               /\ r.goal = IF r.pc = "sold_read" THEN "sell" ELSE "none"
  BY <1>6
<1>8. Even(r) /\ r.pc # "idle"
  BY <1>7 DEF Even, Paying
<1> QED
  BY <1>1, <1>3, <1>4, <1>5, <1>7, <1>8, EvenS

(* The steps that neither count nor show a place: the finalizer up to its  *)
(* decision, the sale that is created, its reference and its failure.      *)
LEMMA EvenSteps ==
    ASSUME IInv, QInv, SInv, TypeOK', NEW p \in Procs,
           \/ CreateSale(p) \/ StoreRef(p) \/ QueryCheckout(p) \/ LoadSale(p)
           \/ AskProvider(p) \/ FailSale(p) \/ SweepFail(p)
           \/ (Claim(p) /\ status[job[p].sale] # "PENDING")
    PROVE  SInv'
<1> USE DEF saleVars, holdVars, payVars, At
<1>0. job[p].pc \in {"create", "store", "query", "load", "ask", "fail", "sweep_fail", "claim"}
  BY DEF CreateSale, StoreRef, QueryCheckout, LoadSale, AskProvider, FailSale, SweepFail, Claim
<1>1. /\ job[p] \in Job /\ job \in [Procs -> Job] /\ JobOK(job[p]) /\ Solo(p)
  BY <1>0, WorkS
<1>2. UNCHANGED <<hold, minted, refunded, tier, todo, faults>>
  BY DEF CreateSale, StoreRef, QueryCheckout, LoadSale, AskProvider, FailSale, SweepFail, Claim
<1>3. Even(job[p])
  BY <1>0 DEF Even, Paying, HoldPCs
<1>4. CASE Finish(p)
  BY <1>1, <1>2, <1>3, <1>4, EvenFinishS
<1>5. ASSUME NEW r, job' = [job EXCEPT ![p] = r], r.sale = job[p].sale,
             r.pc \in {"res_read", "find", "load", "ask", "claim"},
             r.pc = "find" => r.goal = "release"
      PROVE  SInv'
  <2>1. Even(r) /\ r.pc # "idle"
    BY <1>5 DEF Even, Paying, HoldPCs
  <2> QED
    BY <1>1, <1>2, <1>3, <1>5, <2>1, EvenS
<1>6. ASSUME NEW l \in {"res_read", "ask"}, Goto(p, l) PROVE SInv'
  <2> PICK r : r = [job[p] EXCEPT !.pc = l]
    OBVIOUS
  <2>1. job' = [job EXCEPT ![p] = r] /\ r.sale = job[p].sale /\ r.pc = l
    BY <1>1, <1>6 DEF Goto, Job
  <2> QED
    BY <1>5, <1>6, <2>1
<1>7. ASSUME NEW a, Decide(p, a) PROVE SInv'
  <2> PICK l : l = IF a = "success" THEN "claim" ELSE "find"
    OBVIOUS
  <2> PICK g : g = IF a = "success" THEN "confirm" ELSE "release"
    OBVIOUS
  <2> PICK r : r = [job[p] EXCEPT !.ans = a, !.pc = l, !.goal = g]
    OBVIOUS
  <2>1. job' = [job EXCEPT ![p] = r]
    BY <1>1, <1>7 DEF Decide
  <2>2. r.sale = job[p].sale /\ r.pc = l /\ r.goal = g
    BY <1>1 DEF Job
  <2>3. r.pc \in {"res_read", "find", "load", "ask", "claim"}
        /\ (r.pc = "find" => r.goal = "release")
    BY <2>2
  <2> QED
    BY <1>5, <2>1, <2>2, <2>3
<1>8. CASE StoreRef(p) /\ ~Finish(p)
  <2> PICK r : r = [job[p] EXCEPT !.pc = "find", !.goal = "release",
                                 !.dirty = TRUE]
    OBVIOUS
  <2>1. job' = [job EXCEPT ![p] = r]
    BY <1>1, <1>8 DEF StoreRef
  <2>2. r.sale = job[p].sale /\ r.pc = "find" /\ r.goal = "release"
    BY <1>1 DEF Job
  <2> QED
    BY <1>5, <2>1, <2>2
<1>9. CASE QueryCheckout(p) /\ ~Finish(p)
  <2> PICK a : a = IF p \in Handlers THEN ReturnOutcome(job[p].sale) ELSE Outcome(job[p].sale)
    OBVIOUS
  <2> PICK r : r = [job[p] EXCEPT !.pc = "load", !.ans = a]
    OBVIOUS
  <2>1. job' = [job EXCEPT ![p] = r]
    BY <1>1, <1>9 DEF QueryCheckout
  <2>2. r.sale = job[p].sale /\ r.pc = "load"
    BY <1>1 DEF Job
  <2> QED
    BY <1>5, <2>1, <2>2
<1>10. CASE LoadSale(p) \/ AskProvider(p)
  BY <1>4, <1>6, <1>7, <1>10 DEF LoadSale, AskProvider
<1>11. CASE CreateSale(p)
  BY <1>6, <1>11 DEF CreateSale
<1>12. CASE FailSale(p) \/ SweepFail(p) \/ (Claim(p) /\ status[job[p].sale] # "PENDING")
  BY <1>4, <1>12 DEF FailSale, SweepFail, Claim
<1>13. CASE StoreRef(p) \/ QueryCheckout(p)
  BY <1>4, <1>8, <1>9, <1>13
<1> QED
  BY <1>10, <1>11, <1>12, <1>13

(* The claim that is won: the tickets of the sale are owed.                *)
LEMMA ClaimS ==
    ASSUME IInv, QInv, SInv, TypeOK', NEW p \in Procs, Claim(p),
           status[job[p].sale] = "PENDING"
    PROVE  SInv'
<1> USE DEF saleVars, holdVars, payVars, At
<1> PICK s : s = job[p].sale
  OBVIOUS
<1> PICK r : r = [job[p] EXCEPT !.pc = "mint"]
  OBVIOUS
<1>0. job[p].pc = "claim"
  BY DEF Claim
<1>1. /\ s \in Sales /\ s # NoSale /\ SaleOK(s)
      /\ job[p] \in Job /\ job \in [Procs -> Job] /\ JobOK(job[p])
      /\ minted[s] \in Nat /\ refunded[s] \in Nat /\ refunded[s] <= minted[s]
      /\ Solo(p) /\ (faults = 0 => Account(job[p]))
  BY <1>0, WorkS
<1>2. /\ UNCHANGED <<hold, minted, refunded, tier, todo, faults>>
      /\ job' = [job EXCEPT ![p] = r]
  BY <1>1 DEF Claim, Goto
<1>3. r.pc = "mint" /\ r.sale = s /\ r.goal = job[p].goal
  BY <1>1 DEF Job
<1>4. minted[s] = 0 /\ refunded[s] = 0
  BY <1>1 DEF SaleOK
<1>5. Even(job[p])
  BY <1>0 DEF Even, Paying, HoldPCs
<1>6. faults = 0 => Books
  BY <1>1, <1>5, EvenAccount
<1>7. Books => HeldTickets \in Nat /\ LiveTickets \in Nat
  BY TicketsType DEF Books
<1>8. /\ HeldPlaces' = HeldPlaces /\ HeldTickets' = HeldTickets
      /\ LivePlaces' = LivePlaces /\ LiveTickets' = LiveTickets
  BY <1>2 DEF HeldPlaces, LivePlaces, HeldTickets, LiveTickets
<1>9. Books => Account(r)'
  BY <1>2, <1>3, <1>4, <1>7, <1>8 DEF Books, Account, Paying, ExtraReserved, ExtraSold
<1>10. r.pc # "idle" /\ r.sale = job[p].sale
  BY <1>3
<1> QED
  BY <1>1, <1>2, <1>6, <1>9, <1>10, LocalSerial

-----------------------------------------------------------------------------
(* The steps that store a hold or tickets.                                 *)

(* What is left to show of a step that writes the sale of its process.     *)
LEMMA StoreSerial ==
    ASSUME IInv, SInv, TypeOK', NEW p \in Procs, NEW s \in Sales, NEW r,
           Solo(p), job[p].pc # "idle", s = job[p].sale,
           job' = [job EXCEPT ![p] = r],
           r.pc = "idle" => todo[p] = {},
           r.sale \in {s, NoSale},
           UNCHANGED <<refunded, todo, faults>>,
           \A x \in Sales : x # s => hold'[x] = hold[x] /\ minted'[x] = minted[x],
           minted'[s] \in Nat /\ minted[s] <= minted'[s],
           faults = 0 => Account(r)'
    PROVE  SInv'
<1>1. job'[p] = r /\ \A q \in Procs : q # p => job'[q] = job[q]
  BY DEF IInv, TypeOK
<1>2. Swept'
  <2>1. todo[Sweeper] \subseteq Sales /\ NoSale \notin Sales /\ Sweeper \in Procs
    BY SalesAssumption DEF IInv, TypeOK, Procs, Jobs
  <2>2. CASE p = Sweeper
    BY <1>1, <2>1, <2>2 DEF SInv, Swept
  <2>3. CASE p # Sweeper
    BY <2>1, <2>3 DEF SInv, Swept, Solo
  <2> QED
    BY <2>2, <2>3
<1>3. \A x \in Sales : refunded'[x] <= minted'[x]
  <2> TAKE x \in Sales
  <2>1. refunded[x] <= minted[x] /\ refunded[x] \in Nat /\ minted[x] \in Nat
    BY DEF SInv, IInv, TypeOK
  <2> QED
    BY <2>1
<1>4. SerialMove(p, r)
  BY <1>2, <1>3 DEF SerialMove
<1> QED
  BY <1>4, SerialStep

LEMMA CreateHoldS ==
    ASSUME IInv, QInv, SInv, TypeOK', NEW p \in Procs, CreateHold(p)
    PROVE  SInv'
<1> USE DEF saleVars, holdVars, payVars, At
<1> PICK s : s = job[p].sale
  OBVIOUS
<1> PICK r : r = [job[p] EXCEPT !.pc = "provider"]
  OBVIOUS
<1>0. job[p].pc = "res_create"
  BY DEF CreateHold
<1>1. /\ s \in Sales /\ s # NoSale /\ JobQ(job[p])
      /\ job[p] \in Job /\ job \in [Procs -> Job] /\ JobOK(job[p])
      /\ Qty[s] \in Nat /\ minted[s] \in Nat
      /\ Solo(p) /\ (faults = 0 => Account(job[p]))
  BY <1>0, WorkS
<1>2. /\ UNCHANGED <<minted, refunded, tier, todo, faults>>
      /\ job' = [job EXCEPT ![p] = r]
      /\ hold' = [hold EXCEPT ![s] = "held"]
      /\ \A x \in Sales : x # s => hold'[x] = hold[x]
  BY <1>1 DEF CreateHold, Goto, IInv, TypeOK
<1>3. r.pc = "provider" /\ r.sale = s /\ r.goal = "none"
  BY <1>0, <1>1 DEF Job, JobOK, InitPCs
<1>4. hold[s] # "held" /\ job[p].goal = "none"
  BY <1>0, <1>1 DEF JobQ, Reserving, JobOK, InitPCs
<1>5. TypeOK
  BY DEF IInv
<1>6. Account(job[p]) => /\ IsFiniteSet(HeldPlaces')
                         /\ HeldTickets' = HeldTickets + Qty[s]
                         /\ HeldTickets \in Nat /\ LiveTickets \in Nat
  BY <1>1, <1>2, <1>4, <1>5, HeldAdd, TicketsType DEF Account
<1>7. LivePlaces' = LivePlaces /\ LiveTickets' = LiveTickets
  BY <1>2 DEF LivePlaces, LiveTickets
<1>8. Account(job[p]) => Account(r)'
  BY <1>0, <1>1, <1>2, <1>3, <1>4, <1>6, <1>7
  DEF Account, Paying, ExtraReserved, ExtraSold
<1>9. /\ r.pc # "idle" /\ r.sale = s /\ job[p].pc # "idle"
      /\ \A x \in Sales : x # s => hold'[x] = hold[x] /\ minted'[x] = minted[x]
      /\ minted'[s] \in Nat /\ minted[s] <= minted'[s]
  BY <1>0, <1>1, <1>2, <1>3
<1> QED
  BY <1>0, <1>1, <1>2, <1>8, <1>9, StoreSerial

LEMMA MintTicketS ==
    ASSUME IInv, QInv, SInv, TypeOK', NEW p \in Procs, MintTicket(p)
    PROVE  SInv'
<1> USE DEF saleVars, holdVars, payVars, At
<1> PICK s : s = job[p].sale
  OBVIOUS
<1> PICK l : l = IF job[p].n + 1 < Qty[s] THEN "mint" ELSE "find"
  OBVIOUS
<1> PICK r : r = [job[p] EXCEPT !.n = @ + 1, !.pc = l]
  OBVIOUS
<1>0. job[p].pc = "mint"
  BY DEF MintTicket
<1>1. /\ s \in Sales /\ s # NoSale
      /\ job[p] \in Job /\ job \in [Procs -> Job] /\ JobOK(job[p])
      /\ Qty[s] \in Nat /\ minted[s] \in Nat /\ refunded[s] \in Nat
      /\ refunded[s] <= minted[s]
      /\ Solo(p) /\ (faults = 0 => Account(job[p]))
  BY <1>0, WorkS
<1>2. /\ UNCHANGED <<hold, refunded, tier, todo, faults>>
      /\ job' = [job EXCEPT ![p] = r]
      /\ minted' = [minted EXCEPT ![s] = @ + 1]
      /\ minted'[s] = minted[s] + 1
      /\ \A x \in Sales : x # s => minted'[x] = minted[x]
  <2>1. minted \in [Sales -> Nat]
    BY DEF IInv, TypeOK
  <2>2. UNCHANGED <<hold, refunded, tier, todo, faults>> /\ minted' = [minted EXCEPT ![s] = @ + 1]
    BY DEF MintTicket, holdVars
  <2>3. job' = [job EXCEPT ![p] = r]
    BY <1>1 DEF MintTicket
  <2> QED BY <1>1, <2>1, <2>2, <2>3
<1>3. /\ job[p].goal = "confirm" /\ minted[s] = job[p].n /\ job[p].n < Qty[s]
      /\ job[p].n \in Nat
  BY <1>0, <1>1 DEF JobOK, Job
<1>4. r.pc = l /\ r.sale = s /\ r.goal = "confirm"
  BY <1>1, <1>3 DEF Job
<1>5. l \in {"mint", "find"} /\ (l = "find" => minted'[s] = Qty[s])
  BY <1>1, <1>2, <1>3
<1>6. TypeOK
  BY DEF IInv
<1>7. Account(job[p]) => /\ IsFiniteSet(LivePlaces')
                         /\ LiveTickets' = LiveTickets + 1
                         /\ HeldTickets \in Nat /\ LiveTickets \in Nat
  BY <1>1, <1>2, <1>6, LiveMint, TicketsType DEF Account
<1>8. HeldPlaces' = HeldPlaces /\ HeldTickets' = HeldTickets
  BY <1>2 DEF HeldPlaces, HeldTickets
<1>9. Account(job[p]) => Account(r)'
  <2> SUFFICES ASSUME Account(job[p]) PROVE Account(r)'
    OBVIOUS
  <2>1. /\ tier.reserved = HeldTickets /\ tier.sold = LiveTickets - minted[s]
        /\ refunded[s] = 0
    BY <1>0, <1>1, <1>3, <1>7 DEF Account, Paying, ExtraReserved, ExtraSold
  <2>2. tier'.reserved = HeldTickets' /\ tier'.sold = LiveTickets' - minted'[s]
    BY <1>1, <1>2, <1>7, <1>8, <2>1
  <2>3. IsFiniteSet(HeldPlaces') /\ IsFiniteSet(LivePlaces')
    BY <1>7, <1>8 DEF Account
  <2> QED
    BY <1>1, <1>2, <1>4, <1>5, <1>7, <1>8, <2>1, <2>2, <2>3
    DEF Account, Paying, HoldPCs, ExtraReserved, ExtraSold
<1>10. /\ r.pc # "idle" /\ r.sale = s /\ \A x \in Sales : x # s => hold'[x] = hold[x]
       /\ minted'[s] \in Nat /\ minted[s] <= minted'[s]
  BY <1>1, <1>2, <1>4, <1>5
<1> QED
  BY <1>0, <1>1, <1>2, <1>9, <1>10, StoreSerial

LEMMA HoldSaveS ==
    ASSUME IInv, QInv, SInv, TypeOK', NEW p \in Procs, HoldSave(p)
    PROVE  SInv'
<1> USE DEF saleVars, holdVars, payVars, At
<1> PICK s : s = job[p].sale
  OBVIOUS
<1> PICK l : l = After(job[p].goal)
  OBVIOUS
<1> PICK h : h = IF job[p].goal = "confirm" THEN "confirmed" ELSE "released"
  OBVIOUS
<1> PICK r : r = [job[p] EXCEPT !.pc = l]
  OBVIOUS
<1>0. job[p].pc = "hold_save"
  BY DEF HoldSave
<1>1. /\ s \in Sales /\ s # NoSale
      /\ job[p] \in Job /\ job \in [Procs -> Job] /\ JobOK(job[p])
      /\ Qty[s] \in Nat /\ minted[s] \in Nat /\ refunded[s] \in Nat
      /\ Solo(p) /\ (faults = 0 => Account(job[p]))
  BY <1>0, WorkS
<1>2. /\ UNCHANGED <<minted, refunded, tier, todo, faults>>
      /\ job' = [job EXCEPT ![p] = r]
      /\ hold' = [hold EXCEPT ![s] = h] /\ h # "held"
      /\ \A x \in Sales : x # s => hold'[x] = hold[x]
  BY <1>1 DEF HoldSave, Goto, IInv, TypeOK
<1>3. r.pc = l /\ r.sale = s /\ r.goal = job[p].goal
  BY <1>1 DEF Job
<1>4. /\ l \in {"sold_read", "fail", "sweep_fail"}
      /\ job[p].goal = "confirm" <=> l = "sold_read"
  BY DEF After
<1>6. TypeOK
  BY DEF IInv
<1>7. Account(job[p]) => /\ IsFiniteSet(HeldPlaces')
                         /\ HeldTickets' = HeldTickets - Qty[s]
                         /\ HeldTickets \in Nat /\ LiveTickets \in Nat
  <2> SUFFICES ASSUME Account(job[p])
               PROVE  /\ IsFiniteSet(HeldPlaces')
                      /\ HeldTickets' = HeldTickets - Qty[s]
                      /\ HeldTickets \in Nat /\ LiveTickets \in Nat
    OBVIOUS
  <2>1. hold[s] = "held" /\ IsFiniteSet(HeldPlaces) /\ IsFiniteSet(LivePlaces)
    BY <1>0 DEF Account
  <2> QED
    BY <1>1, <1>2, <1>6, <2>1, HeldDrop, TicketsType
<1>8. LivePlaces' = LivePlaces /\ LiveTickets' = LiveTickets
  BY <1>2 DEF LivePlaces, LiveTickets
<1>9. Account(job[p]) => Account(r)'
  BY <1>0, <1>1, <1>2, <1>3, <1>4, <1>7, <1>8
  DEF Account, Paying, HoldPCs, ExtraReserved, ExtraSold
<1>10. /\ r.pc # "idle" /\ r.sale = s /\ job[p].pc # "idle"
       /\ \A x \in Sales : x # s => hold'[x] = hold[x] /\ minted'[x] = minted[x]
       /\ minted'[s] \in Nat /\ minted[s] <= minted'[s]
  BY <1>0, <1>1, <1>2, <1>3, <1>4
<1> QED
  BY <1>0, <1>1, <1>2, <1>9, <1>10, StoreSerial

LEMMA CommitSaleS ==
    ASSUME IInv, QInv, SInv, TypeOK', NEW p \in Procs, CommitSale(p)
    PROVE  SInv'
<1> USE DEF saleVars, holdVars, payVars, At
<1> PICK s : s = job[p].sale
  OBVIOUS
<1> PICK r : r = [IdleJob EXCEPT !.pc = IF todo[p] = {} THEN "idle" ELSE "next"]
  OBVIOUS
<1>0. job[p].pc = "commit"
  BY DEF CommitSale
<1>1. /\ s \in Sales /\ s # NoSale /\ SaleOK(s)
      /\ job[p] \in Job /\ job \in [Procs -> Job] /\ JobOK(job[p])
      /\ Qty[s] \in Nat /\ minted[s] \in Nat /\ refunded[s] \in Nat
      /\ refunded[s] <= minted[s]
      /\ Solo(p) /\ (faults = 0 => Account(job[p]))
  BY <1>0, WorkS
<1>2. /\ UNCHANGED <<hold, refunded, tier, todo, faults>>
      /\ job' = [job EXCEPT ![p] = r]
      /\ minted' = [minted EXCEPT ![s] = Qty[s]]
      /\ minted'[s] = Qty[s]
      /\ \A x \in Sales : x # s => minted'[x] = minted[x]
  BY <1>1 DEF CommitSale, Finish, IInv, TypeOK
<1>3. r.sale = NoSale /\ r.pc \in {"idle", "next"} /\ (r.pc = "idle" => todo[p] = {})
  BY DEF IdleJob
<1>4. minted[s] = 0 /\ refunded[s] = 0
  BY <1>0, <1>1 DEF JobOK, SaleOK
<1>6. TypeOK
  BY DEF IInv
<1>7. Account(job[p]) => /\ IsFiniteSet(LivePlaces')
                         /\ LiveTickets' = LiveTickets + Qty[s]
                         /\ HeldTickets \in Nat /\ LiveTickets \in Nat
  BY <1>1, <1>2, <1>4, <1>6, LiveSale, TicketsType DEF Account
<1>8. HeldPlaces' = HeldPlaces /\ HeldTickets' = HeldTickets
  BY <1>2 DEF HeldPlaces, HeldTickets
<1>9. Account(job[p]) => Account(r)'
  BY <1>0, <1>1, <1>2, <1>3, <1>7, <1>8
  DEF Account, Paying, HoldPCs, ExtraReserved, ExtraSold
<1>10. /\ \A x \in Sales : x # s => hold'[x] = hold[x]
       /\ minted'[s] \in Nat /\ minted[s] <= minted'[s] /\ job[p].pc # "idle"
  BY <1>0, <1>1, <1>2, <1>4
<1> QED
  BY <1>1, <1>2, <1>3, <1>9, <1>10, StoreSerial

-----------------------------------------------------------------------------
(* The jobs and the world.                                                 *)

LEMMA NextItemS ==
    ASSUME IInv, QInv, SInv, TypeOK', NEW p \in Procs, NextItem(p)
    PROVE  SInv'
<1> USE DEF saleVars, holdVars, payVars, At
<1>1. job[p].pc = "next" /\ UNCHANGED <<hold, minted, refunded, tier, faults>>
  BY DEF NextItem
<1>2. /\ todo \in [Procs -> SUBSET Sales] /\ job \in [Procs -> Job] /\ Solo(p)
      /\ Sweeper \in Procs
  BY <1>1 DEF IInv, TypeOK, SInv, Procs, Jobs
<1>4. PICK s \in todo[p] :
        /\ todo' = [todo EXCEPT ![p] = @ \ {s}]
        /\ job' = [job EXCEPT ![p] =
             [IdleJob EXCEPT !.sale = s,
                             !.pc   = IF p = Sweeper THEN "hold_read"
                                      ELSE IF p = "YEBOPAY" THEN "query" ELSE "load",
                             !.goal = IF p = Sweeper THEN "sweep" ELSE "none"]]
  BY Zenon DEF NextItem
<1> PICK l : l = IF p = Sweeper THEN "hold_read"
                 ELSE IF p = "YEBOPAY" THEN "query" ELSE "load"
  OBVIOUS
<1> PICK g : g = IF p = Sweeper THEN "sweep" ELSE "none"
  OBVIOUS
<1> PICK r : r = [IdleJob EXCEPT !.sale = s, !.pc = l, !.goal = g]
  OBVIOUS
<1>5. job' = [job EXCEPT ![p] = r]
  BY <1>4
<1>6. r.sale = s /\ r.pc = l /\ r.goal = g
  BY DEF IdleJob
<1>7. /\ job'[p] = r /\ todo'[p] = todo[p] \ {s}
      /\ \A q \in Procs : q # p => todo'[q] = todo[q]
  BY <1>2, <1>4, <1>5
<1>8. l = "hold_read" => p = Sweeper /\ hold[s] = "held"
  BY <1>4 DEF SInv, Swept
<1>9. Swept'
  <2>1. CASE p = Sweeper
    <3>1. hold' = hold /\ job'[Sweeper].sale = s /\ todo'[Sweeper] = todo[Sweeper] \ {s}
      BY <1>1, <1>6, <1>7, <2>1
    <3> QED
      BY <3>1 DEF SInv, Swept
  <2>2. CASE p # Sweeper
    BY <1>2, <1>1, <1>7, <2>2 DEF SInv, Swept, Solo
  <2> QED
    BY <2>1, <2>2
<1>10. Even(job[p])
  BY <1>1 DEF Even, Paying, HoldPCs
<1>11. faults = 0 => Books
  BY <1>2, <1>10, EvenAccount DEF SInv
<1>12. Books => HeldTickets \in Nat /\ LiveTickets \in Nat
  BY TicketsType DEF Books
<1>13. /\ HeldPlaces' = HeldPlaces /\ HeldTickets' = HeldTickets
       /\ LivePlaces' = LivePlaces /\ LiveTickets' = LiveTickets
  BY <1>1 DEF HeldPlaces, LivePlaces, HeldTickets, LiveTickets
<1>14. g # "confirm" /\ l \in {"hold_read", "query", "load"}
  OBVIOUS
<1>15. Books => Account(r)'
  BY <1>1, <1>6, <1>8, <1>12, <1>13, <1>14
  DEF Books, Account, Paying, ExtraReserved, ExtraSold
<1>16. \A x \in Sales : refunded'[x] <= minted'[x]
  BY <1>1 DEF SInv
<1>17. r.pc # "idle"
  BY <1>6, <1>14
<1>18. SerialMove(p, r)
  BY <1>1, <1>2, <1>5, <1>7, <1>9, <1>11, <1>15, <1>16, <1>17 DEF SerialMove
<1> QED
  BY <1>18, SerialStep

(* A job that begins.                                                      *)
LEMMA StartS ==
    ASSUME IInv, QInv, SInv, TypeOK', Overlap = FALSE,
           StartSweep \/ \E x \in Reconcilers : StartReconcile(x)
    PROVE  SInv'
<1> USE DEF saleVars, holdVars, payVars, At
<1>1. \E p \in Procs, found \in SUBSET Sales :
        /\ MayStart(p) /\ Goto(p, "next")
        /\ todo' = [todo EXCEPT ![p] = found]
        /\ p = Sweeper => \A s \in found : hold[s] = "held"
  <2>1. CASE StartSweep
    <3>1. Sweeper \in Procs
      BY DEF Procs, Jobs
    <3> QED
      BY <2>1, <3>1 DEF StartSweep
  <2>2. ASSUME NEW x \in Reconcilers, StartReconcile(x)
        PROVE  \E p \in Procs, found \in SUBSET Sales :
                 /\ MayStart(p) /\ Goto(p, "next")
                 /\ todo' = [todo EXCEPT ![p] = found]
                 /\ p = Sweeper => \A s \in found : hold[s] = "held"
    <3>1. x \in Procs /\ x # Sweeper
      BY DEF Procs, Jobs, Reconcilers, Reconciled, Sweeper
    <3> PICK found : found = {s \in Sales : rail[s] = x /\ status[s] = "PENDING" /\ ref[s]}
      OBVIOUS
    <3>2. /\ MayStart(x) /\ Goto(x, "next") /\ todo' = [todo EXCEPT ![x] = found]
          /\ found \in SUBSET Sales
      BY <2>2 DEF StartReconcile
    <3> QED
      BY <3>1, <3>2
  <2> QED
    BY <2>1, <2>2
<1>2. PICK p \in Procs, found \in SUBSET Sales :
        /\ MayStart(p) /\ Goto(p, "next")
        /\ todo' = [todo EXCEPT ![p] = found]
        /\ p = Sweeper => \A s \in found : hold[s] = "held"
  BY <1>1
<1> PICK r : r = [job[p] EXCEPT !.pc = "next"]
  OBVIOUS
<1>3. /\ job[p].pc = "idle" /\ Solo(p) /\ JobOK(job[p])
      /\ job \in [Procs -> Job] /\ todo \in [Procs -> SUBSET Sales] /\ Sweeper \in Procs
  BY <1>2 DEF MayStart, Solo, IInv, TypeOK, Procs, Jobs
<1>4. UNCHANGED <<hold, minted, refunded, tier, faults>>
  BY DEF StartSweep, StartReconcile
<1>5. job' = [job EXCEPT ![p] = r] /\ r.pc = "next" /\ r.sale = NoSale
  BY <1>2, <1>3, SalesAssumption DEF Goto, Job, JobOK
<1>6. /\ job'[p] = r /\ todo'[p] = found
      /\ \A q \in Procs : q # p => todo'[q] = todo[q]
  BY <1>2, <1>3, <1>5
<1>7. Swept'
  <2>1. CASE p = Sweeper
    BY <1>2, <1>4, <1>5, <1>6, <2>1, SalesAssumption DEF Swept
  <2>2. CASE p # Sweeper
    BY <1>3, <1>4, <1>6, <2>2 DEF SInv, Swept, Solo
  <2> QED
    BY <2>1, <2>2
<1>8. Even(job[p]) /\ Even(r)
  BY <1>3, <1>5 DEF Even, Paying, HoldPCs
<1>9. faults = 0 => Account(r)
  BY <1>3, <1>8, EvenAccount DEF SInv
<1>10. Account(r) => Account(r)'
  BY <1>4 DEF Account, ExtraReserved, ExtraSold, HeldTickets, LiveTickets, HeldPlaces,
              LivePlaces, Paying
<1>11. \A x \in Sales : refunded'[x] <= minted'[x]
  BY <1>4 DEF SInv
<1>12. SerialMove(p, r)
  BY <1>3, <1>4, <1>5, <1>6, <1>7, <1>9, <1>10, <1>11 DEF SerialMove
<1> QED
  BY <1>12, SerialStep

(* A handler cut short leaves the counters as they are, right or wrong.    *)
LEMMA AbortS ==
    ASSUME IInv, SInv, TypeOK', NEW p \in Procs, Abort(p)
    PROVE  SInv'
<1> USE DEF saleVars, holdVars, payVars, At
<1> PICK r : r = [IdleJob EXCEPT !.pc = IF todo[p] = {} THEN "idle" ELSE "next"]
  OBVIOUS
<1>1. /\ job' = [job EXCEPT ![p] = r] /\ ~At(p, "idle") /\ Solo(p)
      /\ UNCHANGED <<hold, minted, refunded, tier, todo>>
  BY DEF Abort, Finish, SInv
<1>2. r.sale = NoSale /\ (r.pc = "idle" => todo[p] = {})
  BY DEF IdleJob
<1>3. faults' # 0
  BY DEF Abort, IInv, TypeOK
<1>4. Swept'
  <2>1. todo[Sweeper] \subseteq Sales /\ NoSale \notin Sales /\ Sweeper \in Procs
        /\ job'[Sweeper].sale \in {job[Sweeper].sale, NoSale}
    BY <1>1, <1>2, SalesAssumption DEF IInv, TypeOK, Procs, Jobs
  <2> QED
    BY <1>1, <2>1 DEF SInv, Swept
<1>5. \A x \in Sales : refunded'[x] <= minted'[x]
  BY <1>1 DEF SInv
<1>6. SerialMove(p, r)
  BY <1>1, <1>2, <1>3, <1>4, <1>5 DEF SerialMove
<1> QED
  BY <1>6, SerialStep

(* Of the world's steps only a refund touches the books.                   *)
LEMMA WorldS ==
    ASSUME IInv, SInv, TypeOK', Overlap = FALSE, NEW s \in Sales, World(s)
    PROVE  SInv'
<1> USE DEF saleVars, holdVars, payVars, At
<1>1. CASE RefundTicket(s)
  <2>1. /\ \A q \in Procs : job[q].pc = "idle"
        /\ refunded[s] < minted[s] /\ tier.sold >= 1
        /\ refunded' = [refunded EXCEPT ![s] = @ + 1]
        /\ tier' = [tier EXCEPT !.sold = @ - 1]
        /\ UNCHANGED <<hold, minted, job, todo, faults>>
    BY <1>1 DEF RefundTicket
  <2>2. TypeOK /\ tier \in Tier /\ refunded \in [Sales -> Nat] /\ minted \in [Sales -> Nat]
    BY DEF IInv, TypeOK
  <2>3. \A x \in Sales : refunded'[x] <= minted'[x]
    BY <2>1, <2>2 DEF SInv
  <2>4. Swept' /\ \A q \in Procs : Solo(q)'
    BY <2>1 DEF Swept, SInv, Solo
  <2>5. ASSUME faults' = 0, NEW q \in Procs PROVE Account(job[q])'
    <3>1. Solo(q) /\ Even(job[q])
      BY <2>1 DEF Solo, Even, Paying, HoldPCs
    <3>2. Books
      BY <2>1, <2>5, <3>1, EvenAccount DEF SInv
    <3>3. IsFiniteSet(LivePlaces') /\ LiveTickets' = LiveTickets - 1
      BY <2>1, <2>2, <3>2, LiveRefund DEF Books
    <3>4. HeldPlaces' = HeldPlaces /\ HeldTickets' = HeldTickets
      BY <2>1 DEF HeldPlaces, HeldTickets
    <3>5. LiveTickets \in Nat /\ HeldTickets \in Nat
      BY <3>2, TicketsType DEF Books
    <3>6. tier'.sold = tier.sold - 1 /\ tier'.reserved = tier.reserved
      BY <2>1, <2>2 DEF Tier
    <3> QED
      BY <2>1, <3>2, <3>3, <3>4, <3>5, <3>6
      DEF Books, Account, Paying, HoldPCs, ExtraReserved, ExtraSold
  <2> QED
    BY <2>1, <2>3, <2>4, <2>5 DEF SInv
<1>2. CASE ~RefundTicket(s)
  <2>1. UNCHANGED <<hold, minted, refunded, tier, job, todo, faults>>
    BY <1>2 DEF World, Pay, Reject, DeclineAttempt, HoldLapses
  <2>2. /\ HeldPlaces' = HeldPlaces /\ HeldTickets' = HeldTickets
        /\ LivePlaces' = LivePlaces /\ LiveTickets' = LiveTickets
    BY <2>1 DEF HeldPlaces, LivePlaces, HeldTickets, LiveTickets
  <2>3. ASSUME NEW q \in Procs PROVE Account(job[q]) => Account(job[q])'
    BY <2>1, <2>2 DEF Account, Paying, ExtraReserved, ExtraSold
  <2>4. ASSUME NEW q \in Procs PROVE Solo(q)' => Solo(q)
    BY <2>1 DEF Solo
  <2> HIDE DEF At
  <2>5. Swept' /\ \A q \in Procs : ~At(q, "idle")' => Solo(q)'
    BY <2>1 DEF SInv, Swept, Solo, At
  <2> QED
    BY <2>1, <2>3, <2>4, <2>5 DEF SInv, At
<1> QED
  BY <1>1, <1>2

-----------------------------------------------------------------------------
LEMMA InitSInv == Init => SInv
<1> SUFFICES ASSUME Init PROVE SInv
  OBVIOUS
<1> USE DEF Init
<1>1. \A p \in Procs : At(p, "idle") /\ todo[p] = {}
  BY DEF At, IdleJob
<1>2. LivePlaces = {} /\ HeldPlaces = {}
  BY DEF LivePlaces, HeldPlaces
<1>3. LiveTickets = 0 /\ HeldTickets = 0 /\ IsFiniteSet(LivePlaces) /\ IsFiniteSet(HeldPlaces)
  BY <1>2, FS_EmptySet DEF LiveTickets, HeldTickets
<1>4. Books
  BY <1>3 DEF Books, NoDoc
<1>5. ASSUME NEW p \in Procs PROVE Account(job[p])
  <2>1. Even(job[p])
    BY <1>1 DEF Even, At, Paying, HoldPCs
  <2> QED
    BY <1>4, <2>1, EvenAccount
<1>6. Sweeper \in Procs
  BY DEF Procs, Jobs
<1>7. Swept
  BY <1>1, <1>6 DEF Swept
<1> QED
  BY <1>1, <1>5, <1>7 DEF SInv

LEMMA NextSInv ==
    Overlap = FALSE /\ IInv /\ QInv /\ SInv /\ [Next]_vars => SInv'
<1> SUFFICES ASSUME Overlap = FALSE, IInv, QInv, SInv, [Next]_vars PROVE SInv'
  OBVIOUS
<1>0. TypeOK'
  BY NextIInv DEF IInv
<1>1. ASSUME NEW p \in Handlers, NEW s \in Sales, Request(p, s) PROVE SInv'
  BY <1>0, <1>1, RequestS
<1>2. ASSUME NEW p \in Procs, Step(p) PROVE SInv'
  <2>1. CASE Claim(p)
    BY <1>0, <2>1, ClaimS, EvenSteps
  <2> QED
    BY <1>0, <1>2, <2>1, LocalS, EvenSteps, NextItemS, CreateHoldS, CommitSaleS,
       MintTicketS, HoldSaveS
    DEF Step
<1>3. CASE StartSweep \/ \E x \in Reconcilers : StartReconcile(x)
  BY <1>0, <1>3, StartS
<1>4. ASSUME NEW p \in Procs, Abort(p) PROVE SInv'
  BY <1>0, <1>4, AbortS
<1>5. ASSUME NEW s \in Sales, World(s) PROVE SInv'
  BY <1>0, <1>5, WorldS
<1>6. CASE UNCHANGED vars
  <2>1. UNCHANGED <<status, hold, minted, refunded, tier, job, todo, faults>>
    BY <1>6 DEF vars, saleVars, holdVars, payVars
  <2>2. /\ HeldPlaces' = HeldPlaces /\ HeldTickets' = HeldTickets
        /\ LivePlaces' = LivePlaces /\ LiveTickets' = LiveTickets
    BY <2>1 DEF HeldPlaces, LivePlaces, HeldTickets, LiveTickets
  <2>3. ASSUME NEW q \in Procs PROVE Account(job[q]) => Account(job[q])'
    BY <2>1, <2>2 DEF Account, Paying, ExtraReserved, ExtraSold
  <2>4. ASSUME NEW q \in Procs PROVE (Solo(q)' <=> Solo(q)) /\ (At(q, "idle")' <=> At(q, "idle"))
    BY <2>1 DEF Solo, At
  <2>5. Swept'
    BY <2>1 DEF SInv, Swept
  <2> QED
    BY <2>1, <2>3, <2>4, <2>5 DEF SInv
<1> QED
  BY <1>1, <1>2, <1>3, <1>4, <1>5, <1>6 DEF Next

THEOREM SerialInvariance ==
    ASSUME Overlap = FALSE PROVE Spec => [](IInv /\ QInv /\ SInv)
<1>1. Init => IInv /\ QInv /\ SInv
  BY InitIInv, InitQInv, InitSInv
<1>2. IInv /\ QInv /\ SInv /\ [Next]_vars => (IInv /\ QInv /\ SInv)'
  BY NextIInv, NextQInv, NextSInv
<1> QED
  BY <1>1, <1>2, PTL DEF Spec

(* On a server that takes one request at a time and cuts none short, the   *)
(* tier's counters are its holds and its live tickets: whatever each       *)
(* handler read, and in whatever order they ran.                           *)
THEOREM CountersStayExact ==
    ASSUME Overlap = FALSE PROVE Spec => []CountersExact
<1>1. IInv /\ QInv /\ SInv => CountersExact
  <2> SUFFICES ASSUME IInv, SInv, Idle, faults = 0
               PROVE  tier = [reserved |-> HeldTickets, sold |-> LiveTickets]
    BY DEF CountersExact
  <2>1. Sweeper \in Procs
    BY DEF Procs, Jobs
  <2>2. Solo(Sweeper) /\ Even(job[Sweeper])
    BY <2>1 DEF Idle, Solo, At, Even, Paying, HoldPCs
  <2>3. Books
    BY <2>1, <2>2, EvenAccount DEF SInv
  <2>4. tier \in Tier
    BY DEF IInv, TypeOK
  <2> QED
    BY <2>3, <2>4 DEF Books, Tier
<1> QED
  BY <1>1, SerialInvariance, PTL

-----------------------------------------------------------------------------
(* OInv: there is room, on rails whose sales the sweep settles.            *)

(* The places the process may still take.                                  *)
Claims(j) ==
    IF \/ j.pc \in {"create", "res_read", "res_write", "sold_read", "sold_write"}
       \/ j.pc = "hold_save" /\ j.goal = "confirm"
    THEN Qty[j.sale] ELSE 0

Fits(j) ==
    /\ tier.sold + tier.reserved + Claims(j) <= Capacity
    /\ j.goal = "confirm" /\ j.pc \in {"mint", "find"} => hold[j.sale] = "held"
    /\ Paying(j) => status[j.sale] # "PENDING"

(* A sale that may still be paid holds its places, or is on its way in or  *)
(* out.                                                                    *)
Passing == Reserving \cup {"fail", "sweep_fail"}

PendingHeld(s) ==
    status[s] = "PENDING" =>
      hold[s] = "held" \/ \E p \in Procs : job[p].sale = s /\ job[p].pc \in Passing

OInv ==
    faults = 0 => /\ \A p \in Procs : Solo(p) => Fits(job[p])
                  /\ \A s \in Sales : PendingHeld(s)

RoomMove(p, r) ==
    /\ Solo(p)
    /\ job' = [job EXCEPT ![p] = r]
    /\ faults' = 0 => faults = 0
    /\ \A x \in Sales : x # job[p].sale => status'[x] = status[x] /\ hold'[x] = hold[x]
    /\ faults' = 0 =>
         /\ Fits(r)'
         /\ \A x \in Sales : x = job[p].sale /\ status'[x] = "PENDING"
              => hold'[x] = "held" \/ (r.sale = x /\ r.pc \in Passing)

LEMMA RoomStep ==
    ASSUME IInv, OInv, NEW p \in Procs, NEW r, RoomMove(p, r)
    PROVE  OInv'
<1> USE DEF At
<1>1. job'[p] = r /\ \A q \in Procs : q # p => job'[q] = job[q]
  BY DEF RoomMove, IInv, TypeOK
<1> SUFFICES ASSUME faults' = 0
             PROVE  /\ \A q \in Procs : Solo(q)' => Fits(job[q])'
                    /\ \A x \in Sales : PendingHeld(x)'
  BY DEF OInv
<1>2. ASSUME NEW q \in Procs, Solo(q)' PROVE Fits(job[q])'
  <2>1. Fits(r)'
    BY DEF RoomMove
  <2>2. CASE q = p
    BY <1>1, <2>1, <2>2 DEF Fits, Claims, Paying
  <2>3. CASE q # p
    <3>1. r.pc = "idle" /\ job'[q].pc = "idle"
      BY <1>1, <1>2, <2>3 DEF Solo, RoomMove
    <3> QED
      BY <2>1, <3>1 DEF Fits, Claims, Paying, HoldPCs
  <2> QED
    BY <2>2, <2>3
<1>3. ASSUME NEW x \in Sales PROVE PendingHeld(x)'
  <2> SUFFICES ASSUME status'[x] = "PENDING"
               PROVE  \/ hold'[x] = "held"
                      \/ \E q \in Procs : job'[q].sale = x /\ job'[q].pc \in Passing
    BY DEF PendingHeld
  <2>1. CASE x = job[p].sale
    BY <1>1, <2>1 DEF RoomMove
  <2>2. CASE x # job[p].sale
    <3>1. status[x] = "PENDING" /\ hold'[x] = hold[x] /\ PendingHeld(x)
      BY <2>2 DEF RoomMove, OInv
    <3>2. ASSUME NEW q \in Procs, job[q].sale = x, job[q].pc \in Passing PROVE FALSE
      BY <2>2, <3>2 DEF RoomMove, Solo, Passing, Reserving
    <3> QED
      BY <3>1, <3>2 DEF PendingHeld
  <2> QED
    BY <2>1, <2>2
<1> QED
  BY <1>2, <1>3

(* A step that leaves the sales and the holds as they are.                 *)
LEMMA StillO ==
    ASSUME IInv, OInv, NEW p \in Procs, NEW r, Solo(p),
           job' = [job EXCEPT ![p] = r],
           UNCHANGED <<status, hold>>,
           faults' = 0 => faults = 0,
           job[p].pc \notin {"fail", "sweep_fail"},
           job[p].pc \in Reserving => r.sale = job[p].sale /\ r.pc \in Reserving,
           faults' = 0 => Fits(r)'
    PROVE  OInv'
<1>1. ASSUME faults' = 0, NEW x \in Sales, x = job[p].sale, status'[x] = "PENDING"
      PROVE  hold'[x] = "held" \/ (r.sale = x /\ r.pc \in Passing)
  <2>1. status[x] = "PENDING" /\ PendingHeld(x)
    BY <1>1 DEF OInv
  <2>2. ASSUME NEW q \in Procs, job[q].sale = x, job[q].pc \in Passing
        PROVE  r.sale = x /\ r.pc \in Passing
    <3>1. job[q].pc # "idle"
      BY <2>2 DEF Passing, Reserving
    <3>2. q = p
      BY <3>1 DEF Solo, At
    <3> QED
      BY <1>1, <2>2, <3>2 DEF Passing
  <2> QED
    BY <1>1, <2>1, <2>2 DEF PendingHeld
<1>2. RoomMove(p, r)
  BY <1>1 DEF RoomMove
<1> QED
  BY <1>2, RoomStep

(* What OInv says of a process that works on a sale.                       *)
LEMMA WorkO ==
    ASSUME IInv, QInv, SInv, OInv, NEW p \in Procs, job[p].pc \notin {"idle", "next"},
           faults = 0
    PROVE  LET s == job[p].sale
           IN  /\ Account(job[p]) /\ Fits(job[p]) /\ PendingHeld(s)
               /\ status[s] = "PENDING" /\ job[p].pc \notin Passing => hold[s] = "held"
               /\ tier.sold \in Nat /\ tier.reserved \in Nat
               /\ Qty[s] \in Nat /\ Qty[s] >= 1
               /\ Capacity \in Nat
<1>1. /\ job[p].sale \in Sales /\ Solo(p) /\ tier \in Tier /\ Account(job[p])
      /\ Qty[job[p].sale] \in Nat /\ Qty[job[p].sale] >= 1
  BY WorkS
<1>2. Fits(job[p]) /\ PendingHeld(job[p].sale)
  BY <1>1 DEF OInv
<1>3. ASSUME status[job[p].sale] = "PENDING", job[p].pc \notin Passing
      PROVE  hold[job[p].sale] = "held"
  <2>1. ASSUME NEW q \in Procs, job[q].sale = job[p].sale, job[q].pc \in Passing PROVE FALSE
    BY <1>1, <1>3, <2>1 DEF Solo, At, Passing, Reserving
  <2> QED
    BY <1>2, <1>3, <2>1 DEF PendingHeld
<1> QED
  BY <1>1, <1>2, <1>3, SalesAssumption DEF Tier

LEMMA FinishO ==
    ASSUME IInv, OInv, NEW p \in Procs, Solo(p), Finish(p),
           job[p].pc \notin Passing,
           UNCHANGED <<status, hold>>,
           faults' = 0 => faults = 0,
           faults' = 0 => tier'.sold + tier'.reserved <= Capacity,
           tier' \in Tier
    PROVE  OInv'
<1> PICK r : r = [IdleJob EXCEPT !.pc = IF todo[p] = {} THEN "idle" ELSE "next"]
  OBVIOUS
<1>1. job' = [job EXCEPT ![p] = r]
  BY DEF Finish
<1>2. r.pc \in {"idle", "next"} /\ r.goal = "none"
  BY DEF IdleJob
<1>3. Claims(r) = 0
  BY <1>2 DEF Claims
<1>4. ASSUME faults' = 0 PROVE Fits(r)'
  BY <1>2, <1>4, SalesAssumption DEF Fits, Claims, Paying, Tier
<1>5. job[p].pc \notin {"fail", "sweep_fail"} /\ job[p].pc \notin Reserving
  BY DEF Passing
<1> QED
  BY <1>1, <1>4, <1>5, StillO

-----------------------------------------------------------------------------
LEMMA RequestO ==
    ASSUME IInv, OInv, TypeOK', Overlap = FALSE,
           NEW p \in Handlers, NEW s \in Sales, Request(p, s)
    PROVE  OInv'
<1> USE DEF saleVars, holdVars, payVars, At
<1>1. p \in Procs
  BY DEF Procs
<1>2. MayStart(p)
  BY Zenon DEF Request, Initiate, SellTickets, StartPoll, StartWebhook, StartReturn
<1>3. Solo(p) /\ job[p].pc = "idle"
  BY <1>2 DEF MayStart, Solo
<1>4. UNCHANGED <<status, hold, tier, todo, faults>>
  BY Zenon DEF Request, Initiate, SellTickets, StartPoll, StartWebhook, StartReturn
<1>5. tier \in Tier /\ Qty[s] \in Nat \ {0} /\ Capacity \in Nat
  BY SalesAssumption DEF IInv, TypeOK
<1>6. faults = 0 => tier.sold + tier.reserved <= Capacity
  <2>1. Claims(job[p]) = 0
    BY <1>3 DEF Claims
  <2> QED
    BY <1>1, <1>3, <1>5, <2>1 DEF OInv, Fits, Tier
<1>7. ComputeAvailable(tier) >= Qty[s] => tier.sold + tier.reserved + Qty[s] <= Capacity
  BY <1>5 DEF ComputeAvailable, NonNeg, Tier
<1>8. \E r : /\ job' = [job EXCEPT ![p] = r]
             /\ r.pc \in {"create", "sold_read", "load", "query"} /\ r.goal # "confirm"
             /\ r.sale = s
             /\ r.pc \in {"create", "sold_read"} => ComputeAvailable(tier) >= Qty[s]
  <2>1. ASSUME NEW l \in {"create", "load", "query"}, Begin(p, l, s),
               l = "create" => ComputeAvailable(tier) >= Qty[s]
        PROVE  \E r : /\ job' = [job EXCEPT ![p] = r]
                      /\ r.pc \in {"create", "sold_read", "load", "query"} /\ r.goal # "confirm"
                      /\ r.sale = s
                      /\ r.pc \in {"create", "sold_read"} => ComputeAvailable(tier) >= Qty[s]
    <3> PICK r : r = [IdleJob EXCEPT !.pc = l, !.sale = s]
      OBVIOUS
    <3>1. r.pc = l /\ r.goal = "none" /\ r.sale = s
      BY DEF IdleJob
    <3> QED
      BY <2>1, <3>1 DEF Begin
  <2>2. CASE Initiate(p, s) \/ StartPoll(p, s) \/ StartReturn(p, s)
    BY <2>1, <2>2 DEF Initiate, StartPoll, StartReturn
  <2>3. CASE SellTickets(p, s)
    <3> PICK r : r = [IdleJob EXCEPT !.pc = "sold_read", !.sale = s, !.goal = "sell"]
      OBVIOUS
    <3>1. r.pc = "sold_read" /\ r.goal = "sell" /\ r.sale = s
      BY DEF IdleJob
    <3> QED
      BY <2>3, <3>1 DEF SellTickets
  <2>4. CASE StartWebhook(p, s)
    <3>1. PICK e \in posted[s] :
            job' = [job EXCEPT ![p] =
                      [IdleJob EXCEPT !.pc = "load", !.sale = s, !.ans = e]]
      BY <2>4, Zenon DEF StartWebhook
    <3> PICK r : r = [IdleJob EXCEPT !.pc = "load", !.sale = s, !.ans = e]
      OBVIOUS
    <3>2. r.pc = "load" /\ r.goal = "none" /\ r.sale = s
      BY DEF IdleJob
    <3> QED
      BY <3>1, <3>2
  <2> QED
    BY <2>2, <2>3, <2>4 DEF Request
<1>9. PICK r : /\ job' = [job EXCEPT ![p] = r]
               /\ r.pc \in {"create", "sold_read", "load", "query"} /\ r.goal # "confirm"
               /\ r.sale = s
               /\ r.pc \in {"create", "sold_read"} => ComputeAvailable(tier) >= Qty[s]
  BY <1>8
<1>10. faults = 0 => Fits(r)'
  <2>1. r.pc \in {"create", "sold_read"} => Claims(r) = Qty[s]
    BY <1>9 DEF Claims
  <2>2. r.pc \notin {"create", "sold_read"} => Claims(r) = 0
    BY <1>9 DEF Claims
  <2>3. faults = 0 => tier.sold + tier.reserved + Claims(r) <= Capacity
    BY <1>5, <1>6, <1>7, <1>9, <2>1, <2>2 DEF Tier
  <2> QED
    BY <1>4, <1>9, <2>3 DEF Fits, Claims, Paying
<1>11. job[p].pc \notin {"fail", "sweep_fail"} /\ job[p].pc \notin Reserving
  BY <1>3 DEF Reserving
<1> QED
  BY <1>1, <1>3, <1>4, <1>9, <1>10, <1>11, StillO

(* The reads, and the writes of the tier's counters.                       *)
LEMMA LocalO ==
    ASSUME IInv, QInv, SInv, OInv, TypeOK', NEW p \in Procs,
           \/ ReserveRead(p) \/ ReserveWrite(p) \/ CallProvider(p) \/ FindHold(p)
           \/ HoldRead(p) \/ HoldWrite(p) \/ SoldRead(p) \/ SoldWrite(p)
    PROVE  OInv'
<1> USE DEF saleVars, holdVars, payVars, At
<1> PICK s : s = job[p].sale
  OBVIOUS
<1>0. /\ job[p].pc \notin {"idle", "next"}
      /\ job[p].pc \notin {"fail", "sweep_fail"}
  BY DEF ReserveRead, ReserveWrite, CallProvider, FindHold, HoldRead, HoldWrite,
         SoldRead, SoldWrite
<1>1. /\ s \in Sales /\ s # NoSale
      /\ job[p] \in Job /\ job \in [Procs -> Job] /\ JobOK(job[p])
      /\ tier \in Tier /\ Solo(p)
  BY <1>0, WorkS
<1>2. UNCHANGED <<status, hold, minted, refunded, todo, faults>>
  BY DEF ReserveRead, ReserveWrite, CallProvider, FindHold, HoldRead, HoldWrite,
         SoldRead, SoldWrite
<1>3. faults = 0 =>
        /\ Account(job[p]) /\ Fits(job[p])
        /\ status[s] = "PENDING" /\ job[p].pc \notin Passing => hold[s] = "held"
        /\ tier.sold \in Nat /\ tier.reserved \in Nat
        /\ Qty[s] \in Nat /\ Qty[s] >= 1 /\ Capacity \in Nat
  BY <1>0, WorkO
<1>5. ASSUME NEW r, job' = [job EXCEPT ![p] = r], r.sale = s,
             job[p].pc \in Reserving => r.pc \in Reserving,
             faults = 0 => Fits(r)'
      PROVE  OInv'
  BY <1>0, <1>1, <1>2, <1>5, StillO
<1>6. CASE ReserveRead(p) \/ HoldRead(p) \/ SoldRead(p)
  <2> PICK l : l = IF job[p].pc = "res_read" THEN "res_write"
                   ELSE IF job[p].pc = "hold_read" THEN "hold_write" ELSE "sold_write"
    OBVIOUS
  <2> PICK r : r = [job[p] EXCEPT !.pc = l, !.doc = tier]
    OBVIOUS
  <2>1. /\ job[p].pc \in {"res_read", "hold_read", "sold_read"}
        /\ job' = [job EXCEPT ![p] = r] /\ tier' = tier
    BY <1>6, <1>1 DEF ReserveRead, HoldRead, SoldRead
  <2>2. r.pc = l /\ r.sale = s /\ r.goal = job[p].goal
    BY <1>1 DEF Job
  <2>3. Fits(job[p]) => Fits(r)'
    BY <1>1, <1>2, <2>1, <2>2 DEF Fits, Claims, Paying, HoldPCs
  <2>4. job[p].pc \in Reserving => r.pc \in Reserving
    BY <2>1, <2>2 DEF Reserving
  <2> QED
    BY <1>3, <1>5, <2>1, <2>2, <2>3, <2>4
<1>7. CASE ReserveWrite(p)
  <2> PICK r : r = [job[p] EXCEPT !.pc = "res_create", !.doc = NoDoc]
    OBVIOUS
  <2>1. /\ job[p].pc = "res_write" /\ job' = [job EXCEPT ![p] = r]
        /\ tier' = [tier EXCEPT !.reserved = job[p].doc.reserved + Qty[s]]
    BY <1>7, <1>1 DEF ReserveWrite
  <2>2. r.pc = "res_create" /\ r.sale = s /\ r.goal = job[p].goal
    BY <1>1 DEF Job
  <2>3. Account(job[p]) =>
          tier'.reserved = tier.reserved + Qty[s] /\ tier'.sold = tier.sold
    BY <1>1, <2>1 DEF Tier, Account
  <2>4. faults = 0 => Fits(r)'
    BY <1>1, <1>2, <1>3, <2>1, <2>2, <2>3 DEF Fits, Claims, Paying, HoldPCs
  <2>5. r.pc \in Reserving
    BY <2>2 DEF Reserving
  <2> QED
    BY <1>5, <2>1, <2>2, <2>4, <2>5
<1>8. CASE CallProvider(p)
  <2>1. job[p].pc = "provider" /\ tier' = tier
    BY <1>8 DEF CallProvider
  <2>2. PICK ok \in BOOLEAN :
          job' = [job EXCEPT ![p].pc   = IF ok THEN "store" ELSE "find",
                             ![p].goal = IF ok THEN "none" ELSE "release"]
    BY <1>8, Zenon DEF CallProvider
  <2> PICK l : l = IF ok THEN "store" ELSE "find"
    OBVIOUS
  <2> PICK g : g = IF ok THEN "none" ELSE "release"
    OBVIOUS
  <2> PICK r : r = [job[p] EXCEPT !.pc = l, !.goal = g]
    OBVIOUS
  <2>3. job' = [job EXCEPT ![p] = r]
    BY <1>1, <2>2
  <2>4. r.pc = l /\ r.sale = s /\ r.goal = g
    BY <1>1 DEF Job
  <2>5. Fits(job[p]) => Fits(r)'
    BY <1>1, <1>2, <2>1, <2>4 DEF Fits, Claims, Paying
  <2>6. job[p].pc \notin Reserving
    BY <2>1 DEF Reserving
  <2> QED
    BY <1>3, <1>5, <2>3, <2>4, <2>5, <2>6
<1>9. CASE FindHold(p)
  <2> PICK l : l = IF hold[s] = "held" THEN "hold_read" ELSE After(job[p].goal)
    OBVIOUS
  <2> PICK r : r = [job[p] EXCEPT !.pc = l]
    OBVIOUS
  <2>1. job[p].pc = "find" /\ job' = [job EXCEPT ![p] = r] /\ tier' = tier
    BY <1>9, <1>1 DEF FindHold, Goto
  <2>2. r.pc = l /\ r.sale = s /\ r.goal = job[p].goal
    BY <1>1 DEF Job
  <2>3. /\ l \in {"hold_read", "sold_read", "fail", "sweep_fail"}
        /\ l = "sold_read" => job[p].goal = "confirm" /\ hold[s] # "held"
        /\ job[p].goal = "confirm" => l \in {"hold_read", "sold_read"}
    BY DEF After
  <2>4. Fits(job[p]) => l # "sold_read"
    BY <1>1, <2>1, <2>3 DEF Fits
  <2>5. Fits(job[p]) => Fits(r)'
    BY <1>1, <1>2, <2>1, <2>2, <2>3, <2>4 DEF Fits, Claims, Paying, HoldPCs
  <2>6. job[p].pc \notin Reserving
    BY <2>1 DEF Reserving
  <2> QED
    BY <1>3, <1>5, <2>1, <2>2, <2>5, <2>6
<1>10. CASE HoldWrite(p)
  <2> PICK r : r = [job[p] EXCEPT !.pc = "hold_save", !.doc = NoDoc]
    OBVIOUS
  <2>1. /\ job[p].pc = "hold_write" /\ job' = [job EXCEPT ![p] = r]
        /\ tier' = IF job[p].doc.reserved = 0 THEN tier
                   ELSE [tier EXCEPT !.reserved = NonNeg(job[p].doc.reserved - Qty[s])]
    BY <1>10, <1>1 DEF HoldWrite
  <2>2. r.pc = "hold_save" /\ r.sale = s /\ r.goal = job[p].goal
    BY <1>1 DEF Job
  <2>3. Account(job[p]) => HeldTickets >= Qty[s] /\ HeldTickets \in Nat
    BY <1>1, <2>1, HeldMin, TicketsType DEF Account
  <2>4. faults = 0 =>
          tier'.reserved = tier.reserved - Qty[s] /\ tier'.sold = tier.sold
    BY <1>1, <1>3, <2>1, <2>3 DEF Tier, NonNeg, Account, ExtraReserved
  <2>5. faults = 0 => Fits(r)'
    BY <1>1, <1>2, <1>3, <2>1, <2>2, <2>4 DEF Fits, Claims, Paying, HoldPCs
  <2>6. job[p].pc \notin Reserving
    BY <2>1 DEF Reserving
  <2> QED
    BY <1>5, <2>1, <2>2, <2>5, <2>6
<1>11. CASE SoldWrite(p)
  <2>1. /\ job[p].pc = "sold_write"
        /\ tier' = [tier EXCEPT !.sold = job[p].doc.sold + Qty[s]]
    BY <1>11, <1>1 DEF SoldWrite
  <2>2. Account(job[p]) =>
          tier'.sold = tier.sold + Qty[s] /\ tier'.reserved = tier.reserved
    BY <1>1, <2>1 DEF Tier, Account
  <2>3. Claims(job[p]) = Qty[s]
    BY <2>1 DEF Claims
  <2>4. faults = 0 => tier'.sold + tier'.reserved <= Capacity
    BY <1>3, <2>2, <2>3 DEF Fits
  <2>5. job[p].pc \notin Passing /\ job[p].pc \notin Reserving
    BY <2>1 DEF Passing, Reserving
  <2>6. CASE job[p].goal = "sell"
    <3> PICK r : r = [job[p] EXCEPT !.pc = "commit", !.doc = NoDoc]
      OBVIOUS
    <3>1. job' = [job EXCEPT ![p] = r]
      BY <1>11, <1>1, <2>6 DEF SoldWrite
    <3>2. r.pc = "commit" /\ r.sale = s /\ r.goal = "sell"
      BY <1>1, <2>6 DEF Job
    <3>3. tier' \in Tier
      BY DEF TypeOK
    <3>4. faults = 0 => Fits(r)'
      BY <2>4, <3>2, <3>3, <1>3 DEF Fits, Claims, Paying, Tier
    <3> QED
      BY <1>5, <2>5, <3>1, <3>2, <3>4
  <2>7. CASE job[p].goal # "sell"
    <3>1. Finish(p)
      BY <1>11, <2>7 DEF SoldWrite
    <3>2. tier' \in Tier
      BY DEF TypeOK
    <3> QED
      BY <1>1, <1>2, <2>4, <2>5, <3>1, <3>2, FinishO
  <2> QED
    BY <2>6, <2>7
<1> QED
  BY <1>6, <1>7, <1>8, <1>9, <1>10, <1>11

-----------------------------------------------------------------------------
(* The finalizer up to its decision, and a claim that is lost.             *)
LEMMA FinalizeO ==
    ASSUME IInv, QInv, SInv, OInv, TypeOK', NEW p \in Procs,
           \/ StoreRef(p) \/ QueryCheckout(p) \/ LoadSale(p) \/ AskProvider(p)
           \/ (Claim(p) /\ status[job[p].sale] # "PENDING")
    PROVE  OInv'
<1> USE DEF saleVars, holdVars, payVars, At
<1>0. /\ job[p].pc \in {"store", "query", "load", "ask", "claim"}
      /\ job[p].pc \notin Passing /\ job[p].pc \notin Reserving
  BY DEF StoreRef, QueryCheckout, LoadSale, AskProvider, Claim, Passing, Reserving
<1>1. /\ job[p] \in Job /\ job \in [Procs -> Job] /\ Solo(p) /\ tier \in Tier
  BY <1>0, WorkS
<1>2. UNCHANGED <<status, hold, tier, faults>>
  BY DEF StoreRef, QueryCheckout, LoadSale, AskProvider, Claim
<1>3. faults = 0 => tier.sold + tier.reserved <= Capacity /\ Capacity \in Nat
  <2>1. Claims(job[p]) = 0
    BY <1>0 DEF Claims
  <2> QED
    BY <1>0, <1>1, <2>1, WorkO DEF Fits, Tier
<1>4. CASE Finish(p)
  BY <1>0, <1>1, <1>2, <1>3, <1>4, FinishO
<1>5. ASSUME NEW r, job' = [job EXCEPT ![p] = r],
             r.pc \in {"find", "load", "ask", "claim"},
             r.pc = "find" => r.goal = "release"
      PROVE  OInv'
  <2>1. faults = 0 => Fits(r)'
    BY <1>1, <1>2, <1>3, <1>5 DEF Fits, Claims, Paying, HoldPCs, Tier
  <2> QED
    BY <1>0, <1>1, <1>2, <1>5, <2>1, StillO DEF Passing
<1>6. CASE LoadSale(p) /\ Goto(p, "ask")
  <2> PICK r : r = [job[p] EXCEPT !.pc = "ask"]
    OBVIOUS
  <2>1. job' = [job EXCEPT ![p] = r] /\ r.pc = "ask"
    BY <1>1, <1>6 DEF Goto, Job
  <2> QED
    BY <1>5, <2>1
<1>7. ASSUME NEW a, Decide(p, a) PROVE OInv'
  <2> PICK l : l = IF a = "success" THEN "claim" ELSE "find"
    OBVIOUS
  <2> PICK g : g = IF a = "success" THEN "confirm" ELSE "release"
    OBVIOUS
  <2> PICK r : r = [job[p] EXCEPT !.ans = a, !.pc = l, !.goal = g]
    OBVIOUS
  <2>1. job' = [job EXCEPT ![p] = r]
    BY <1>1, <1>7 DEF Decide
  <2>2. r.pc = l /\ r.goal = g
    BY <1>1 DEF Job
  <2>3. r.pc \in {"find", "load", "ask", "claim"} /\ (r.pc = "find" => r.goal = "release")
    BY <2>2
  <2> QED
    BY <1>5, <2>1, <2>3
<1>8. CASE StoreRef(p) /\ ~Finish(p)
  <2> PICK r : r = [job[p] EXCEPT !.pc = "find", !.goal = "release",
                                 !.dirty = TRUE]
    OBVIOUS
  <2>1. job' = [job EXCEPT ![p] = r]
    BY <1>1, <1>8 DEF StoreRef
  <2>2. r.pc = "find" /\ r.goal = "release"
    BY <1>1 DEF Job
  <2> QED
    BY <1>5, <2>1, <2>2
<1>9. CASE QueryCheckout(p) /\ ~Finish(p)
  <2> PICK a : a = IF p \in Handlers THEN ReturnOutcome(job[p].sale) ELSE Outcome(job[p].sale)
    OBVIOUS
  <2> PICK r : r = [job[p] EXCEPT !.pc = "load", !.ans = a]
    OBVIOUS
  <2>1. job' = [job EXCEPT ![p] = r]
    BY <1>1, <1>9 DEF QueryCheckout
  <2>2. r.pc = "load"
    BY <1>1 DEF Job
  <2> QED
    BY <1>5, <2>1, <2>2
<1>10. CASE LoadSale(p) \/ AskProvider(p)
  BY <1>4, <1>6, <1>7, <1>10 DEF LoadSale, AskProvider
<1>11. CASE StoreRef(p) \/ QueryCheckout(p)
  BY <1>4, <1>8, <1>9, <1>11
<1>12. CASE Claim(p) /\ status[job[p].sale] # "PENDING"
  BY <1>4, <1>12 DEF Claim
<1> QED
  BY <1>10, <1>11, <1>12

(* What is left to show of a step that writes the sale or the hold of its  *)
(* process.                                                                *)
LEMMA WriteO ==
    ASSUME IInv, OInv, NEW p \in Procs, NEW s \in Sales, NEW r,
           Solo(p), s = job[p].sale,
           job' = [job EXCEPT ![p] = r],
           faults' = faults,
           \A x \in Sales : x # s => status'[x] = status[x] /\ hold'[x] = hold[x],
           faults = 0 => Fits(r)',
           status'[s] = "PENDING" => hold'[s] = "held" \/ (r.sale = s /\ r.pc \in Passing)
    PROVE  OInv'
<1>1. RoomMove(p, r)
  BY DEF RoomMove
<1> QED
  BY <1>1, RoomStep

LEMMA CreateO ==
    ASSUME IInv, QInv, SInv, OInv, NEW p \in Procs, CreateSale(p) \/ CreateHold(p)
    PROVE  OInv'
<1> USE DEF saleVars, holdVars, payVars, At
<1> PICK s : s = job[p].sale
  OBVIOUS
<1> PICK l : l = IF job[p].pc = "create" THEN "res_read" ELSE "provider"
  OBVIOUS
<1> PICK r : r = [job[p] EXCEPT !.pc = l]
  OBVIOUS
<1>0. job[p].pc \in {"create", "res_create"}
  BY DEF CreateSale, CreateHold
<1>1. /\ s \in Sales /\ job[p] \in Job /\ job \in [Procs -> Job] /\ JobOK(job[p])
      /\ Qty[s] \in Nat /\ tier \in Tier /\ Solo(p)
  BY <1>0, WorkS
<1>2. /\ UNCHANGED <<tier, faults>> /\ job' = [job EXCEPT ![p] = r]
      /\ \A x \in Sales : x # s => status'[x] = status[x] /\ hold'[x] = hold[x]
      /\ job[p].pc = "res_create" => hold'[s] = "held"
  BY <1>1 DEF CreateSale, CreateHold, Goto, IInv, TypeOK
<1>3. r.pc = l /\ r.sale = s /\ r.goal = "none"
  BY <1>0, <1>1 DEF Job, JobOK, InitPCs
<1>4. faults = 0 => Fits(r)'
  <2>1. faults = 0 => Fits(job[p]) /\ Capacity \in Nat
    BY <1>0, WorkO
  <2> QED
    BY <1>0, <1>1, <1>2, <1>3, <2>1 DEF Fits, Claims, Paying, Tier
<1>5. hold'[s] = "held" \/ (r.sale = s /\ r.pc \in Passing)
  BY <1>0, <1>2, <1>3 DEF Passing, Reserving
<1> QED
  BY <1>1, <1>2, <1>4, <1>5, WriteO

LEMMA ClaimO ==
    ASSUME IInv, QInv, SInv, OInv, NEW p \in Procs, Claim(p),
           status[job[p].sale] = "PENDING"
    PROVE  OInv'
<1> USE DEF saleVars, holdVars, payVars, At
<1> PICK s : s = job[p].sale
  OBVIOUS
<1> PICK r : r = [job[p] EXCEPT !.pc = "mint"]
  OBVIOUS
<1>0. job[p].pc = "claim" /\ job[p].pc \notin Passing
  BY DEF Claim, Passing, Reserving
<1>1. /\ s \in Sales /\ job[p] \in Job /\ job \in [Procs -> Job] /\ JobOK(job[p])
      /\ tier \in Tier /\ Solo(p)
  BY <1>0, WorkS
<1>2. /\ UNCHANGED <<hold, tier, faults>> /\ job' = [job EXCEPT ![p] = r]
      /\ status'[s] = "COMPLETED"
      /\ \A x \in Sales : x # s => status'[x] = status[x] /\ hold'[x] = hold[x]
  BY <1>1 DEF Claim, Goto, IInv, TypeOK
<1>3. r.pc = "mint" /\ r.sale = s
  BY <1>1 DEF Job
<1>4. faults = 0 => Fits(r)'
  <2>1. faults = 0 => Fits(job[p]) /\ hold[s] = "held" /\ Capacity \in Nat
    BY <1>0, WorkO
  <2> QED
    BY <1>0, <1>1, <1>2, <1>3, <2>1 DEF Fits, Claims, Paying, Tier
<1>5. status'[s] # "PENDING"
  BY <1>2
<1> QED
  BY <1>1, <1>2, <1>4, <1>5, WriteO

LEMMA MintTicketO ==
    ASSUME IInv, QInv, SInv, OInv, NEW p \in Procs, MintTicket(p)
    PROVE  OInv'
<1> USE DEF saleVars, holdVars, payVars, At
<1> PICK s : s = job[p].sale
  OBVIOUS
<1> PICK l : l = IF job[p].n + 1 < Qty[s] THEN "mint" ELSE "find"
  OBVIOUS
<1> PICK r : r = [job[p] EXCEPT !.n = @ + 1, !.pc = l]
  OBVIOUS
<1>0. /\ job[p].pc = "mint" /\ job[p].pc \notin {"fail", "sweep_fail"}
      /\ job[p].pc \notin Reserving
  BY DEF MintTicket, Reserving
<1>1. /\ s \in Sales /\ job[p] \in Job /\ job \in [Procs -> Job] /\ JobOK(job[p])
      /\ tier \in Tier /\ Solo(p)
  BY <1>0, WorkS
<1>2. /\ UNCHANGED <<status, hold, tier, faults>> /\ job' = [job EXCEPT ![p] = r]
  BY <1>1 DEF MintTicket
<1>3. r.pc = l /\ r.sale = s /\ r.goal = "confirm" /\ job[p].goal = "confirm"
  BY <1>0, <1>1 DEF Job, JobOK
<1>4. l \in {"mint", "find"}
  OBVIOUS
<1>5. faults = 0 => Fits(r)'
  <2>1. faults = 0 => Fits(job[p]) /\ Capacity \in Nat
    BY <1>0, WorkO
  <2> QED
    BY <1>0, <1>1, <1>2, <1>3, <1>4, <2>1 DEF Fits, Claims, Paying, HoldPCs, Tier
<1> QED
  BY <1>0, <1>1, <1>2, <1>5, StillO

LEMMA HoldSaveO ==
    ASSUME IInv, QInv, SInv, OInv, NEW p \in Procs, HoldSave(p)
    PROVE  OInv'
<1> USE DEF saleVars, holdVars, payVars, At
<1> PICK s : s = job[p].sale
  OBVIOUS
<1> PICK l : l = After(job[p].goal)
  OBVIOUS
<1> PICK r : r = [job[p] EXCEPT !.pc = l]
  OBVIOUS
<1>0. job[p].pc = "hold_save"
  BY DEF HoldSave
<1>1. /\ s \in Sales /\ job[p] \in Job /\ job \in [Procs -> Job] /\ JobOK(job[p])
      /\ Qty[s] \in Nat /\ tier \in Tier /\ Solo(p)
  BY <1>0, WorkS
<1>2. /\ UNCHANGED <<status, tier, faults>> /\ job' = [job EXCEPT ![p] = r]
      /\ \A x \in Sales : x # s => status'[x] = status[x] /\ hold'[x] = hold[x]
  BY <1>1 DEF HoldSave, Goto, IInv, TypeOK
<1>3. r.pc = l /\ r.sale = s /\ r.goal = job[p].goal
  BY <1>1 DEF Job
<1>4. /\ l \in {"sold_read", "fail", "sweep_fail"}
      /\ job[p].goal = "confirm" <=> l = "sold_read"
  BY DEF After
<1>5. faults = 0 => Fits(job[p]) /\ Capacity \in Nat
  BY <1>0, WorkO
<1>6. faults = 0 => Fits(r)'
  BY <1>0, <1>1, <1>2, <1>3, <1>4, <1>5 DEF Fits, Claims, Paying, HoldPCs, Tier
<1>7. faults = 0 =>
        (status'[s] = "PENDING" => hold'[s] = "held" \/ (r.sale = s /\ r.pc \in Passing))
  BY <1>0, <1>2, <1>3, <1>4, <1>5 DEF Fits, Paying, HoldPCs, Passing
<1>8. RoomMove(p, r)
  BY <1>1, <1>2, <1>6, <1>7 DEF RoomMove
<1> QED
  BY <1>8, RoomStep

(* A sale that is committed or failed is PENDING no more: the sweep leaves *)
(* only Yoco and YeboPay sales PENDING.                                    *)
LEMMA SettleO ==
    ASSUME IInv, QInv, SInv, OInv, Rails \subseteq Polled \cup {"CASH"},
           NEW p \in Procs, CommitSale(p) \/ FailSale(p) \/ SweepFail(p)
    PROVE  OInv'
<1> USE DEF saleVars, holdVars, payVars, At
<1> PICK s : s = job[p].sale
  OBVIOUS
<1> PICK r : r = [IdleJob EXCEPT !.pc = IF todo[p] = {} THEN "idle" ELSE "next"]
  OBVIOUS
<1>0. job[p].pc \in {"commit", "fail", "sweep_fail"}
  BY DEF CommitSale, FailSale, SweepFail
<1>1. /\ s \in Sales /\ job[p] \in Job /\ job \in [Procs -> Job] /\ tier \in Tier /\ Solo(p)
  BY <1>0, WorkS
<1>2. /\ UNCHANGED <<tier, hold, faults>> /\ job' = [job EXCEPT ![p] = r]
  BY DEF CommitSale, FailSale, SweepFail, Finish
<1>3. /\ status'[s] # "PENDING"
      /\ \A x \in Sales : x # s => status'[x] = status[x] /\ hold'[x] = hold[x]
  <2>1. rail[s] \notin NoAutoFail
    <3>1. rail[s] \in Rails
      BY <1>1 DEF IInv, TypeOK
    <3> QED
      BY <3>1 DEF NoAutoFail, Polled
  <2> QED
    BY <1>1, <2>1 DEF CommitSale, FailSale, SweepFail, IInv, TypeOK
<1>4. r.pc \in {"idle", "next"} /\ r.goal = "none"
  BY DEF IdleJob
<1>5. faults = 0 => tier.sold + tier.reserved <= Capacity
  <2>1. Claims(job[p]) = 0
    BY <1>0 DEF Claims
  <2> QED
    BY <1>0, <1>1, <2>1, WorkO DEF Fits, Tier
<1>6. faults = 0 => Fits(r)'
  BY <1>1, <1>2, <1>4, <1>5 DEF Fits, Claims, Paying, Tier
<1> QED
  BY <1>1, <1>2, <1>3, <1>6, WriteO

-----------------------------------------------------------------------------
LEMMA NextItemO ==
    ASSUME IInv, SInv, OInv, NEW p \in Procs, NextItem(p)
    PROVE  OInv'
<1> USE DEF saleVars, holdVars, payVars, At
<1>1. job[p].pc = "next" /\ UNCHANGED <<status, hold, tier, faults>>
  BY DEF NextItem
<1>2. Solo(p) /\ tier \in Tier /\ job[p].pc \notin Reserving
  BY <1>1 DEF IInv, TypeOK, SInv, Reserving
<1>3. PICK s \in todo[p] :
        job' = [job EXCEPT ![p] =
             [IdleJob EXCEPT !.sale = s,
                             !.pc   = IF p = Sweeper THEN "hold_read"
                                      ELSE IF p = "YEBOPAY" THEN "query" ELSE "load",
                             !.goal = IF p = Sweeper THEN "sweep" ELSE "none"]]
  BY Zenon DEF NextItem
<1> PICK l : l = IF p = Sweeper THEN "hold_read"
                 ELSE IF p = "YEBOPAY" THEN "query" ELSE "load"
  OBVIOUS
<1> PICK g : g = IF p = Sweeper THEN "sweep" ELSE "none"
  OBVIOUS
<1> PICK r : r = [IdleJob EXCEPT !.sale = s, !.pc = l, !.goal = g]
  OBVIOUS
<1>4. job' = [job EXCEPT ![p] = r]
  BY <1>3
<1>5. r.pc = l /\ r.goal = g
  BY DEF IdleJob
<1>6. g # "confirm" /\ l \in {"hold_read", "query", "load"}
  OBVIOUS
<1>7. faults = 0 => tier.sold + tier.reserved <= Capacity
  BY <1>1, <1>2 DEF OInv, Fits, Claims, Tier
<1>8. faults = 0 => Fits(r)'
  BY <1>1, <1>2, <1>5, <1>6, <1>7 DEF Fits, Claims, Paying, Tier
<1> QED
  BY <1>1, <1>2, <1>4, <1>8, StillO

LEMMA StartO ==
    ASSUME IInv, OInv, Overlap = FALSE,
           StartSweep \/ \E x \in Reconcilers : StartReconcile(x)
    PROVE  OInv'
<1> USE DEF saleVars, holdVars, payVars, At
<1>1. PICK p \in Procs : MayStart(p) /\ Goto(p, "next")
  BY DEF StartSweep, StartReconcile, Procs, Jobs
<1> PICK r : r = [job[p] EXCEPT !.pc = "next"]
  OBVIOUS
<1>2. /\ job[p].pc = "idle" /\ Solo(p) /\ job[p].pc \notin Reserving
      /\ job \in [Procs -> Job] /\ tier \in Tier
  BY <1>1 DEF MayStart, Solo, IInv, TypeOK, Reserving
<1>3. UNCHANGED <<status, hold, tier, faults>>
  BY DEF StartSweep, StartReconcile
<1>4. job' = [job EXCEPT ![p] = r] /\ r.pc = "next"
  BY <1>1, <1>2 DEF Goto, Job
<1>5. faults = 0 => tier.sold + tier.reserved <= Capacity
  BY <1>2 DEF OInv, Fits, Claims, Tier
<1>6. faults = 0 => Fits(r)'
  BY <1>2, <1>3, <1>4, <1>5 DEF Fits, Claims, Paying, HoldPCs, Tier
<1> QED
  BY <1>2, <1>3, <1>4, <1>6, StillO

LEMMA WorldO ==
    ASSUME IInv, OInv, Overlap = FALSE, NEW s \in Sales, World(s)
    PROVE  OInv'
<1> USE DEF saleVars, holdVars, payVars, At
<1>1. UNCHANGED <<status, hold, job, faults>>
  BY DEF World, RefundTicket, Pay, Reject, DeclineAttempt, HoldLapses
<1>2. \/ tier' = tier
      \/ /\ \A q \in Procs : job[q].pc = "idle"
         /\ tier' = [tier EXCEPT !.sold = @ - 1] /\ tier.sold >= 1
  BY DEF World, RefundTicket, Pay, Reject, DeclineAttempt, HoldLapses
<1>3. ASSUME NEW q \in Procs, Solo(q)', faults = 0 PROVE Fits(job[q])'
  <2>1. Fits(job[q])
    BY <1>1, <1>3 DEF OInv, Solo
  <2>2. CASE tier' = tier
    BY <1>1, <2>1, <2>2 DEF Fits, Claims, Paying
  <2>3. CASE tier' # tier
    <3>1. job[q].pc = "idle" /\ tier' = [tier EXCEPT !.sold = @ - 1]
      BY <1>2, <2>3
    <3>2. tier \in Tier /\ Capacity \in Nat
      BY SalesAssumption DEF IInv, TypeOK
    <3> QED
      BY <1>1, <2>1, <3>1, <3>2 DEF Fits, Claims, Paying, HoldPCs, Tier
  <2> QED
    BY <2>2, <2>3
<1>4. ASSUME NEW x \in Sales, faults = 0 PROVE PendingHeld(x)'
  BY <1>1, <1>4 DEF OInv, PendingHeld
<1> QED
  BY <1>1, <1>3, <1>4 DEF OInv

LEMMA InitOInv == Init => OInv
<1> SUFFICES ASSUME Init PROVE OInv
  OBVIOUS
<1> USE DEF Init
<1>1. tier.sold = 0 /\ tier.reserved = 0 /\ Capacity \in Nat
  BY SalesAssumption DEF NoDoc
<1>2. ASSUME NEW p \in Procs PROVE Fits(job[p])
  BY <1>1 DEF Fits, Claims, Paying, IdleJob
<1>3. ASSUME NEW s \in Sales PROVE PendingHeld(s)
  BY DEF PendingHeld
<1> QED
  BY <1>2, <1>3 DEF OInv

LEMMA NextOInv ==
    /\ Overlap = FALSE /\ Rails \subseteq Polled \cup {"CASH"}
    /\ IInv /\ QInv /\ SInv /\ OInv /\ [Next]_vars
    => OInv'
<1> SUFFICES ASSUME Overlap = FALSE, Rails \subseteq Polled \cup {"CASH"},
                    IInv, QInv, SInv, OInv, [Next]_vars
             PROVE  OInv'
  OBVIOUS
<1>0. TypeOK'
  BY NextIInv DEF IInv
<1>1. ASSUME NEW p \in Handlers, NEW s \in Sales, Request(p, s) PROVE OInv'
  BY <1>0, <1>1, RequestO
<1>2. ASSUME NEW p \in Procs, Step(p) PROVE OInv'
  <2>1. CASE Claim(p)
    BY <1>0, <2>1, ClaimO, FinalizeO
  <2> QED
    BY <1>0, <1>2, <2>1, LocalO, FinalizeO, CreateO, MintTicketO, HoldSaveO, SettleO,
       NextItemO
    DEF Step
<1>3. CASE StartSweep \/ \E x \in Reconcilers : StartReconcile(x)
  BY <1>0, <1>3, StartO
<1>4. ASSUME NEW p \in Procs, Abort(p) PROVE OInv'
  BY <1>4 DEF Abort, OInv, IInv, TypeOK
<1>5. ASSUME NEW s \in Sales, World(s) PROVE OInv'
  BY <1>0, <1>5, WorldO
<1>6. CASE UNCHANGED vars
  <2>1. UNCHANGED <<status, hold, tier, job, faults>>
    BY <1>6 DEF vars, saleVars, holdVars, payVars
  <2> QED
    BY <2>1 DEF OInv, Solo, At, Fits, Claims, Paying, PendingHeld
<1> QED
  BY <1>1, <1>2, <1>3, <1>4, <1>5, <1>6 DEF Next

(* No request is cut short where the bound says so.                        *)
Uncut == faults <= MaxFaults

LEMMA UncutStep == TypeOK /\ Uncut /\ [Next]_vars => Uncut'
<1> SUFFICES ASSUME TypeOK, Uncut, [Next]_vars PROVE Uncut'
  OBVIOUS
<1> USE DEF Uncut
<1>1. ASSUME NEW p \in Procs, Abort(p) PROVE Uncut'
  BY <1>1, SalesAssumption DEF Abort, TypeOK
<1>2. CASE faults' = faults
  BY <1>2
<1>3. ASSUME NEW p \in Handlers, NEW s \in Sales, Request(p, s) PROVE faults' = faults
  BY <1>3, Zenon DEF Request, Initiate, SellTickets, StartPoll, StartWebhook, StartReturn
<1>4. ASSUME NEW p \in Procs, Step(p) PROVE faults' = faults
  BY <1>4, Zenon
  DEF Step, CreateSale, ReserveRead, ReserveWrite, CreateHold, CallProvider, StoreRef,
      CommitSale, QueryCheckout, LoadSale, AskProvider, Claim, MintTicket, FindHold,
      HoldRead, HoldWrite, HoldSave, FailSale, SweepFail, SoldRead, SoldWrite, NextItem
<1>6. ASSUME NEW s \in Sales, World(s) PROVE faults' = faults
  BY <1>6 DEF World, RefundTicket, Pay, Reject, DeclineAttempt, HoldLapses
<1>7. CASE UNCHANGED vars
  BY <1>7 DEF vars
<1>8. StartSweep \/ (\E x \in Reconcilers : StartReconcile(x)) => faults' = faults
  BY DEF StartSweep, StartReconcile
<1> QED
  BY <1>1, <1>2, <1>3, <1>4, <1>6, <1>7, <1>8 DEF Next

(* Such a server never sells or holds more places than the tier has, on    *)
(* the rails whose sales end with their hold.                              *)
THEOREM NeverOversold ==
    ASSUME Overlap = FALSE, MaxFaults = 0, Rails \subseteq Polled \cup {"CASH"}
    PROVE  Spec => []NoOversell
<1>1. Init => IInv /\ QInv /\ SInv /\ OInv /\ Uncut
  BY InitIInv, InitQInv, InitSInv, InitOInv DEF Init, Uncut
<1>2. IInv /\ QInv /\ SInv /\ OInv /\ Uncut /\ [Next]_vars
        => (IInv /\ QInv /\ SInv /\ OInv /\ Uncut)'
  BY NextIInv, NextQInv, NextSInv, NextOInv, UncutStep DEF IInv
<1>3. IInv /\ QInv /\ SInv /\ OInv /\ Uncut => NoOversell
  <2> SUFFICES ASSUME IInv, SInv, OInv, Uncut, Idle
               PROVE  LiveTickets + HeldTickets <= Capacity
    BY DEF NoOversell
  <2>1. faults = 0 /\ tier \in Tier /\ Sweeper \in Procs
    BY DEF IInv, TypeOK, Uncut, Procs, Jobs
  <2>2. Solo(Sweeper) /\ Even(job[Sweeper]) /\ Claims(job[Sweeper]) = 0
    BY <2>1 DEF Idle, Solo, At, Even, Paying, HoldPCs, Claims
  <2>3. Books /\ tier.sold + tier.reserved + 0 <= Capacity
    BY <2>1, <2>2, EvenAccount DEF SInv, OInv, Fits
  <2> QED
    BY <2>1, <2>3, TicketsType DEF Books, Tier
<1> QED
  BY <1>1, <1>2, <1>3, PTL DEF Spec

=============================================================================
