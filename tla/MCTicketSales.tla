---------------------------- MODULE MCTicketSales ----------------------------
(***************************************************************************)
(* Instances of TicketSales for TLC.                                       *)
(***************************************************************************)
EXTENDS TicketSales, TLC

CONSTANTS s1, s2, s3, h1, h2

QtyOne   == [s \in Sales |-> 1]
QtyTwo   == [s \in Sales |-> 2]
\* One sale takes two places of the three, the others one each.
QtyMixed == [s \in Sales |-> IF s = s1 THEN 2 ELSE 1]

\* Handlers are alike: a request that finds them all free goes to the first.
\* While it runs the second takes requests for a sale that is not settled (of
\* a settled one they return at once), and no return from a payment page.  The
\* initiator is cut short anywhere but in its catch after a reference whose
\* save threw: what is left is what a job or a poll cut short there leaves.
RaceNext ==
    \/ \E s \in Sales : Request(h1, s)
    \/ \E s \in Sales : /\ ~At(h1, "idle") /\ status[s] \in {"none", "PENDING"}
                        /\ Request(h2, s) /\ job'[h2].pc # "query"
    \/ \E p \in Procs : Step(p)
    \/ \E p \in Jobs : Abort(p)
    \/ \E h \in Handlers : ~job[h].dirty /\ Abort(h)
    \/ StartSweep
    \/ \E r \in Reconcilers : StartReconcile(r)
    \/ \E s \in Sales : World(s)

RaceSpec == Init /\ [][RaceNext]_vars /\ Fairness
=============================================================================
