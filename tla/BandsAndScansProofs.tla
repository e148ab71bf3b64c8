------------------------- MODULE BandsAndScansProofs -------------------------
(***************************************************************************)
(* Proofs about Bands, for any tags, wallets, tickets and handlers, and    *)
(* about GateScans, for the same tickets and handlers and any sales.       *)
(*                                                                         *)
(* Bands.  The heart of the first invariant is what each request may rely  *)
(* on between two of its writes; the rest is that a tag is worn by one     *)
(* wallet and that a retired tag is worn by none.  The second says how far *)
(* the trail of a wallet may be behind its band, and for whom.             *)
(*                                                                         *)
(* GateScans.  Two transactions never hold the same ticket or the same     *)
(* sale, and what a transaction has read of a document it will still write *)
(* is what is stored, unless its snapshot is known to be out of date.      *)
(*                                                                         *)
(* The two keep no state in common, and no theorem is about both.          *)
(***************************************************************************)
EXTENDS Bands, GateScans, FiniteSetTheorems, TLAPS

-----------------------------------------------------------------------------
(* The inductive invariant.                                                *)

Typed ==
    /\ tag \in [Tags -> {"none", "active", "retired"}]
    /\ made \subseteq Wallets
    /\ band \in [Wallets -> Tags \cup {None}]
    /\ ticket \in [Wallets -> Tickets \cup {None}]
    /\ job \in [Handlers -> Job]
    /\ crossed \subseteq Tags /\ doubled \subseteq Wallets

\* Where a request of each kind can stand.
Placed(j) ==
    /\ j.k = "none"                   => j.at = "idle"
    /\ j.k \in {"register", "issue"}  => j.at \in {"enrol", "revive", "seek", "assert", "mint", "row"}
    /\ j.k = "bind"                   => j.at \in {"look", "adopt", "ensure", "assert", "claim",
                                                   "audit", "undo"}
    /\ j.k = "unbind"                 => j.at \in {"release", "stamp"}
    /\ j.k = "reissue"                => j.at \in {"taken", "release", "stamp", "assert", "claim",
                                                   "audit", "undo"}
    /\ j.k = "restore"                => j.at \in {"assert", "claim", "audit", "undo"}
    /\ j.k = "retire"                 => j.at \in {"worn", "release", "stamp", "flip"}

\* What it holds there.
Holds(j) ==
    /\ j.k \notin {"none", "unbind"}              => j.u \in Tags
    /\ j.k = "bind"                               => j.t \in Tickets
    /\ j.k \in {"unbind", "reissue", "restore"}   => j.w \in made
    /\ j.k = "bind" /\ j.at # "ensure"            => j.w \in made
    /\ j.k = "retire" /\ j.at \in {"release", "stamp"} => j.w \in made

\* A request admitted by the register, when the tag is retired after all.
AdmittedOK(j) == j.at \in {"claim", "mint"} /\ tag[j.u] = "retired" => j.u \in crossed

\* A retirement has, or is about to have, taken the tag off its wearer.
RetireOK(j) ==
    j.k = "retire" /\ j.u \notin crossed =>
        /\ j.at = "release"           => Wearers(j.u) \subseteq {j.w}
        /\ j.at \in {"stamp", "flip"} => Wearers(j.u) = {}

\* The wallet that is about to be given a ticket has none.
AdoptOK(j) == j.at \in {"look", "adopt"} => ticket[j.w] = None \/ j.w \in doubled

JobOK(j) == Placed(j) /\ Holds(j) /\ AdmittedOK(j) /\ RetireOK(j) /\ AdoptOK(j)

\* A job as far as the invariant looks at it.
Same(i, j) == i.k = j.k /\ i.u = j.u /\ i.w = j.w /\ i.t = j.t

\* The index on the uid; a wallet with a band or a ticket has been made.
OneWearer == \A v, w \in Wallets : v # w /\ band[v] # None => band[v] # band[w]
WornIsMade == \A w \in Wallets : band[w] # None \/ ticket[w] # None => w \in made

IInv ==
    /\ Typed
    /\ \A h \in Handlers : JobOK(job[h])
    /\ RetiredIsDead
    /\ OneWearer /\ WornIsMade

-----------------------------------------------------------------------------
(* What a step of one request leaves to the others.                        *)

LEMMA IdleOK ==
    /\ Idle \in Job /\ Idle.at = "idle" /\ Idle.k = "none"
    /\ JobOK(Idle) /\ JobOK(Idle)'
<1>1. Idle \in Job /\ Idle.at = "idle" /\ Idle.k = "none"
  BY DEF Idle, Job, Kinds, Steps
<1> QED BY <1>1 DEF JobOK, Placed, Holds, AdmittedOK, RetireOK, AdoptOK, Idle

LEMMA InitIInv == Init => IInv
<1> SUFFICES ASSUME Init PROVE IInv
  OBVIOUS
<1>1. Typed
  BY IdleOK DEF Init, Typed
<1>2. \A h \in Handlers : JobOK(job[h])
  BY IdleOK DEF Init
<1>3. RetiredIsDead
  BY DEF Init, RetiredIsDead
<1>4. OneWearer /\ WornIsMade
  BY DEF Init, OneWearer, WornIsMade
<1> QED BY <1>1, <1>2, <1>3, <1>4 DEF IInv

\* The update of one handler, whatever it becomes.
LEMMA OneJob ==
    ASSUME Typed, NEW h \in Handlers, NEW j \in Job, job' = [job EXCEPT ![h] = j]
    PROVE  /\ job' \in [Handlers -> Job] /\ job'[h] = j
           /\ \A g \in Handlers \ {h} : job'[g] = job[g]
BY DEF Typed

\* A step that writes to nothing the invariant reads, and takes a request to
\* where it may be.
LEMMA Quiet ==
    ASSUME IInv, UNCHANGED <<tag, made, band, ticket, crossed, doubled>>,
           NEW h \in Handlers, NEW j \in Job, job' = [job EXCEPT ![h] = j], JobOK(j)
    PROVE  IInv'
<1>1. /\ job' \in [Handlers -> Job] /\ job'[h] = j
      /\ \A g \in Handlers \ {h} : job'[g] = job[g]
  BY OneJob DEF IInv
<1>2. \A i : JobOK(i)' = JobOK(i)
  BY DEF JobOK, Placed, Holds, AdmittedOK, RetireOK, AdoptOK, Wearers
<1>3. Typed'
  BY <1>1 DEF IInv, Typed
<1>4. \A g \in Handlers : JobOK(job'[g])
  BY <1>1 DEF IInv
<1>5. \A g \in Handlers : JobOK(job[g])'
  BY <1>2, <1>4
<1>6. RetiredIsDead' /\ OneWearer' /\ WornIsMade'
  BY DEF IInv, RetiredIsDead, Wearers, OneWearer, WornIsMade
<1> QED BY <1>3, <1>5, <1>6 DEF IInv

\* What the types say of the request itself.
LEMMA Mine ==
    ASSUME IInv, NEW h \in Handlers
    PROVE  job[h] \in Job /\ JobOK(job[h])
BY DEF IInv, Typed

LEMMA StepNames == {"seek", "release", "assert", "audit", "row", "stamp"} \subseteq Steps
BY DEF Steps

\* A request that has changed its step, and one that now restores.
LEMMA Moved ==
    ASSUME NEW j \in Job
    PROVE  /\ \A at \in Steps : LET i == [j EXCEPT !.at = at] IN
                /\ i \in Job /\ i.at = at
                /\ i.k = j.k /\ i.u = j.u /\ i.w = j.w /\ i.t = j.t /\ i.previous = j.previous
           /\ j.previous # None =>
                LET i == [j EXCEPT !.k = "restore", !.at = "assert", !.u = j.previous] IN
                /\ i \in Job /\ i.k = "restore" /\ i.at = "assert" /\ i.u \in Tags /\ i.w = j.w
<1>1. Job = [k : Kinds, at : Steps, u : Tags \cup {None}, w : Wallets \cup {None},
             t : Tickets \cup {None}, previous : Tags \cup {None}, money : BOOLEAN]
  BY DEF Job
<1>2. "restore" \in Kinds /\ "assert" \in Steps
  BY DEF Kinds, Steps
<1> QED BY <1>1, <1>2

-----------------------------------------------------------------------------
(* The beginning of a request.                                             *)

LEMMA BeginsIInv ==
    ASSUME IInv, NEW h \in Handlers, NEW j \in Job, Begins(h, j), JobOK(j)
    PROVE  IInv'
<1>1. UNCHANGED <<tag, made, band, ticket, crossed, doubled>> /\ job' = [job EXCEPT ![h] = j]
  BY DEF Begins, wallets, hist
<1> QED BY <1>1, Quiet

\* The shapes a new request has.
LEMMA NewJobs ==
    /\ \A at \in Steps, u \in Tags, money \in BOOLEAN :
         [Idle EXCEPT !.k = "register", !.at = at, !.u = u, !.money = money] \in Job
    /\ \A k \in Kinds, at \in Steps, u \in Tags : [Idle EXCEPT !.k = k, !.at = at, !.u = u] \in Job
    /\ \A at \in Steps, w \in Wallets : [Idle EXCEPT !.k = "unbind", !.at = at, !.w = w] \in Job
    /\ \A at \in Steps, w \in Wallets, u \in Tags, v \in Tags \cup {None} :
         [Idle EXCEPT !.k = "reissue", !.at = at, !.w = w, !.u = u, !.previous = v] \in Job
    /\ \A at \in Steps, u \in Tags, t \in Tickets :
         /\ [[Idle EXCEPT !.k = "bind", !.u = u, !.t = t] EXCEPT !.at = at] \in Job
         /\ \A w \in Wallets :
              [[Idle EXCEPT !.k = "bind", !.u = u, !.t = t] EXCEPT !.at = at, !.w = w] \in Job
<1>1. Job = [k : Kinds, at : Steps, u : Tags \cup {None}, w : Wallets \cup {None},
             t : Tickets \cup {None}, previous : Tags \cup {None}, money : BOOLEAN]
  BY DEF Job
<1>2. Idle \in Job
  BY IdleOK
<1>3. {"register", "unbind", "reissue", "bind"} \subseteq Kinds
  BY DEF Kinds
<1> QED BY <1>1, <1>2, <1>3

LEMMA ReissueIInv ==
    ASSUME IInv, NEW h \in Handlers, NEW w \in Wallets, NEW u \in Tags, reissueBand(h, w, u)
    PROVE  IInv'
<1> DEFINE j == [Idle EXCEPT !.k = "reissue", !.at = "taken", !.w = w, !.u = u, !.previous = band[w]]
<1>1. w \in made /\ Begins(h, j)
  BY DEF reissueBand
<1>2. j \in Job
  BY NewJobs DEF IInv, Typed, Steps
<1>3. j.k = "reissue" /\ j.at = "taken" /\ j.w = w /\ j.u = u
  BY DEF Idle
<1> HIDE DEF j
<1>4. JobOK(j)
  BY <1>1, <1>3 DEF JobOK, Placed, Holds, AdmittedOK, RetireOK, AdoptOK
<1> QED BY <1>1, <1>2, <1>4, BeginsIInv

LEMMA RequestIInv ==
    ASSUME IInv, NEW h \in Handlers, Request(h)
    PROVE  IInv'
<1>1. ASSUME NEW u \in Tags, NEW money \in BOOLEAN, registerTag(h, u, money) PROVE IInv'
  <2>1. PICK at \in {"enrol", "revive", "seek"} :
          Begins(h, [Idle EXCEPT !.k = "register", !.at = at, !.u = u, !.money = money])
    BY <1>1 DEF registerTag
  <2> DEFINE j == [Idle EXCEPT !.k = "register", !.at = at, !.u = u, !.money = money]
  <2>2. j \in Job
    BY NewJobs DEF Steps
  <2>3. j.k = "register" /\ j.at = at /\ j.u = u
    BY DEF Idle
  <2> HIDE DEF j
  <2>4. JobOK(j)
    BY <2>3 DEF JobOK, Placed, Holds, AdmittedOK, RetireOK, AdoptOK
  <2> QED BY <2>1, <2>2, <2>4, BeginsIInv DEF j
<1>2. ASSUME NEW u \in Tags, Issue(h, u) \/ retireTag(h, u) PROVE IInv'
  <2>1. PICK k \in {"issue", "retire"}, at \in {"seek", "worn"} :
          /\ Begins(h, [Idle EXCEPT !.k = k, !.at = at, !.u = u])
          /\ k = "issue" <=> at = "seek"
    BY <1>2 DEF Issue, retireTag
  <2> DEFINE j == [Idle EXCEPT !.k = k, !.at = at, !.u = u]
  <2>2. j \in Job
    BY NewJobs DEF Steps, Kinds
  <2>3. j.k = k /\ j.at = at /\ j.u = u
    BY DEF Idle
  <2> HIDE DEF j
  <2>4. JobOK(j)
    BY <2>1, <2>3 DEF JobOK, Placed, Holds, AdmittedOK, RetireOK, AdoptOK
  <2> QED BY <2>1, <2>2, <2>4, BeginsIInv DEF j
<1>3. ASSUME NEW u \in Tags, NEW t \in Tickets, bindBandToTicket(h, t, u) PROVE IInv'
  <2> DEFINE base == [Idle EXCEPT !.k = "bind", !.u = u, !.t = t]
             j == [base EXCEPT !.at = "ensure"]
             i(w) == [base EXCEPT !.at = "look", !.w = w]
  <2>1. \/ Begins(h, j)
        \/ \E w \in Wallets : band[w] = u /\ ticket[w] = None /\ Begins(h, i(w))
    BY <1>3 DEF bindBandToTicket, Wearers
  <2>2. j \in Job /\ \A w \in Wallets : i(w) \in Job
    BY NewJobs DEF Steps
  <2>3. /\ j.k = "bind" /\ j.at = "ensure" /\ j.u = u /\ j.t = t
        /\ \A w : i(w).k = "bind" /\ i(w).at = "look" /\ i(w).u = u /\ i(w).t = t /\ i(w).w = w
    BY DEF Idle
  <2> HIDE DEF j, i
  <2>4. JobOK(j)
    BY <2>3 DEF JobOK, Placed, Holds, AdmittedOK, RetireOK, AdoptOK
  <2>5. \A w \in Wallets : band[w] = u /\ ticket[w] = None => JobOK(i(w))
    <3> SUFFICES ASSUME NEW w \in Wallets, band[w] = u, ticket[w] = None PROVE JobOK(i(w))
      OBVIOUS
    <3>1. w \in made
      BY NoneAssumption DEF IInv, WornIsMade
    <3> QED BY <2>3, <3>1 DEF JobOK, Placed, Holds, AdmittedOK, RetireOK, AdoptOK
  <2> QED BY <2>1, <2>2, <2>4, <2>5, BeginsIInv
<1>4. ASSUME NEW w \in Wallets, Unbind(h, w) PROVE IInv'
  <2> DEFINE j == [Idle EXCEPT !.k = "unbind", !.at = "release", !.w = w]
  <2>1. w \in made /\ Begins(h, j)
    BY <1>4 DEF Unbind
  <2>2. j \in Job
    BY NewJobs DEF Steps
  <2>3. j.k = "unbind" /\ j.at = "release" /\ j.w = w
    BY DEF Idle
  <2> HIDE DEF j
  <2>4. JobOK(j)
    BY <2>1, <2>3 DEF JobOK, Placed, Holds, AdmittedOK, RetireOK, AdoptOK
  <2> QED BY <2>1, <2>2, <2>4, BeginsIInv
<1>5. ASSUME NEW u \in Tags, NEW t \in Tickets, reissueBandForTicket(h, t, u) PROVE IInv'
  BY <1>5, ReissueIInv DEF reissueBandForTicket, WalletsOf
<1> QED BY <1>1, <1>2, <1>3, <1>4, <1>5, ReissueIInv DEF Request

-----------------------------------------------------------------------------
(* Steps that only move a request on.                                      *)

\* The request goes on to at, with what it holds.
LEMMA GoesIInv ==
    ASSUME IInv, NEW h \in Handlers, NEW at \in Steps, Goes(h, at),
           UNCHANGED <<tag, made, band, ticket, crossed, doubled>>,
           \A j \in Job : j.at = at /\ Same(j, job[h]) => JobOK(j)
    PROVE  IInv'
<1> DEFINE j == [job[h] EXCEPT !.at = at]
<1>1. job' = [job EXCEPT ![h] = j]
  BY DEF Goes
<1>2. j \in Job /\ j.at = at /\ Same(j, job[h])
  BY Mine, Moved DEF Same
<1> HIDE DEF j
<1>3. JobOK(j)
  BY <1>2
<1> QED BY <1>1, <1>2, <1>3, Quiet

LEMMA EndsIInv ==
    ASSUME IInv, NEW h \in Handlers, Ends(h),
           UNCHANGED <<tag, made, band, ticket, crossed, doubled>>
    PROVE  IInv'
BY IdleOK, Quiet DEF Ends

LEMMA BindFailsIInv ==
    ASSUME IInv, NEW h \in Handlers, BindFails(h),
           UNCHANGED <<tag, made, band, ticket, crossed, doubled>>
    PROVE  IInv'
<1>1. CASE Ends(h)
  BY <1>1, EndsIInv
<1>2. CASE job[h].k = "reissue" /\ job[h].previous # None
  <2> DEFINE j == [job[h] EXCEPT !.k = "restore", !.at = "assert", !.u = job[h].previous]
  <2>1. job' = [job EXCEPT ![h] = j]
    BY <1>2 DEF BindFails
  <2>2. j \in Job /\ j.k = "restore" /\ j.at = "assert" /\ j.u \in Tags /\ j.w = job[h].w
    BY <1>2, Mine, Moved
  <2> HIDE DEF j
  <2>3. JobOK(j)
    BY <1>2, <2>2, Mine DEF JobOK, Placed, Holds, AdmittedOK, RetireOK, AdoptOK
  <2> QED BY <2>1, <2>2, <2>3, Quiet
<1> QED BY <1>1, <1>2 DEF BindFails

LEMMA MoveIInv ==
    ASSUME IInv, NEW h \in Handlers,
           \/ ensureStandaloneWalletForBand(h) \/ WriteRow(h) \/ AskRegister(h) \/ Audit(h)
           \/ AuditFails(h) \/ Look(h) \/ Preflight(h) \/ Stamp(h) \/ FindWearer(h) \/ Cut(h)
    PROVE  IInv'
<1>0. UNCHANGED <<tag, made, band, ticket, crossed, doubled>>
  BY DEF ensureStandaloneWalletForBand, WriteRow, AskRegister, Audit, AuditFails, Look, Preflight,
         Stamp, FindWearer, Cut, wallets, hist
<1>1. CASE Ends(h)
  BY <1>0, <1>1, EndsIInv
<1> DEFINE k == job[h].k
<1>2. job[h] \in Job /\ JobOK(job[h]) /\ k \in Kinds
  BY Mine DEF Job
<1>3. CASE ensureStandaloneWalletForBand(h) /\ Goes(h, "assert")
  <2>1. job[h].at = "seek" /\ k \in {"register", "issue"}
    BY <1>2, <1>3 DEF ensureStandaloneWalletForBand, JobOK, Placed, Kinds
  <2>2. \A j \in Job : j.at = "assert" /\ Same(j, job[h]) => JobOK(j)
    BY <1>2, <2>1 DEF Same, JobOK, Placed, Holds, AdmittedOK, RetireOK, AdoptOK
  <2> QED BY <1>0, <1>3, <2>2, GoesIInv DEF Steps
<1>4. CASE AskRegister(h)
  <2>1. CASE BindFails(h)
    BY <1>0, <2>1, BindFailsIInv
  <2>2. CASE /\ tag[job[h].u] = "active" /\ job[h].at = "assert"
             /\ Goes(h, IF k \in {"register", "issue"} THEN "mint" ELSE "claim")
    <3>1. CASE k \in {"register", "issue"}
      <4>1. \A j \in Job : j.at = "mint" /\ Same(j, job[h]) => JobOK(j)
        BY <1>2, <2>2, <3>1 DEF Same, JobOK, Placed, Holds, AdmittedOK, RetireOK, AdoptOK
      <4> QED BY <1>0, <2>2, <3>1, <4>1, GoesIInv DEF Steps
    <3>2. CASE k \notin {"register", "issue"}
      <4>1. k \in {"bind", "reissue", "restore"}
        BY <1>2, <2>2, <3>2 DEF JobOK, Placed, Kinds
      <4>2. \A j \in Job : j.at = "claim" /\ Same(j, job[h]) => JobOK(j)
        BY <1>2, <2>2, <4>1 DEF Same, JobOK, Placed, Holds, AdmittedOK, RetireOK, AdoptOK
      <4> QED BY <1>0, <2>2, <3>2, <4>2, GoesIInv DEF Steps
    <3> QED BY <3>1, <3>2
  <2> QED BY <1>4, <2>1, <2>2 DEF AskRegister, assertTagRegistered
<1>5. CASE AuditFails(h)
  <2>1. job[h].at = "audit" /\ Goes(h, "undo")
    BY <1>5 DEF AuditFails
  <2>2. k \in {"bind", "reissue", "restore"}
    BY <1>2, <2>1 DEF JobOK, Placed, Kinds
  <2>3. \A j \in Job : j.at = "undo" /\ Same(j, job[h]) => JobOK(j)
    BY <1>2, <2>1, <2>2 DEF Same, JobOK, Placed, Holds, AdmittedOK, RetireOK, AdoptOK
  <2> QED BY <1>0, <2>1, <2>3, GoesIInv DEF Steps
<1>6. CASE Look(h) /\ Goes(h, "adopt")
  <2>1. job[h].at = "look"
    BY <1>6 DEF Look
  <2>2. k = "bind"
    BY <1>2, <2>1 DEF JobOK, Placed, Kinds
  <2>3. \A j \in Job : j.at = "adopt" /\ Same(j, job[h]) => JobOK(j)
    BY <1>2, <2>1, <2>2 DEF Same, JobOK, Placed, Holds, AdmittedOK, RetireOK, AdoptOK
  <2> QED BY <1>0, <1>6, <2>3, GoesIInv DEF Steps
<1>7. CASE Preflight(h) /\ \E at \in {"assert", "release"} : Goes(h, at)
  <2>1. job[h].at = "taken"
    BY <1>7 DEF Preflight
  <2>2. k = "reissue"
    BY <1>2, <2>1 DEF JobOK, Placed, Kinds
  <2>3. PICK at \in {"assert", "release"} : Goes(h, at)
    BY <1>7
  <2>4. \A j \in Job : j.at = at /\ Same(j, job[h]) => JobOK(j)
    BY <1>2, <2>1, <2>2 DEF Same, JobOK, Placed, Holds, AdmittedOK, RetireOK, AdoptOK
  <2> QED BY <1>0, <2>3, <2>4, GoesIInv DEF Steps
<1>9. CASE Stamp(h)
  <2>1. job[h].at = "stamp" /\ AfterStamp(h)
    BY <1>9 DEF Stamp
  <2>2. CASE k = "reissue"
    <3>1. \A j \in Job : j.at = "assert" /\ Same(j, job[h]) => JobOK(j)
      BY <1>2, <2>1, <2>2 DEF Same, JobOK, Placed, Holds, AdmittedOK, RetireOK, AdoptOK
    <3>2. Goes(h, "assert")
      BY <2>1, <2>2 DEF AfterStamp
    <3> QED BY <1>0, <3>1, <3>2, GoesIInv DEF Steps
  <2>3. CASE k = "retire"
    <3>1. \A j \in Job : j.at = "flip" /\ Same(j, job[h]) => JobOK(j)
      BY <1>2, <2>1, <2>3 DEF Same, JobOK, Placed, Holds, AdmittedOK, RetireOK, AdoptOK
    <3>2. Goes(h, "flip")
      BY <2>1, <2>3 DEF AfterStamp
    <3> QED BY <1>0, <3>1, <3>2, GoesIInv DEF Steps
  <2>4. CASE k \notin {"reissue", "retire"}
    BY <1>1, <2>1, <2>4 DEF AfterStamp
  <2> QED BY <2>2, <2>3, <2>4
<1>8. CASE FindWearer(h)
  <2> DEFINE u == job[h].u
  <2>1. job[h].at = "worn"
    BY <1>8 DEF FindWearer
  <2>2. k = "retire" /\ u \in Tags
    BY <1>2, <2>1 DEF JobOK, Placed, Holds, Kinds
  <2>3. CASE Wearers(u) = {} /\ Goes(h, "flip")
    <3>1. \A j \in Job : j.at = "flip" /\ Same(j, job[h]) => JobOK(j)
      BY <1>2, <2>1, <2>2, <2>3 DEF Same, JobOK, Placed, Holds, AdmittedOK, RetireOK, AdoptOK
    <3> QED BY <1>0, <2>3, <3>1, GoesIInv DEF Steps
  <2>4. CASE \E w \in Wearers(u) : job' = [job EXCEPT ![h].at = "release", ![h].w = w]
    <3>1. PICK w \in Wearers(u) : job' = [job EXCEPT ![h].at = "release", ![h].w = w]
      BY <2>4
    <3>2. w \in Wallets /\ band[w] = u /\ u # None
      BY <2>2, <3>1, NoneAssumption DEF Wearers
    <3>3. w \in made /\ Wearers(u) \subseteq {w}
      BY <3>2 DEF IInv, WornIsMade, OneWearer, Wearers
    <3> DEFINE j == [job[h] EXCEPT !.at = "release", !.w = w]
    <3>4. job' = [job EXCEPT ![h] = j]
      BY <3>1
    <3>5. /\ j \in Job /\ j.at = "release" /\ j.w = w
          /\ j.k = job[h].k /\ j.u = job[h].u
      <4>1. w \in Wallets /\ "release" \in Steps /\ job[h] \in Job
        BY <1>2, <3>2, StepNames
      <4> QED BY <4>1 DEF Job
    <3> HIDE DEF j
    <3>6. JobOK(j)
      <4>1. j.k = "retire" /\ j.u = u /\ u \in Tags
        BY <2>2, <3>5
      <4>2. Placed(j) /\ Holds(j)
        BY <3>3, <3>5, <4>1 DEF Placed, Holds
      <4>3. AdmittedOK(j) /\ RetireOK(j) /\ AdoptOK(j)
        BY <3>3, <3>5, <4>1 DEF AdmittedOK, RetireOK, AdoptOK
      <4> QED BY <4>2, <4>3 DEF JobOK
    <3> QED BY <1>0, <3>4, <3>5, <3>6, Quiet
  <2> QED BY <1>8, <2>3, <2>4 DEF FindWearer
<1> QED BY <1>1, <1>3, <1>4, <1>5, <1>6, <1>7, <1>8, <1>9
    DEF ensureStandaloneWalletForBand, WriteRow, Audit, Look, Preflight, Cut

-----------------------------------------------------------------------------
(* Steps that write.                                                       *)

\* A write that leaves the jobs of the others as good as they were.
LEMMA WriteSteps ==
    ASSUME IInv, NEW h \in Handlers, NEW j \in Job, job' = [job EXCEPT ![h] = j],
           /\ tag' \in [Tags -> {"none", "active", "retired"}]
           /\ made' \subseteq Wallets
           /\ band' \in [Wallets -> Tags \cup {None}]
           /\ ticket' \in [Wallets -> Tickets \cup {None}]
           /\ crossed' \subseteq Tags /\ doubled' \subseteq Wallets,
           JobOK(j)', \A g \in Handlers \ {h} : JobOK(job[g])',
           RetiredIsDead', OneWearer', WornIsMade'
    PROVE  IInv'
<1>1. /\ job' \in [Handlers -> Job] /\ job'[h] = j
      /\ \A g \in Handlers \ {h} : job'[g] = job[g]
  BY OneJob DEF IInv
<1>2. Typed'
  BY <1>1 DEF Typed
<1>3. JobOK(job[h])'
  BY <1>1
<1>4. \A g \in Handlers : JobOK(job[g])'
  BY <1>3 DEF IInv
<1> QED BY <1>2, <1>4 DEF IInv

LEMMA EnrolIInv ==
    ASSUME IInv, NEW h \in Handlers, Enrol(h)
    PROVE  IInv'
<1> DEFINE u == job[h].u
<1>1. /\ UNCHANGED <<made, band, ticket, crossed, doubled>>
      /\ job[h].at \in {"enrol", "revive"}
  BY DEF Enrol, wallets, hist
<1>2. job[h] \in Job /\ JobOK(job[h]) /\ job[h].k \in {"register", "issue"} /\ u \in Tags
  <2>1. job[h] \in Job /\ JobOK(job[h]) /\ job[h].k \in Kinds
    BY Mine DEF Job
  <2>2. job[h].k \in {"register", "issue"}
    BY <1>1, <2>1 DEF JobOK, Placed, Kinds
  <2> QED BY <2>1, <2>2 DEF JobOK, Holds
<1>3. /\ tag' \in [Tags -> {"none", "active", "retired"}]
      /\ \A v \in Tags : tag'[v] = "retired" => tag[v] = "retired"
  BY <1>2 DEF Enrol, IInv, Typed
<1>4. PICK j \in Job : /\ job' = [job EXCEPT ![h] = j]
                       /\ j = Idle \/ (j.at = "seek" /\ Same(j, job[h]))
  <2> DEFINE j == [job[h] EXCEPT !.at = "seek"]
  <2>1. j \in Job /\ j.at = "seek" /\ Same(j, job[h])
    <3>1. "seek" \in Steps /\ job[h] \in Job
      BY <1>2, StepNames
    <3> QED BY <3>1, Moved DEF Same
  <2>2. job' = [job EXCEPT ![h] = j] \/ job' = [job EXCEPT ![h] = Idle]
    BY DEF Enrol, Goes, Ends
  <2> HIDE DEF j
  <2> QED BY <2>1, <2>2, IdleOK
<1>5. ASSUME NEW i \in Job, JobOK(i) PROVE JobOK(i)'
  <2>1. i.at \in {"claim", "mint"} => i.u \in Tags
    BY <1>5 DEF JobOK, Placed, Holds, Job, Kinds
  <2>2. AdmittedOK(i)'
    BY <1>1, <1>3, <1>5, <2>1 DEF JobOK, AdmittedOK
  <2> QED BY <1>1, <1>5, <2>2 DEF JobOK, Placed, Holds, RetireOK, AdoptOK, Wearers
<1>6. JobOK(j)
  <2>1. CASE j = Idle
    BY <2>1, IdleOK
  <2>2. CASE j.at = "seek" /\ Same(j, job[h])
    BY <1>2, <2>2 DEF Same, JobOK, Placed, Holds, AdmittedOK, RetireOK, AdoptOK
  <2> QED BY <1>4, <2>1, <2>2
<1>7. \A g \in Handlers \ {h} : JobOK(job[g])'
  <2>1. \A g \in Handlers \ {h} : job'[g] = job[g]
    BY <1>4, OneJob DEF IInv
  <2>2. \A g \in Handlers \ {h} : job'[g] \in Job /\ JobOK(job'[g])
    BY <2>1, Mine
  <2> QED BY <1>5, <2>2
<1>8. JobOK(j)'
  BY <1>5, <1>6
<1>9. RetiredIsDead' /\ OneWearer' /\ WornIsMade'
  BY <1>1, <1>3 DEF IInv, RetiredIsDead, Wearers, OneWearer, WornIsMade
<1>10. /\ made' \subseteq Wallets
       /\ band' \in [Wallets -> Tags \cup {None}]
       /\ ticket' \in [Wallets -> Tickets \cup {None}]
       /\ crossed' \subseteq Tags /\ doubled' \subseteq Wallets
  BY <1>1 DEF IInv, Typed
<1> QED BY <1>3, <1>4, <1>7, <1>8, <1>9, <1>10, WriteSteps

\* The facts that WriteSteps wants of the others, from one about any job.
LEMMA Others ==
    ASSUME IInv, NEW h \in Handlers, NEW j \in Job, job' = [job EXCEPT ![h] = j],
           \A i \in Job : JobOK(i) /\ (\E g \in Handlers \ {h} : i = job[g]) => JobOK(i)'
    PROVE  \A g \in Handlers \ {h} : JobOK(job[g])'
<1>1. \A g \in Handlers \ {h} : job'[g] = job[g]
  BY OneJob DEF IInv
<1>2. \A g \in Handlers \ {h} : /\ job'[g] \in Job /\ JobOK(job'[g])
                                /\ \E f \in Handlers \ {h} : job'[g] = job[f]
  BY <1>1, Mine
<1> QED BY <1>2

LEMMA MintIInv ==
    ASSUME IInv, NEW h \in Handlers, NEW w \in Wallets, MintWallet(h, w)
    PROVE  IInv'
<1>1. PICK u : u = job[h].u
  OBVIOUS
<1>2. /\ job[h].at = "mint" /\ job[h] \in Job /\ JobOK(job[h])
      /\ u \in Tags /\ job[h].k \in {"register", "issue"}
  <2>1. job[h].at = "mint" /\ job[h] \in Job /\ JobOK(job[h]) /\ job[h].k \in Kinds
    BY Mine DEF MintWallet, Job
  <2> QED BY <1>1, <2>1 DEF JobOK, Placed, Holds, Kinds
<1>3. CASE Wearers(u) # {}
  <2>1. Ends(h) /\ UNCHANGED <<tag, made, band, ticket, crossed, doubled>>
    BY <1>1, <1>3 DEF MintWallet, wallets
  <2> QED BY <2>1, EndsIInv
<1>4. CASE Wearers(u) = {}
  <2>1. /\ w \notin made /\ made' = made \cup {w} /\ band' = [band EXCEPT ![w] = u]
        /\ crossed' = Crosses(u)
        /\ UNCHANGED <<tag, ticket, doubled>>
    BY <1>1, <1>4 DEF MintWallet
  <2>2. PICK j : j = [job[h] EXCEPT !.at = "row", !.w = w]
    OBVIOUS
  <2>3. "row" \in Steps
    BY StepNames
  <2>4. /\ j \in Job /\ j.at = "row" /\ j.w = w
        /\ j.k = job[h].k /\ j.u = job[h].u /\ j.t = job[h].t
    BY <1>2, <2>2, <2>3 DEF Job
  <2>5. job' = [job EXCEPT ![h] = j]
    BY <1>1, <1>4, <2>2 DEF MintWallet
  <2>6. JobOK(j)'
    BY <1>2, <2>1, <2>4 DEF JobOK, Placed, Holds, AdmittedOK, RetireOK, AdoptOK
  <2>7. crossed \subseteq crossed' /\ crossed' \subseteq Tags
    BY <1>2, <2>1 DEF Crosses, IInv, Typed
  <2>8. \A v \in Tags : v # u => Wearers(v)' = Wearers(v) \ {w}
    BY <2>1 DEF Wearers, IInv, Typed
  <2>9. band[w] = None
    BY <2>1 DEF IInv, WornIsMade
  <2>10. tag[u] = "retired" => u \in crossed
    BY <1>1, <1>2 DEF JobOK, AdmittedOK
  <2>11. ASSUME NEW i \in Job, JobOK(i), NEW g \in Handlers \ {h}, i = job[g]
         PROVE  JobOK(i)'
    <3>1. Placed(i)' /\ Holds(i)'
      BY <2>1, <2>11 DEF JobOK, Placed, Holds
    <3>2. AdmittedOK(i)'
      BY <2>1, <2>7, <2>11 DEF JobOK, AdmittedOK
    <3>3. RetireOK(i)'
      <4>1. SUFFICES ASSUME i.k = "retire", i.u \notin crossed' PROVE RetireOK(i)'
        BY DEF RetireOK
      <4>2. i.at # "idle" /\ i.u \in Tags /\ RetireOK(i) /\ i.u \notin crossed
        BY <2>7, <2>11, <4>1 DEF JobOK, Placed, Holds
      <4>3. i.u # u
        BY <2>1, <2>11, <4>1, <4>2 DEF Crosses, Retiring
      <4>4. Wearers(i.u)' \subseteq Wearers(i.u)
        BY <2>8, <4>2, <4>3
      <4> QED BY <4>1, <4>2, <4>4 DEF RetireOK
    <3>4. AdoptOK(i)'
      BY <2>1, <2>11 DEF JobOK, AdoptOK
    <3> QED BY <3>1, <3>2, <3>3, <3>4 DEF JobOK
  <2>12. \A g \in Handlers \ {h} : JobOK(job[g])'
    BY <2>4, <2>5, <2>11, Others
  <2>13. RetiredIsDead'
    BY <2>1, <2>7, <2>8, <2>10 DEF IInv, RetiredIsDead
  <2>14. OneWearer' /\ WornIsMade'
    BY <1>4, <2>1, <2>9, NoneAssumption DEF IInv, Typed, OneWearer, WornIsMade, Wearers
  <2>15. /\ tag' \in [Tags -> {"none", "active", "retired"}]
         /\ made' \subseteq Wallets
         /\ band' \in [Wallets -> Tags \cup {None}]
         /\ ticket' \in [Wallets -> Tickets \cup {None}]
         /\ crossed' \subseteq Tags /\ doubled' \subseteq Wallets
    BY <1>2, <2>1, <2>7 DEF IInv, Typed
  <2> QED BY <2>4, <2>5, <2>6, <2>12, <2>13, <2>14, <2>15, WriteSteps
<1> QED BY <1>3, <1>4

LEMMA BindIInv ==
    ASSUME IInv, NEW h \in Handlers, bindBand(h)
    PROVE  IInv'
<1>1. PICK u, w : u = job[h].u /\ w = job[h].w
  OBVIOUS
<1>2. /\ job[h].at = "claim" /\ job[h] \in Job /\ JobOK(job[h])
      /\ u \in Tags /\ w \in made /\ w \in Wallets
  <2>1. job[h].at = "claim" /\ job[h] \in Job /\ JobOK(job[h]) /\ job[h].k \in Kinds
    BY Mine DEF bindBand, Job
  <2> QED BY <1>1, <2>1 DEF JobOK, Placed, Holds, Kinds, IInv, Typed
<1>3. CASE ~(band[w] = None /\ Wearers(u) = {})
  <2>1. BindFails(h) /\ UNCHANGED <<tag, made, band, ticket, crossed, doubled>>
    BY <1>1, <1>3 DEF bindBand
  <2> QED BY <2>1, BindFailsIInv
<1>4. CASE band[w] = None /\ Wearers(u) = {}
  <2>1. /\ band' = [band EXCEPT ![w] = u] /\ crossed' = Crosses(u)
        /\ UNCHANGED <<tag, made, ticket, doubled>>
    BY <1>1, <1>4 DEF bindBand
  <2>2. PICK j : j = [job[h] EXCEPT !.at = "audit"]
    OBVIOUS
  <2>3. "audit" \in Steps
    BY StepNames
  <2>4. j \in Job /\ j.at = "audit" /\ Same(j, job[h])
    BY <1>2, <2>2, <2>3, Moved DEF Same
  <2>5. job' = [job EXCEPT ![h] = j]
    BY <1>1, <1>4, <2>2 DEF bindBand, Goes
  <2>6. JobOK(j)'
    <3>1. j.k = job[h].k /\ j.u = u /\ j.w = w /\ j.t = job[h].t
      BY <1>1, <2>4 DEF Same
    <3>2. job[h].k \in {"bind", "reissue", "restore"}
      BY <1>2 DEF JobOK, Placed, Job, Kinds
    <3> QED BY <1>2, <2>1, <2>4, <3>1, <3>2
        DEF JobOK, Placed, Holds, AdmittedOK, RetireOK, AdoptOK
  <2>7. crossed \subseteq crossed' /\ crossed' \subseteq Tags
    BY <1>2, <2>1 DEF Crosses, IInv, Typed
  <2>8. \A v \in Tags : v # u => Wearers(v)' = Wearers(v) \ {w}
    BY <1>2, <2>1 DEF Wearers, IInv, Typed
  <2>10. tag[u] = "retired" => u \in crossed
    BY <1>1, <1>2 DEF JobOK, AdmittedOK
  <2>11. ASSUME NEW i \in Job, JobOK(i), NEW g \in Handlers \ {h}, i = job[g]
         PROVE  JobOK(i)'
    <3>1. Placed(i)' /\ Holds(i)'
      BY <2>1, <2>11 DEF JobOK, Placed, Holds
    <3>2. AdmittedOK(i)'
      BY <2>1, <2>7, <2>11 DEF JobOK, AdmittedOK
    <3>3. RetireOK(i)'
      <4>1. SUFFICES ASSUME i.k = "retire", i.u \notin crossed' PROVE RetireOK(i)'
        BY DEF RetireOK
      <4>2. i.at # "idle" /\ i.u \in Tags /\ RetireOK(i) /\ i.u \notin crossed
        BY <2>7, <2>11, <4>1 DEF JobOK, Placed, Holds
      <4>3. i.u # u
        BY <2>1, <2>11, <4>1, <4>2 DEF Crosses, Retiring
      <4>4. Wearers(i.u)' \subseteq Wearers(i.u)
        BY <2>8, <4>2, <4>3
      <4> QED BY <4>1, <4>2, <4>4 DEF RetireOK
    <3>4. AdoptOK(i)'
      BY <2>1, <2>11 DEF JobOK, AdoptOK
    <3> QED BY <3>1, <3>2, <3>3, <3>4 DEF JobOK
  <2>12. \A g \in Handlers \ {h} : JobOK(job[g])'
    BY <2>4, <2>5, <2>11, Others
  <2>13. RetiredIsDead'
    BY <2>1, <2>7, <2>8, <2>10 DEF IInv, RetiredIsDead
  <2>14. OneWearer' /\ WornIsMade'
    BY <1>2, <1>4, <2>1, NoneAssumption DEF IInv, Typed, OneWearer, WornIsMade, Wearers
  <2>15. /\ tag' \in [Tags -> {"none", "active", "retired"}]
         /\ made' \subseteq Wallets
         /\ band' \in [Wallets -> Tags \cup {None}]
         /\ ticket' \in [Wallets -> Tickets \cup {None}]
         /\ crossed' \subseteq Tags /\ doubled' \subseteq Wallets
    BY <1>2, <2>1, <2>7 DEF IInv, Typed
  <2> QED BY <2>4, <2>5, <2>6, <2>12, <2>13, <2>14, <2>15, WriteSteps
<1> QED BY <1>3, <1>4

\* A tag is taken off a wallet: the bands that are worn only grow fewer.
LEMMA TakenOff ==
    ASSUME IInv, NEW w \in Wallets,
           band' = band \/ band' = [band EXCEPT ![w] = None],
           UNCHANGED <<tag, made, ticket, crossed, doubled>>
    PROVE  /\ RetiredIsDead' /\ OneWearer' /\ WornIsMade'
           /\ band' \in [Wallets -> Tags \cup {None}]
           /\ \A i \in Job : JobOK(i) => JobOK(i)'
           /\ \A u \in Tags : Wearers(u)' \subseteq Wearers(u)
<1>1. \A u \in Tags : Wearers(u)' \subseteq Wearers(u)
  BY NoneAssumption DEF IInv, Typed, Wearers
<1>2. band' \in [Wallets -> Tags \cup {None}]
  BY DEF IInv, Typed
<1>3. RetiredIsDead'
  BY <1>1 DEF IInv, RetiredIsDead
<1>4. OneWearer' /\ WornIsMade'
  BY DEF IInv, Typed, OneWearer, WornIsMade
<1>5. ASSUME NEW i \in Job, JobOK(i) PROVE JobOK(i)'
  <2>1. Placed(i)' /\ Holds(i)' /\ AdmittedOK(i)' /\ AdoptOK(i)'
    BY <1>5 DEF JobOK, Placed, Holds, AdmittedOK, AdoptOK
  <2>2. i.k = "retire" => i.u \in Tags
    BY <1>5 DEF JobOK, Holds
  <2>3. RetireOK(i)'
    BY <1>1, <1>5, <2>2 DEF JobOK, RetireOK
  <2> QED BY <2>1, <2>3 DEF JobOK
<1> QED BY <1>1, <1>2, <1>3, <1>4, <1>5

LEMMA UndoIInv ==
    ASSUME IInv, NEW h \in Handlers, UndoClaim(h)
    PROVE  IInv'
<1>1. PICK w : w = job[h].w
  OBVIOUS
<1>2. job[h].at = "undo" /\ job[h] \in Job /\ JobOK(job[h]) /\ job[h].k \in Kinds
  BY Mine DEF UndoClaim, Job
<1>3. w \in Wallets
  BY <1>1, <1>2 DEF JobOK, Placed, Holds, Kinds, IInv, Typed
<1>4. /\ band' = band \/ band' = [band EXCEPT ![w] = None]
      /\ UNCHANGED <<tag, made, ticket, crossed, doubled>>
  BY <1>1 DEF UndoClaim, hist
<1>5. /\ RetiredIsDead' /\ OneWearer' /\ WornIsMade'
      /\ band' \in [Wallets -> Tags \cup {None}]
      /\ \A i \in Job : JobOK(i) => JobOK(i)'
  BY <1>3, <1>4, TakenOff
<1>6. PICK j \in Job : job' = [job EXCEPT ![h] = j] /\ JobOK(j)
  <2>1. CASE Ends(h)
    BY <2>1, IdleOK DEF Ends
  <2>2. CASE job[h].k = "reissue" /\ job[h].previous # None
    <3> DEFINE j == [job[h] EXCEPT !.k = "restore", !.at = "assert", !.u = job[h].previous]
    <3>1. job' = [job EXCEPT ![h] = j]
      BY <2>2 DEF UndoClaim, BindFails
    <3>2. j \in Job /\ j.k = "restore" /\ j.at = "assert" /\ j.u \in Tags /\ j.w = job[h].w
      BY <1>2, <2>2, Moved
    <3> HIDE DEF j
    <3>3. JobOK(j)
      BY <1>2, <2>2, <3>2 DEF JobOK, Placed, Holds, AdmittedOK, RetireOK, AdoptOK
    <3> QED BY <3>1, <3>2, <3>3
  <2> QED BY <2>1, <2>2 DEF UndoClaim, BindFails
<1>7. JobOK(j)' /\ \A g \in Handlers \ {h} : JobOK(job[g])'
  BY <1>5, <1>6, Others
<1>8. /\ tag' \in [Tags -> {"none", "active", "retired"}]
      /\ made' \subseteq Wallets
      /\ ticket' \in [Wallets -> Tickets \cup {None}]
      /\ crossed' \subseteq Tags /\ doubled' \subseteq Wallets
  BY <1>4 DEF IInv, Typed
<1> QED BY <1>5, <1>6, <1>7, <1>8, WriteSteps

LEMMA UnbindIInv ==
    ASSUME IInv, NEW h \in Handlers, unbindBand(h)
    PROVE  IInv'
<1>1. PICK w : w = job[h].w
  OBVIOUS
<1>2. job[h].at = "release" /\ job[h] \in Job /\ JobOK(job[h]) /\ job[h].k \in Kinds
  BY Mine DEF unbindBand, Job
<1>3. job[h].k \in {"unbind", "reissue", "retire"} /\ w \in made /\ w \in Wallets
  BY <1>1, <1>2 DEF JobOK, Placed, Holds, Kinds, IInv, Typed
<1>4. CASE band[w] = None
  <2>1. Ends(h) /\ UNCHANGED <<tag, made, band, ticket, crossed, doubled>>
    BY <1>1, <1>4 DEF unbindBand
  <2> QED BY <2>1, EndsIInv
<1>5. CASE band[w] # None
  <2>1. /\ band' = [band EXCEPT ![w] = None] /\ Goes(h, "stamp")
        /\ UNCHANGED <<tag, made, ticket, crossed, doubled>>
    BY <1>1, <1>5 DEF unbindBand
  <2>2. /\ RetiredIsDead' /\ OneWearer' /\ WornIsMade'
        /\ band' \in [Wallets -> Tags \cup {None}]
        /\ \A i \in Job : JobOK(i) => JobOK(i)'
        /\ \A u \in Tags : Wearers(u)' \subseteq Wearers(u)
    BY <1>3, <2>1, TakenOff
  <2>3. PICK j : j = [job[h] EXCEPT !.at = "stamp"]
    OBVIOUS
  <2>4. "stamp" \in Steps
    BY StepNames
  <2>5. j \in Job /\ j.at = "stamp" /\ Same(j, job[h])
    BY <1>2, <2>3, <2>4, Moved DEF Same
  <2>6. job' = [job EXCEPT ![h] = j]
    BY <2>1, <2>3 DEF Goes
  <2>7. RetireOK(j)'
    <3>1. SUFFICES ASSUME j.k = "retire", j.u \notin crossed PROVE Wearers(j.u)' = {}
      BY <2>1, <2>5 DEF RetireOK
    <3>2. Wearers(j.u) \subseteq {w} /\ j.u \in Tags
      BY <1>1, <1>2, <2>5, <3>1 DEF JobOK, RetireOK, Holds, Same
    <3>3. w \notin Wearers(j.u)'
      BY <1>3, <2>1, <3>2, NoneAssumption DEF Wearers, IInv, Typed
    <3> QED BY <2>2, <3>2, <3>3
  <2>8. Placed(j)' /\ Holds(j)' /\ AdmittedOK(j)' /\ AdoptOK(j)'
    BY <1>2, <1>3, <2>1, <2>5 DEF Same, JobOK, Placed, Holds, AdmittedOK, AdoptOK
  <2>9. JobOK(j)' /\ \A g \in Handlers \ {h} : JobOK(job[g])'
    <3>1. JobOK(j)'
      BY <2>7, <2>8 DEF JobOK
    <3> QED BY <2>2, <2>5, <2>6, <3>1, Others
  <2>10. /\ tag' \in [Tags -> {"none", "active", "retired"}]
         /\ made' \subseteq Wallets
         /\ ticket' \in [Wallets -> Tickets \cup {None}]
         /\ crossed' \subseteq Tags /\ doubled' \subseteq Wallets
    BY <2>1 DEF IInv, Typed
  <2> QED BY <2>2, <2>5, <2>6, <2>9, <2>10, WriteSteps
<1> QED BY <1>4, <1>5

LEMMA AdoptIInv ==
    ASSUME IInv, NEW h \in Handlers, Adopt(h)
    PROVE  IInv'
<1>1. PICK w, t : w = job[h].w /\ t = job[h].t
  OBVIOUS
<1>2. job[h].at = "adopt" /\ job[h] \in Job /\ JobOK(job[h]) /\ job[h].k \in Kinds
  BY Mine DEF Adopt, Job
<1>3. w \in made /\ w \in Wallets /\ t \in Tickets
  BY <1>1, <1>2 DEF JobOK, Placed, Holds, Kinds, IInv, Typed
<1>4. /\ ticket' = ticket \/ ticket' = [ticket EXCEPT ![w] = t]
      /\ doubled \subseteq doubled' /\ doubled' \subseteq doubled \cup {w}
      /\ job' = [job EXCEPT ![h] = Idle]
      /\ UNCHANGED <<tag, made, band, crossed>>
      /\ \A g \in Handlers \ {h} : job[g].at \in {"look", "adopt"} /\ job[g].w = w => w \in doubled'
  BY <1>1 DEF Adopt, Ends
<1>5. ASSUME NEW i \in Job, JobOK(i), NEW g \in Handlers \ {h}, i = job[g] PROVE JobOK(i)'
  <2>1. Placed(i)' /\ Holds(i)' /\ AdmittedOK(i)' /\ RetireOK(i)'
    BY <1>4, <1>5 DEF JobOK, Placed, Holds, AdmittedOK, RetireOK, Wearers
  <2>2. AdoptOK(i)'
    <3>1. SUFFICES ASSUME i.at \in {"look", "adopt"}
                   PROVE  ticket'[i.w] = None \/ i.w \in doubled'
      BY DEF AdoptOK
    <3>2. ticket[i.w] = None \/ i.w \in doubled
      BY <1>5, <3>1 DEF JobOK, AdoptOK
    <3>3. CASE i.w = w
      BY <1>4, <1>5, <3>1, <3>3
    <3>4. CASE i.w # w
      <4>1. i.w \in Wallets
        BY <1>5, <3>1 DEF JobOK, Placed, Holds, Job, Kinds, IInv, Typed
      <4>2. ticket'[i.w] = ticket[i.w]
        BY <1>4, <3>4, <4>1 DEF IInv, Typed
      <4> QED BY <1>4, <3>2, <4>2
    <3> QED BY <3>3, <3>4
  <2> QED BY <2>1, <2>2 DEF JobOK
<1>6. \A g \in Handlers \ {h} : JobOK(job[g])'
  BY <1>4, <1>5, IdleOK, Others
<1>7. RetiredIsDead' /\ OneWearer' /\ WornIsMade'
  BY <1>3, <1>4 DEF IInv, Typed, RetiredIsDead, Wearers, OneWearer, WornIsMade
<1>8. /\ tag' \in [Tags -> {"none", "active", "retired"}]
      /\ made' \subseteq Wallets
      /\ band' \in [Wallets -> Tags \cup {None}]
      /\ ticket' \in [Wallets -> Tickets \cup {None}]
      /\ crossed' \subseteq Tags /\ doubled' \subseteq Wallets
  BY <1>3, <1>4 DEF IInv, Typed
<1> QED BY <1>4, <1>6, <1>7, <1>8, IdleOK, WriteSteps

LEMMA EnsureIInv ==
    ASSUME IInv, NEW h \in Handlers, NEW w \in Wallets, ensureWalletForTicket(h, w)
    PROVE  IInv'
<1>1. PICK t : t = job[h].t
  OBVIOUS
<1>2. job[h].at = "ensure" /\ job[h] \in Job /\ JobOK(job[h]) /\ job[h].k \in Kinds
  BY Mine DEF ensureWalletForTicket, Job
<1>3. job[h].k = "bind" /\ t \in Tickets /\ job[h].u \in Tags
  BY <1>1, <1>2 DEF JobOK, Placed, Holds, Kinds
<1>4. /\ UNCHANGED <<tag, band, crossed, doubled>>
      /\ \/ w \in made /\ UNCHANGED <<made, ticket>>
         \/ /\ w \notin made /\ made' = made \cup {w}
            /\ ticket' = [ticket EXCEPT ![w] = t]
  <2>1. UNCHANGED <<tag, band, crossed, doubled>>
    BY DEF ensureWalletForTicket, hist
  <2>2. CASE WalletsOf(t) = {}
    BY <1>1, <2>1, <2>2 DEF ensureWalletForTicket
  <2>3. CASE WalletsOf(t) # {}
    <3>1. w \in WalletsOf(t) /\ UNCHANGED <<made, ticket>>
      BY <1>1, <2>3 DEF ensureWalletForTicket
    <3>2. w \in made
      BY <1>3, <3>1, NoneAssumption DEF WalletsOf, IInv, WornIsMade
    <3> QED BY <2>1, <3>1, <3>2
  <2> QED BY <2>2, <2>3
<1>5. PICK j : j = [job[h] EXCEPT !.at = "assert", !.w = w]
  OBVIOUS
<1>6. "assert" \in Steps
  BY StepNames
<1>7. /\ j \in Job /\ j.at = "assert" /\ j.w = w
      /\ j.k = job[h].k /\ j.u = job[h].u /\ j.t = job[h].t
  BY <1>2, <1>5, <1>6 DEF Job
<1>8. job' = [job EXCEPT ![h] = j]
  BY <1>5 DEF ensureWalletForTicket
<1>9. JobOK(j)'
  BY <1>1, <1>3, <1>4, <1>7 DEF JobOK, Placed, Holds, AdmittedOK, RetireOK, AdoptOK
<1>10. ASSUME NEW i \in Job, JobOK(i) PROVE JobOK(i)'
  <2>1. Placed(i)' /\ Holds(i)' /\ AdmittedOK(i)' /\ RetireOK(i)'
    BY <1>4, <1>10 DEF JobOK, Placed, Holds, AdmittedOK, RetireOK, Wearers
  <2>2. AdoptOK(i)'
    <3>1. SUFFICES ASSUME i.at \in {"look", "adopt"}
                   PROVE  ticket'[i.w] = None \/ i.w \in doubled'
      BY DEF AdoptOK
    <3>2. /\ ticket[i.w] = None \/ i.w \in doubled
          /\ i.w \in made /\ i.w \in Wallets
      BY <1>10, <3>1 DEF JobOK, AdoptOK, Placed, Holds, Job, Kinds, IInv, Typed
    <3>3. ticket'[i.w] = ticket[i.w]
      BY <1>4, <3>2 DEF IInv, Typed
    <3> QED BY <1>4, <3>2, <3>3
  <2> QED BY <2>1, <2>2 DEF JobOK
<1>11. \A g \in Handlers \ {h} : JobOK(job[g])'
  BY <1>7, <1>8, <1>10, Others
<1>12. RetiredIsDead' /\ OneWearer' /\ WornIsMade'
  BY <1>4 DEF IInv, Typed, RetiredIsDead, Wearers, OneWearer, WornIsMade
<1>13. /\ tag' \in [Tags -> {"none", "active", "retired"}]
       /\ made' \subseteq Wallets
       /\ band' \in [Wallets -> Tags \cup {None}]
       /\ ticket' \in [Wallets -> Tickets \cup {None}]
       /\ crossed' \subseteq Tags /\ doubled' \subseteq Wallets
  BY <1>3, <1>4 DEF IInv, Typed
<1> QED BY <1>7, <1>8, <1>9, <1>11, <1>12, <1>13, WriteSteps

LEMMA FlipIInv ==
    ASSUME IInv, NEW h \in Handlers, Flip(h)
    PROVE  IInv'
<1>1. PICK u : u = job[h].u
  OBVIOUS
<1>2. job[h].at = "flip" /\ job[h] \in Job /\ JobOK(job[h]) /\ job[h].k \in Kinds
  BY Mine DEF Flip, Job
<1>3. job[h].k = "retire" /\ u \in Tags /\ (u \notin crossed => Wearers(u) = {})
  BY <1>1, <1>2 DEF JobOK, Placed, Holds, RetireOK, Kinds
<1>4. /\ tag' = [tag EXCEPT ![u] = "retired"]
      /\ job' = [job EXCEPT ![h] = Idle]
      /\ crossed \subseteq crossed' /\ crossed' \subseteq crossed \cup {u}
      /\ (\E g \in Handlers : Admitted(g, u)) => u \in crossed'
      /\ UNCHANGED <<made, band, ticket, doubled>>
  BY <1>1 DEF Flip, Ends, wallets
<1>5. ASSUME NEW i \in Job, JobOK(i), NEW g \in Handlers \ {h}, i = job[g] PROVE JobOK(i)'
  <2>1. Placed(i)' /\ Holds(i)' /\ AdoptOK(i)'
    BY <1>4, <1>5 DEF JobOK, Placed, Holds, AdoptOK
  <2>2. RetireOK(i)'
    BY <1>4, <1>5 DEF JobOK, RetireOK, Wearers
  <2>3. AdmittedOK(i)'
    <3>1. SUFFICES ASSUME i.at \in {"claim", "mint"}, tag'[i.u] = "retired" PROVE i.u \in crossed'
      BY DEF AdmittedOK
    <3>2. i.u \in Tags
      BY <1>5, <3>1 DEF JobOK, Placed, Holds, Job, Kinds
    <3>3. CASE i.u = u
      BY <1>4, <1>5, <3>1, <3>3 DEF Admitted
    <3>4. CASE i.u # u
      BY <1>4, <1>5, <3>1, <3>2, <3>4 DEF IInv, Typed, JobOK, AdmittedOK
    <3> QED BY <3>3, <3>4
  <2> QED BY <2>1, <2>2, <2>3 DEF JobOK
<1>6. \A g \in Handlers \ {h} : JobOK(job[g])'
  BY <1>4, <1>5, IdleOK, Others
<1>7. RetiredIsDead'
  BY <1>3, <1>4 DEF IInv, Typed, RetiredIsDead, Wearers
<1>8. OneWearer' /\ WornIsMade'
  BY <1>4 DEF IInv, OneWearer, WornIsMade
<1>9. /\ tag' \in [Tags -> {"none", "active", "retired"}]
      /\ made' \subseteq Wallets
      /\ band' \in [Wallets -> Tags \cup {None}]
      /\ ticket' \in [Wallets -> Tickets \cup {None}]
      /\ crossed' \subseteq Tags /\ doubled' \subseteq Wallets
  BY <1>3, <1>4 DEF IInv, Typed
<1> QED BY <1>4, <1>6, <1>7, <1>8, <1>9, IdleOK, WriteSteps

-----------------------------------------------------------------------------
(* Every step, and the theorems.                                           *)

LEMMA NextIInv == IInv /\ [Next]_vars => IInv'
<1> SUFFICES ASSUME IInv, [Next]_vars PROVE IInv'
  OBVIOUS
<1>1. CASE UNCHANGED vars
  <2>1. UNCHANGED <<tag, made, band, ticket, job, crossed, doubled>>
    BY <1>1 DEF vars, wallets, hist
  <2>2. \A g \in Handlers : JobOK(job'[g])
    BY <2>1 DEF IInv
  <2>3. \A i : JobOK(i)' = JobOK(i)
    BY <2>1 DEF JobOK, Placed, Holds, AdmittedOK, RetireOK, AdoptOK, Wearers
  <2>4. \A g \in Handlers : JobOK(job[g])'
    BY <2>2, <2>3
  <2>5. Typed' /\ RetiredIsDead' /\ OneWearer' /\ WornIsMade'
    BY <2>1 DEF IInv, Typed, RetiredIsDead, Wearers, OneWearer, WornIsMade
  <2> QED BY <2>4, <2>5 DEF IInv
<1>2. CASE Next
  <2>1. PICK h \in Handlers : Request(h) \/ Step(h)
    BY <1>2 DEF Next
  <2> QED BY <2>1, RequestIInv, MoveIInv, EnrolIInv, MintIInv, BindIInv, UndoIInv, UnbindIInv,
             AdoptIInv, EnsureIInv, FlipIInv DEF Step
<1> QED BY <1>1, <1>2

\* The invariant holds throughout every behaviour.
THEOREM Invariance == Spec => []IInv
<1> QED BY InitIInv, NextIInv, PTL DEF Spec

\* A retired tag is on no wallet, whatever was cut short, restored or rolled
\* back, unless it was being bound while it was being retired.
THEOREM RetiredDead == Spec => []RetiredIsDead
<1>1. IInv => RetiredIsDead
  BY DEF IInv
<1> QED BY <1>1, Invariance, PTL

\* A ticket keeps its wallet, unless two requests were giving that wallet one.
THEOREM TicketKept == Spec => TicketKeepsWallet
<1> DEFINE Kept == \A w \in Wallets \ doubled' : ticket[w] # None => ticket'[w] = ticket[w]
<1>1. IInv /\ [Next]_vars => [Kept]_vars
  <2> SUFFICES ASSUME IInv, Next PROVE Kept
    BY DEF vars, wallets
  <2>1. PICK h \in Handlers : Request(h) \/ Step(h)
    BY DEF Next
  <2>2. CASE Adopt(h)
    <3>1. PICK w : w = job[h].w
      OBVIOUS
    <3>2. ticket' = ticket \/ (\E t : ticket' = [ticket EXCEPT ![w] = t])
      BY <2>2, <3>1 DEF Adopt
    <3>3. ticket[w] = None \/ w \in doubled
      BY <2>2, <3>1, Mine DEF Adopt, JobOK, AdoptOK
    <3>4. doubled \subseteq doubled'
      BY <2>2 DEF Adopt
    <3> QED BY <3>2, <3>3, <3>4 DEF IInv, Typed
  <2>3. CASE \E w \in Wallets : ensureWalletForTicket(h, w)
    <3>1. PICK w \in Wallets : ensureWalletForTicket(h, w)
      BY <2>3
    <3>2. ticket' = ticket \/ (w \notin made /\ \E t : ticket' = [ticket EXCEPT ![w] = t])
      BY <3>1 DEF ensureWalletForTicket
    <3>3. w \notin made => ticket[w] = None
      BY DEF IInv, WornIsMade
    <3> QED BY <3>2, <3>3 DEF IInv, Typed
  <2>4. CASE ~Adopt(h) /\ ~\E w \in Wallets : ensureWalletForTicket(h, w)
    <3>1. ticket' = ticket
      <4>1. CASE Request(h)
        BY <4>1
           DEF Request, registerTag, Issue, retireTag, bindBandToTicket, reissueBandForTicket,
                    reissueBand, Unbind, Begins, wallets
      <4>2. CASE Step(h)
        BY <2>4, <4>2 DEF Step, Enrol, ensureStandaloneWalletForBand, WriteRow, MintWallet,
            AskRegister, bindBand, Audit, AuditFails, UndoClaim, Look, Preflight, unbindBand,
            Stamp, FindWearer, Flip, Cut, wallets
      <4> QED BY <2>1, <4>1, <4>2
    <3> QED BY <3>1
  <2> QED BY <2>2, <2>3, <2>4
<1> HIDE DEF Kept
<1>2. Spec => [][Kept]_vars
  BY <1>1, Invariance, PTL DEF Spec
<1> QED BY <1>2 DEF Kept, TicketKeepsWallet
-----------------------------------------------------------------------------
(* The trail of bindings: a second invariant, relative to IInv.            *)

AllClosed(w) == \A i \in DOMAIN trail[w] : ~trail[w][i].open

\* The last row is open, and the only one.
LastIsOpen(w) ==
    /\ Len(trail[w]) > 0
    /\ \A i \in DOMAIN trail[w] : trail[w][i].open <=> i = Len(trail[w])

\* What the trail of w says when nobody is about to write it.
Tells(w) ==
    IF band[w] = None THEN AllClosed(w)
    ELSE LastIsOpen(w) /\ trail[w][Len(trail[w])].uid = band[w]

\* What it says of the band that a request at step at, with the tag u, has
\* put on w or taken off.
Behind(w, at, u) ==
    IF at = "stamp" THEN band[w] = None /\ LastIsOpen(w)
    ELSE band[w] = u /\ AllClosed(w)

Owing == {"row", "audit", "undo", "stamp"}
Plain == Wallets \ (tangled \cup cut)

TrailTyped ==
    /\ trail \in [Wallets -> Seq(Row)]
    /\ begun \in 0..MaxOps /\ faults \in 0..MaxFaults
    /\ tangled \subseteq Wallets /\ cut \subseteq Wallets

TrailInv ==
    /\ TrailTyped
    /\ \A h \in Handlers : job[h].at = "row" => job[h].w \in made
    /\ \A w \in Plain : \A g, h \in Handlers : Owes(g, w) /\ Owes(h, w) => g = h
    /\ \A w \in Plain : \A h \in Handlers : Owes(h, w) => Behind(w, job[h].at, job[h].u)
    /\ \A w \in Plain : (\A h \in Handlers : ~Owes(h, w)) => Tells(w)

\* The request of h becomes one that owes no row.
Leaves(h) == \E j \in Job : job' = [job EXCEPT ![h] = j] /\ j.at \notin Owing

\* It goes on with its wallet and its tag.
Keeps(h, at) == \E j \in Job : /\ job' = [job EXCEPT ![h] = j] /\ j.at = at
                               /\ j.w = job[h].w /\ j.u = job[h].u

LEMMA EndsLeaves == ASSUME NEW h \in Handlers, Ends(h) PROVE Leaves(h)
BY IdleOK DEF Ends, Leaves, Owing

LEMMA GoesKeeps ==
    ASSUME IInv, NEW h \in Handlers, NEW at \in Steps, Goes(h, at)
    PROVE  Keeps(h, at) /\ (at \notin Owing => Leaves(h))
<1> DEFINE j == [job[h] EXCEPT !.at = at]
<1>1. job' = [job EXCEPT ![h] = j]
  BY DEF Goes
<1>2. j \in Job /\ j.at = at /\ j.w = job[h].w /\ j.u = job[h].u
  BY Mine, Moved
<1> HIDE DEF j
<1> QED BY <1>1, <1>2 DEF Keeps, Leaves

LEMMA BindFailsLeaves ==
    ASSUME IInv, NEW h \in Handlers, BindFails(h)
    PROVE  Leaves(h)
<1>1. CASE Ends(h)
  BY <1>1, EndsLeaves
<1>2. CASE job[h].k = "reissue" /\ job[h].previous # None
  <2> DEFINE j == [job[h] EXCEPT !.k = "restore", !.at = "assert", !.u = job[h].previous]
  <2>1. job' = [job EXCEPT ![h] = j]
    BY <1>2 DEF BindFails
  <2>2. j \in Job /\ j.at = "assert"
    BY <1>2, Mine, Moved
  <2> HIDE DEF j
  <2> QED BY <2>1, <2>2 DEF Leaves, Owing
<1> QED BY <1>1, <1>2 DEF BindFails

\* A request that owes no row goes on to where it owes none, or one that owes
\* a row with its wallet among those cut short.
LEMMA QuietTrail ==
    ASSUME IInv, TrailInv, NEW h \in Handlers, Leaves(h),
           job[h].at \notin Owing \/ job[h].w \in cut' \cup {None},
           UNCHANGED <<band, trail>>, made \subseteq made',
           begun' \in 0..MaxOps, faults' \in 0..MaxFaults,
           tangled' = tangled, cut \subseteq cut', cut' \subseteq Wallets
    PROVE  TrailInv'
<1>1. PICK j \in Job : job' = [job EXCEPT ![h] = j] /\ j.at \notin Owing
  BY DEF Leaves
<1>2. job'[h] = j /\ \A g \in Handlers \ {h} : job'[g] = job[g]
  BY <1>1, OneJob DEF IInv
<1>3. \A g \in Handlers : \A w \in Plain' : Owes(g, w)' <=> Owes(g, w)
  BY <1>1, <1>2, NoneAssumption DEF Owes, Owing, Plain
<1>4. TrailTyped' /\ Plain' \subseteq Plain
  BY DEF TrailInv, TrailTyped, Plain
<1>5. \A g \in Handlers : job'[g].at = "row" => job'[g].w \in made'
  BY <1>1, <1>2 DEF TrailInv, Owing
<1>6. \A g \in Handlers : \A w \in Plain' : Owes(g, w)' => job'[g] = job[g]
  BY <1>1, <1>2 DEF Owes, Owing
<1>7. \A w \in Plain' : \A f, g \in Handlers : Owes(f, w)' /\ Owes(g, w)' => f = g
  BY <1>3, <1>4 DEF TrailInv
<1>8. ASSUME NEW w \in Plain', NEW g \in Handlers, Owes(g, w)'
      PROVE  Behind(w, job[g].at, job[g].u)'
  <2>1. Behind(w, job[g].at, job[g].u) /\ job'[g] = job[g]
    BY <1>3, <1>4, <1>6, <1>8 DEF TrailInv
  <2> QED BY <2>1 DEF Behind, AllClosed, LastIsOpen
<1>9. ASSUME NEW w \in Plain', \A g \in Handlers : ~Owes(g, w)' PROVE Tells(w)'
  <2>1. Tells(w)
    BY <1>3, <1>4, <1>9 DEF TrailInv
  <2> QED BY <2>1 DEF Tells, AllClosed, LastIsOpen
<1> QED BY <1>4, <1>5, <1>7, <1>8, <1>9 DEF TrailInv

\* A step of h about w alone, where no other request owes w a row.
TrailMove(h, w, j) ==
    /\ job' = [job EXCEPT ![h] = j]
    /\ job[h].at \in Owing => job[h].w = w
    /\ j.at \in Owing => j.w = w
    /\ j.at = "row" => w \in made'
    /\ \A v \in Wallets \ {w} : band'[v] = band[v] /\ trail'[v] = trail[v]
    /\ trail' \in [Wallets -> Seq(Row)]
    /\ made \subseteq made' /\ tangled \subseteq tangled' /\ tangled' \subseteq Wallets
    /\ UNCHANGED <<begun, cut>> /\ faults' \in 0..MaxFaults
    /\ w \in Plain' =>
         /\ \A g \in Handlers \ {h} : ~Owes(g, w)
         /\ j.at \in Owing => Behind(w, j.at, j.u)'
         /\ j.at \notin Owing => Tells(w)'

LEMMA WriteTrail ==
    ASSUME IInv, TrailInv, NEW h \in Handlers, NEW w \in Wallets, NEW j \in Job,
           TrailMove(h, w, j)
    PROVE  TrailInv'
<1> USE DEF TrailMove
<1>1. job'[h] = j /\ \A g \in Handlers \ {h} : job'[g] = job[g]
  BY OneJob DEF IInv
<1>2. TrailTyped' /\ Plain' \subseteq Plain
  BY DEF TrailInv, TrailTyped, Plain
<1>3. \A g \in Handlers \ {h} : \A v : Owes(g, v)' <=> Owes(g, v)
  BY <1>1 DEF Owes
<1>4. \A v \in Wallets \ {w} : ~Owes(h, v) /\ ~Owes(h, v)'
  BY <1>1 DEF Owes, Owing
<1>5. Owes(h, w)' <=> j.at \in Owing
  BY <1>1 DEF Owes, Owing
<1>6. \A g \in Handlers : job'[g].at = "row" => job'[g].w \in made'
  BY <1>1 DEF TrailInv, Owing
<1>7. \A v \in Plain' : \A f, g \in Handlers : Owes(f, v)' /\ Owes(g, v)' => f = g
  BY <1>2, <1>3, <1>4 DEF TrailInv, Plain
<1>8. ASSUME NEW v \in Plain', NEW g \in Handlers, Owes(g, v)'
      PROVE  Behind(v, job[g].at, job[g].u)'
  <2>1. CASE v = w
    <3>1. g = h
      BY <1>3, <1>8, <2>1
    <3> QED BY <1>1, <1>5, <1>8, <2>1, <3>1 DEF Behind, AllClosed, LastIsOpen
  <2>2. CASE v # w
    <3>1. g # h /\ v \in Wallets \ {w}
      BY <1>4, <1>8, <2>2 DEF Plain
    <3>2. Behind(v, job[g].at, job[g].u) /\ job'[g] = job[g]
      BY <1>1, <1>2, <1>3, <1>8, <3>1 DEF TrailInv
    <3> QED BY <3>1, <3>2 DEF Behind, AllClosed, LastIsOpen
  <2> QED BY <2>1, <2>2
<1>9. ASSUME NEW v \in Plain', \A g \in Handlers : ~Owes(g, v)' PROVE Tells(v)'
  <2>1. CASE v = w
    BY <1>5, <1>9, <2>1
  <2>2. CASE v # w
    <3>1. v \in Wallets \ {w} /\ \A g \in Handlers : ~Owes(g, v)
      BY <1>3, <1>4, <1>9, <2>2 DEF Plain
    <3>2. Tells(v)
      BY <1>2, <1>9, <3>1 DEF TrailInv
    <3> QED BY <3>1, <3>2 DEF Tells, AllClosed, LastIsOpen
  <2> QED BY <2>1, <2>2
<1> QED BY <1>2, <1>6, <1>7, <1>8, <1>9 DEF TrailInv
LEMMA LeavesBy ==
    ASSUME IInv, IInv', NEW h \in Handlers, NEW j, job' = [job EXCEPT ![h] = j], j.at \notin Owing
    PROVE  Leaves(h)
<1>1. job'[h] = j /\ j \in Job
  BY DEF IInv, Typed
<1> QED BY <1>1 DEF Leaves

\* Who owes a row knows a wallet that exists.
LEMMA OwerAt ==
    ASSUME IInv, TrailInv, NEW h \in Handlers, job[h].at \in Owing
    PROVE  \E w \in made : /\ w = job[h].w /\ w \in Wallets
                           /\ w \in Plain => /\ \A g \in Handlers \ {h} : ~Owes(g, w)
                                             /\ Behind(w, job[h].at, job[h].u)
<1>1. job[h] \in Job /\ JobOK(job[h]) /\ job[h].k \in Kinds
  BY Mine DEF Job
<1>2. job[h].w \in made
  BY <1>1 DEF TrailInv, JobOK, Placed, Holds, Kinds, Owing
<1>3. job[h].w \in Wallets
  BY <1>2 DEF IInv, Typed
<1>4. \A w : Owes(h, w) <=> w = job[h].w
  BY DEF Owes, Owing
<1> QED BY <1>2, <1>3, <1>4 DEF TrailInv

LEMMA RequestTrail ==
    ASSUME IInv, IInv', TrailInv, NEW h \in Handlers, Request(h)
    PROVE  TrailInv'
<1>1. \E j : Begins(h, j) /\ j.at \notin Owing
  <2>1. ASSUME NEW u \in Tags, NEW money \in BOOLEAN, registerTag(h, u, money)
        PROVE  \E j : Begins(h, j) /\ j.at \notin Owing
    <3>1. PICK at \in {"enrol", "revive", "seek"} :
            Begins(h, [Idle EXCEPT !.k = "register", !.at = at, !.u = u, !.money = money])
      BY <2>1 DEF registerTag
    <3> DEFINE j == [Idle EXCEPT !.k = "register", !.at = at, !.u = u, !.money = money]
    <3>2. j.at = at /\ at \notin Owing
      BY DEF Idle, Owing
    <3> QED BY <3>1, <3>2
  <2>2. ASSUME NEW u \in Tags, Issue(h, u) \/ retireTag(h, u)
        PROVE  \E j : Begins(h, j) /\ j.at \notin Owing
    <3>1. PICK k \in {"issue", "retire"}, at \in {"seek", "worn"} :
            Begins(h, [Idle EXCEPT !.k = k, !.at = at, !.u = u])
      BY <2>2 DEF Issue, retireTag
    <3> DEFINE j == [Idle EXCEPT !.k = k, !.at = at, !.u = u]
    <3>2. j.at = at /\ at \notin Owing
      BY DEF Idle, Owing
    <3> QED BY <3>1, <3>2
  <2>3. ASSUME NEW u \in Tags, NEW t \in Tickets, bindBandToTicket(h, t, u)
        PROVE  \E j : Begins(h, j) /\ j.at \notin Owing
    <3> DEFINE base == [Idle EXCEPT !.k = "bind", !.u = u, !.t = t]
               j == [base EXCEPT !.at = "ensure"]
               i(w) == [base EXCEPT !.at = "look", !.w = w]
    <3>1. Begins(h, j) \/ \E w : Begins(h, i(w))
      BY <2>3 DEF bindBandToTicket
    <3>2. j.at \notin Owing /\ \A w : i(w).at \notin Owing
      BY DEF Idle, Owing
    <3> QED BY <3>1, <3>2
  <2>4. ASSUME NEW u \in Tags, NEW w, reissueBand(h, w, u)
        PROVE  \E j : Begins(h, j) /\ j.at \notin Owing
    <3> DEFINE j == [Idle EXCEPT !.k = "reissue", !.at = "taken", !.w = w, !.u = u,
                                 !.previous = band[w]]
    <3>1. Begins(h, j)
      BY <2>4 DEF reissueBand
    <3>2. j.at \notin Owing
      BY DEF Idle, Owing
    <3> QED BY <3>1, <3>2
  <2>5. ASSUME NEW w \in Wallets, Unbind(h, w) PROVE \E j : Begins(h, j) /\ j.at \notin Owing
    <3> DEFINE j == [Idle EXCEPT !.k = "unbind", !.at = "release", !.w = w]
    <3>1. Begins(h, j)
      BY <2>5 DEF Unbind
    <3>2. j.at \notin Owing
      BY DEF Idle, Owing
    <3> QED BY <3>1, <3>2
  <2> QED BY <2>1, <2>2, <2>3, <2>4, <2>5 DEF Request, reissueBandForTicket
<1>2. PICK j : Begins(h, j) /\ j.at \notin Owing
  BY <1>1
<1>3. /\ job[h] = Idle /\ begun < MaxOps /\ begun' = begun + 1
      /\ job' = [job EXCEPT ![h] = j]
      /\ UNCHANGED <<band, trail, made, faults, tangled, cut>>
  BY <1>2 DEF Begins, wallets, hist
<1>4. Leaves(h) /\ job[h].at \notin Owing
  BY <1>2, <1>3, LeavesBy, IdleOK DEF Owing
<1>5. begun' \in 0..MaxOps /\ faults' \in 0..MaxFaults /\ cut' \subseteq Wallets
  BY <1>3, BoundsAssumption DEF TrailInv, TrailTyped
<1> QED BY <1>3, <1>4, <1>5, QuietTrail

\* Steps on the way, failures, and a death.
LEMMA MoveTrail ==
    ASSUME IInv, IInv', TrailInv, NEW h \in Handlers,
           \/ Enrol(h) \/ ensureStandaloneWalletForBand(h) \/ AskRegister(h) \/ Look(h)
           \/ Adopt(h) \/ Preflight(h) \/ FindWearer(h) \/ Flip(h)
           \/ \E w \in Wallets : ensureWalletForTicket(h, w)
    PROVE  TrailInv'
<1>1. /\ job[h].at \notin Owing /\ made \subseteq made'
      /\ UNCHANGED <<band, trail, begun, faults, tangled, cut>>
  BY DEF Enrol, ensureStandaloneWalletForBand, AskRegister, Look, Adopt, Preflight, FindWearer,
         Flip, ensureWalletForTicket, wallets, hist, Owing
<1>2. Leaves(h)
  <2>1. CASE Ends(h)
    BY <2>1, EndsLeaves
  <2>2. CASE \E at \in {"seek", "assert", "mint", "claim", "adopt", "release", "flip"} : Goes(h, at)
    <3>1. PICK at \in {"seek", "assert", "mint", "claim", "adopt", "release", "flip"} : Goes(h, at)
      BY <2>2
    <3>2. at \in Steps /\ at \notin Owing
      BY DEF Steps, Owing
    <3> QED BY <3>1, <3>2, GoesKeeps
  <2>3. CASE AskRegister(h)
    <3>1. BindFails(h) \/ Goes(h, "mint") \/ Goes(h, "claim")
      BY <2>3 DEF AskRegister
    <3> QED BY <2>2, <3>1, BindFailsLeaves
  <2>4. CASE FindWearer(h)
    <3>1. \/ Goes(h, "flip")
          \/ \E w : job' = [job EXCEPT ![h] = [job[h] EXCEPT !.at = "release", !.w = w]]
      BY <2>4 DEF FindWearer
    <3>2. ASSUME NEW w, job' = [job EXCEPT ![h] = [job[h] EXCEPT !.at = "release", !.w = w]]
          PROVE  Leaves(h)
      <4>1. job[h] \in Job
        BY Mine
      <4>2. [job[h] EXCEPT !.at = "release", !.w = w].at = "release"
        BY <4>1 DEF Job
      <4> QED BY <3>2, <4>2, LeavesBy DEF Owing
    <3> QED BY <2>2, <3>1, <3>2
  <2>5. ASSUME NEW w \in Wallets, ensureWalletForTicket(h, w) PROVE Leaves(h)
    <3>1. job' = [job EXCEPT ![h] = [job[h] EXCEPT !.at = "assert", !.w = w]]
      BY <2>5 DEF ensureWalletForTicket
    <3>2. [job[h] EXCEPT !.at = "assert", !.w = w].at = "assert"
      BY Mine DEF Job
    <3> QED BY <3>1, <3>2, LeavesBy DEF Owing
  <2> QED BY <2>1, <2>2, <2>3, <2>4, <2>5 DEF Enrol, ensureStandaloneWalletForBand, Look, Adopt,
                                             Preflight, Flip
<1>3. begun' \in 0..MaxOps /\ faults' \in 0..MaxFaults /\ cut' \subseteq Wallets
  BY <1>1 DEF TrailInv, TrailTyped
<1> QED BY <1>1, <1>2, <1>3, QuietTrail

LEMMA CutTrail ==
    ASSUME IInv, TrailInv, NEW h \in Handlers, Cut(h)
    PROVE  TrailInv'
<1>1. /\ UNCHANGED <<band, trail, made, begun, tangled>> /\ Ends(h)
      /\ faults < MaxFaults /\ faults' = faults + 1
      /\ cut' = cut \cup ({job[h].w} \ {None})
  BY DEF Cut, wallets, hist
<1>2. job[h].w \in Wallets \cup {None}
  BY Mine DEF Job
<1>3. begun' \in 0..MaxOps /\ faults' \in 0..MaxFaults /\ cut' \subseteq Wallets
  BY <1>1, <1>2, BoundsAssumption DEF TrailInv, TrailTyped
<1> QED BY <1>1, <1>3, EndsLeaves, QuietTrail

\* Nobody else owes the wallet a row, unless it is tangled.
LEMMA TanglesAll ==
    ASSUME TrailInv, NEW h \in Handlers, NEW w \in Wallets, tangled' = Tangles(h, w)
    PROVE  /\ tangled \subseteq tangled' /\ tangled' \subseteq Wallets
           /\ w \in Plain' => \A g \in Handlers \ {h} : ~Owes(g, w)
BY DEF Tangles, Plain, TrailInv, TrailTyped

LEMMA MintTrail ==
    ASSUME IInv, IInv', TrailInv, NEW h \in Handlers, NEW w \in Wallets, MintWallet(h, w)
    PROVE  TrailInv'
<1>1. /\ job[h].at = "mint" /\ job[h] \in Job
      /\ UNCHANGED <<trail, begun, faults, tangled, cut>>
  BY Mine DEF MintWallet
<1>2. "mint" \notin Owing /\ begun' \in 0..MaxOps /\ faults' \in 0..MaxFaults
      /\ tangled' \subseteq Wallets /\ cut' \subseteq Wallets /\ trail' \in [Wallets -> Seq(Row)]
  BY <1>1 DEF Owing, TrailInv, TrailTyped
<1>3. PICK u : u = job[h].u
  OBVIOUS
<1>4. CASE Wearers(u) # {}
  <2>1. Ends(h) /\ UNCHANGED <<made, band>>
    BY <1>3, <1>4 DEF MintWallet, wallets
  <2> QED BY <1>1, <1>2, <2>1, EndsLeaves, QuietTrail
<1>5. CASE Wearers(u) = {}
  <2>1. /\ w \notin made /\ made' = made \cup {w} /\ band' = [band EXCEPT ![w] = u]
        /\ job' = [job EXCEPT ![h] = [job[h] EXCEPT !.at = "row", !.w = w]]
    BY <1>3, <1>5 DEF MintWallet
  <2>2. PICK j : j = [job[h] EXCEPT !.at = "row", !.w = w]
    OBVIOUS
  <2>3. /\ j.at = "row" /\ j.w = w /\ j.u = u /\ "row" \in Owing /\ j \in Job
        /\ job' = [job EXCEPT ![h] = j]
    <3>1. job'[h] = j /\ j \in Job
      BY <2>1, <2>2 DEF IInv, Typed
    <3> QED BY <1>1, <1>3, <2>1, <2>2, <3>1 DEF Job, Owing
  <2>4. \A g \in Handlers : ~Owes(g, w)
    BY <2>1, OwerAt DEF Owes, Owing
  <2>5. band[w] = None /\ band'[w] = u /\ \A v \in Wallets \ {w} : band'[v] = band[v]
    BY <2>1 DEF IInv, Typed, WornIsMade
  <2>6. w \in Plain' => Behind(w, j.at, j.u)'
    <3>1. w \in Plain' => AllClosed(w)
      BY <1>1, <2>4, <2>5 DEF TrailInv, Tells, Plain
    <3> QED BY <1>1, <2>3, <2>5, <3>1 DEF Behind, AllClosed
  <2>20. TrailMove(h, w, j)
    BY <1>1, <1>2, <2>1, <2>3, <2>4, <2>5, <2>6 DEF TrailMove
  <2> QED BY <2>3, <2>20, WriteTrail
<1> QED BY <1>4, <1>5

LEMMA BindTrail ==
    ASSUME IInv, IInv', TrailInv, NEW h \in Handlers, bindBand(h)
    PROVE  TrailInv'
<1>1. PICK u, w : u = job[h].u /\ w = job[h].w
  OBVIOUS
<1>2. /\ job[h].at = "claim" /\ w \in Wallets
      /\ UNCHANGED <<made, trail, begun, faults, cut>>
  <2>1. job[h].at = "claim" /\ job[h] \in Job /\ JobOK(job[h]) /\ job[h].k \in Kinds
    BY Mine DEF bindBand, Job
  <2> QED BY <1>1, <2>1 DEF bindBand, JobOK, Placed, Holds, Kinds, IInv, Typed
<1>3. "claim" \notin Owing /\ begun' \in 0..MaxOps /\ faults' \in 0..MaxFaults
      /\ cut' \subseteq Wallets /\ trail' \in [Wallets -> Seq(Row)]
  BY <1>2 DEF Owing, TrailInv, TrailTyped
<1>4. CASE ~(band[w] = None /\ Wearers(u) = {})
  <2>1. BindFails(h) /\ UNCHANGED <<band, tangled>>
    BY <1>1, <1>4 DEF bindBand
  <2> QED BY <1>2, <1>3, <2>1, BindFailsLeaves, QuietTrail
<1>5. CASE band[w] = None /\ Wearers(u) = {}
  <2>1. band' = [band EXCEPT ![w] = u] /\ tangled' = Tangles(h, w) /\ Goes(h, "audit")
    BY <1>1, <1>5 DEF bindBand
  <2>2. PICK j \in Job : /\ job' = [job EXCEPT ![h] = j] /\ j.at = "audit"
                         /\ j.w = w /\ j.u = u
    BY <1>1, <2>1, GoesKeeps, StepNames DEF Keeps
  <2>3. /\ tangled \subseteq tangled' /\ tangled' \subseteq Wallets
        /\ w \in Plain' => \A g \in Handlers \ {h} : ~Owes(g, w)
    BY <1>2, <2>1, TanglesAll
  <2>4. ~Owes(h, w) /\ band'[w] = u /\ \A v \in Wallets \ {w} : band'[v] = band[v]
    BY <1>2, <2>1 DEF Owes, IInv, Typed
  <2>5. w \in Plain' => Behind(w, j.at, j.u)'
    <3>1. w \in Plain' => AllClosed(w)
      BY <1>2, <1>5, <2>3, <2>4 DEF TrailInv, Tells, Plain
    <3> QED BY <1>2, <2>2, <2>4, <3>1 DEF Behind, AllClosed
  <2>6. "audit" \in Owing /\ "audit" # "row"
    BY DEF Owing
  <2>20. TrailMove(h, w, j)
    BY <1>2, <1>3, <2>2, <2>3, <2>4, <2>5, <2>6 DEF TrailMove
  <2> QED BY <1>2, <2>20, WriteTrail
<1> QED BY <1>4, <1>5

LEMMA UnbindTrail ==
    ASSUME IInv, IInv', TrailInv, NEW h \in Handlers, unbindBand(h)
    PROVE  TrailInv'
<1>1. PICK w : w = job[h].w
  OBVIOUS
<1>2. /\ job[h].at = "release" /\ w \in Wallets
      /\ UNCHANGED <<made, trail, begun, faults, cut>>
  <2>1. job[h].at = "release" /\ job[h] \in Job /\ JobOK(job[h]) /\ job[h].k \in Kinds
    BY Mine DEF unbindBand, Job
  <2> QED BY <1>1, <2>1 DEF unbindBand, JobOK, Placed, Holds, Kinds, IInv, Typed
<1>3. "release" \notin Owing /\ begun' \in 0..MaxOps /\ faults' \in 0..MaxFaults
      /\ cut' \subseteq Wallets /\ trail' \in [Wallets -> Seq(Row)]
  BY <1>2 DEF Owing, TrailInv, TrailTyped
<1>4. CASE band[w] = None
  <2>1. Ends(h) /\ UNCHANGED <<band, tangled>>
    BY <1>1, <1>4 DEF unbindBand
  <2> QED BY <1>2, <1>3, <2>1, EndsLeaves, QuietTrail
<1>5. CASE band[w] # None
  <2>1. band' = [band EXCEPT ![w] = None] /\ tangled' = Tangles(h, w) /\ Goes(h, "stamp")
    BY <1>1, <1>5 DEF unbindBand
  <2>2. PICK j \in Job : job' = [job EXCEPT ![h] = j] /\ j.at = "stamp" /\ j.w = w
    BY <1>1, <2>1, GoesKeeps, StepNames DEF Keeps
  <2>3. /\ tangled \subseteq tangled' /\ tangled' \subseteq Wallets
        /\ w \in Plain' => \A g \in Handlers \ {h} : ~Owes(g, w)
    BY <1>2, <2>1, TanglesAll
  <2>4. ~Owes(h, w) /\ band'[w] = None /\ \A v \in Wallets \ {w} : band'[v] = band[v]
    BY <1>2, <2>1 DEF Owes, IInv, Typed
  <2>5. w \in Plain' => Behind(w, j.at, j.u)'
    <3>1. w \in Plain' => LastIsOpen(w)
      BY <1>2, <1>5, <2>3, <2>4 DEF TrailInv, Tells, Plain
    <3> QED BY <1>2, <2>2, <2>4, <3>1 DEF Behind, LastIsOpen
  <2>6. "stamp" \in Owing /\ "stamp" # "row"
    BY DEF Owing
  <2>20. TrailMove(h, w, j)
    BY <1>2, <1>3, <2>2, <2>3, <2>4, <2>5, <2>6 DEF TrailMove
  <2> QED BY <1>2, <2>20, WriteTrail
<1> QED BY <1>4, <1>5

LEMMA AuditFailsTrail ==
    ASSUME IInv, TrailInv, NEW h \in Handlers, AuditFails(h)
    PROVE  TrailInv'
<1>1. /\ job[h].at = "audit" /\ Goes(h, "undo")
      /\ faults < MaxFaults /\ faults' = faults + 1
      /\ UNCHANGED <<made, band, trail, begun, tangled, cut>>
  BY DEF AuditFails, wallets, hist
<1>2. {"audit", "undo"} \subseteq Owing /\ "undo" \in Steps
  BY DEF Owing, Steps
<1>3. PICK w \in made : /\ w = job[h].w /\ w \in Wallets
                        /\ w \in Plain => /\ \A g \in Handlers \ {h} : ~Owes(g, w)
                                          /\ Behind(w, "audit", job[h].u)
  BY <1>1, <1>2, OwerAt
<1>4. PICK j \in Job : /\ job' = [job EXCEPT ![h] = j] /\ j.at = "undo"
                       /\ j.w = w /\ j.u = job[h].u
  BY <1>1, <1>2, <1>3, GoesKeeps DEF Keeps
<1>5. w \in Plain' => w \in Plain /\ Behind(w, j.at, j.u)'
  <2>1. w \in Plain' => w \in Plain
    BY <1>1 DEF Plain
  <2>2. Behind(w, "audit", job[h].u) => Behind(w, j.at, j.u)'
    BY <1>1, <1>4 DEF Behind, AllClosed
  <2> QED BY <1>3, <2>1, <2>2
<1>6. /\ faults' \in 0..MaxFaults /\ tangled' \subseteq Wallets
      /\ trail' \in [Wallets -> Seq(Row)]
  BY <1>1, BoundsAssumption DEF TrailInv, TrailTyped
<1>20. TrailMove(h, w, j)
  BY <1>1, <1>2, <1>3, <1>4, <1>5, <1>6 DEF TrailMove
<1> QED BY <1>3, <1>20, WriteTrail

LEMMA AppendTrail ==
    ASSUME IInv, TrailInv, NEW h \in Handlers, WriteRow(h) \/ Audit(h)
    PROVE  TrailInv'
<1>1. /\ job[h].at \in {"row", "audit"} /\ Ends(h) /\ AppendRow(job[h].w, job[h].u)
      /\ UNCHANGED <<made, band, begun, faults, tangled, cut>>
  BY DEF WriteRow, Audit, wallets, hist
<1>2. {"row", "audit"} \subseteq Owing /\ "stamp" \notin {"row", "audit"}
  BY DEF Owing
<1>3. PICK w \in made : /\ w = job[h].w /\ w \in Wallets
                        /\ w \in Plain => /\ \A g \in Handlers \ {h} : ~Owes(g, w)
                                          /\ Behind(w, job[h].at, job[h].u)
  BY <1>1, <1>2, OwerAt
<1>4. PICK u : u = job[h].u
  OBVIOUS
<1>5. u \in Tags
  <2>1. job[h] \in Job /\ JobOK(job[h]) /\ job[h].k \in Kinds
    BY Mine DEF Job
  <2> QED BY <1>1, <1>4, <2>1 DEF JobOK, Placed, Holds, Kinds
<1> DEFINE r == [uid |-> u, open |-> TRUE]
<1>6. r \in Row /\ r.uid = u /\ r.open
  BY <1>5 DEF Row
<1>7. trail' = [trail EXCEPT ![w] = Append(trail[w], r)]
  BY <1>1, <1>3, <1>4 DEF AppendRow
<1> HIDE DEF r
<1>8. /\ trail' \in [Wallets -> Seq(Row)] /\ trail'[w] = Append(trail[w], r)
      /\ \A v \in Wallets \ {w} : trail'[v] = trail[v]
  BY <1>3, <1>6, <1>7 DEF TrailInv, TrailTyped
<1>9. PICK s, t : s \in Seq(Row) /\ s = trail[w] /\ t = trail'[w] /\ t = Append(s, r)
  BY <1>3, <1>8 DEF TrailInv, TrailTyped
<1>10. /\ Len(t) = Len(s) + 1 /\ Len(s) \in Nat
       /\ DOMAIN t = 1..(Len(s) + 1) /\ DOMAIN s = 1..Len(s)
       /\ t[Len(s) + 1] = r /\ \A i \in 1..Len(s) : t[i] = s[i]
  BY <1>6, <1>9
<1>11. w \in Plain' => Tells(w)'
  <2>1. SUFFICES ASSUME w \in Plain' PROVE Tells(w)'
    OBVIOUS
  <2>2. w \in Plain
    BY <1>1, <2>1 DEF Plain
  <2>3. band[w] = u /\ \A i \in 1..Len(s) : ~s[i].open
    BY <1>1, <1>2, <1>3, <1>4, <1>9, <1>10, <2>2 DEF Behind, AllClosed
  <2>4. Len(t) > 0 /\ t[Len(t)].uid = u
        /\ \A i \in DOMAIN t : t[i].open <=> i = Len(t)
    BY <1>6, <1>10, <2>3
  <2>5. band'[w] = u /\ u # None
    BY <1>1, <1>5, <2>3, NoneAssumption
  <2> QED BY <1>9, <2>4, <2>5 DEF Tells, LastIsOpen
<1>12. /\ faults' \in 0..MaxFaults /\ tangled' \subseteq Wallets
       /\ w \in Plain' => w \in Plain
  BY <1>1 DEF TrailInv, TrailTyped, Plain
<1>13. Idle \in Job /\ Idle.at \notin Owing /\ Idle.at # "row" /\ job' = [job EXCEPT ![h] = Idle]
  BY <1>1, IdleOK DEF Owing, Ends
<1>20. TrailMove(h, w, Idle)
  BY <1>1, <1>3, <1>8, <1>11, <1>12, <1>13 DEF TrailMove
<1> QED BY <1>3, <1>13, <1>20, WriteTrail

LEMMA StampTrail ==
    ASSUME IInv, TrailInv, NEW h \in Handlers, Stamp(h)
    PROVE  TrailInv'
<1>1. /\ job[h].at = "stamp" /\ AfterStamp(h)
      /\ UNCHANGED <<made, band, begun, faults, tangled, cut>>
  BY DEF Stamp, wallets, hist
<1>2. "stamp" \in Owing
  BY DEF Owing
<1>3. PICK w \in made : /\ w = job[h].w /\ w \in Wallets
                        /\ w \in Plain => /\ \A g \in Handlers \ {h} : ~Owes(g, w)
                                          /\ Behind(w, "stamp", job[h].u)
  BY <1>1, <1>2, OwerAt
<1>4. Leaves(h)
  <2>1. Ends(h) \/ Goes(h, "assert") \/ Goes(h, "flip")
    BY <1>1 DEF AfterStamp
  <2>2. {"assert", "flip"} \subseteq Steps /\ {"assert", "flip"} \cap Owing = {}
    BY DEF Steps, Owing
  <2> QED BY <2>1, <2>2, EndsLeaves, GoesKeeps
<1>5. PICK j \in Job : job' = [job EXCEPT ![h] = j] /\ j.at \notin Owing
  BY <1>4 DEF Leaves
<1>6. PICK s \in Seq(Row) : s = trail[w]
  BY <1>3 DEF TrailInv, TrailTyped
<1>7. PICK t : t = [i \in DOMAIN s |-> IF i \in LastOpen(w) THEN [s[i] EXCEPT !.open = FALSE]
                                                            ELSE s[i]]
  OBVIOUS
<1>8. t \in Seq(Row)
  <2>1. DOMAIN s = 1..Len(s) /\ Len(s) \in Nat
    BY <1>6
  <2>2. \A i \in 1..Len(s) : s[i] \in Row
    BY <1>6
  <2>3. \A i \in 1..Len(s) : [s[i] EXCEPT !.open = FALSE] \in Row
    BY <2>2 DEF Row
  <2>4. t \in [1..Len(s) -> Row]
    BY <1>7, <2>1, <2>2, <2>3
  <2> QED BY <2>1, <2>4
<1>9. trail' = [trail EXCEPT ![w] = t]
  BY <1>3, <1>6, <1>7 DEF Stamp
<1>10. /\ trail' \in [Wallets -> Seq(Row)] /\ trail'[w] = t
       /\ \A v \in Wallets \ {w} : trail'[v] = trail[v]
  BY <1>3, <1>8, <1>9 DEF TrailInv, TrailTyped
<1>11. w \in Plain' => Tells(w)'
  <2>1. SUFFICES ASSUME w \in Plain' PROVE Tells(w)'
    OBVIOUS
  <2>2. w \in Plain
    BY <1>1, <2>1 DEF Plain
  <2>3. band[w] = None /\ LastIsOpen(w)
    BY <1>3, <2>2 DEF Behind
  <2>4. Len(s) > 0 /\ \A i \in DOMAIN s : s[i].open <=> i = Len(s)
    BY <1>6, <2>3 DEF LastIsOpen
  <2>5. Len(s) \in LastOpen(w)
    BY <1>6, <2>4 DEF LastOpen
  <2>6. ASSUME NEW i \in DOMAIN t PROVE ~t[i].open
    <3>1. i \in DOMAIN s /\ s[i] \in Row
      BY <1>6, <1>7
    <3>2. CASE i = Len(s)
      <4>1. t[i] = [s[i] EXCEPT !.open = FALSE]
        BY <1>7, <2>5, <3>1, <3>2
      <4> QED BY <3>1, <4>1 DEF Row
    <3>3. CASE i # Len(s)
      <4>1. i \notin LastOpen(w)
        BY <1>6, <2>4, <3>1, <3>3 DEF LastOpen
      <4> QED BY <1>7, <2>4, <3>1, <3>3, <4>1
    <3> QED BY <3>2, <3>3
  <2>7. band'[w] = None /\ AllClosed(w)'
    BY <1>1, <1>10, <2>3, <2>6 DEF AllClosed
  <2> QED BY <2>7 DEF Tells
<1>12. /\ faults' \in 0..MaxFaults /\ tangled' \subseteq Wallets
       /\ w \in Plain' => w \in Plain
  BY <1>1 DEF TrailInv, TrailTyped, Plain
<1>13. j.at # "row"
  BY <1>5 DEF Owing
<1>20. TrailMove(h, w, j)
  BY <1>1, <1>3, <1>5, <1>10, <1>11, <1>12, <1>13 DEF TrailMove
<1> QED BY <1>3, <1>20, WriteTrail

LEMMA UndoTrail ==
    ASSUME IInv, TrailInv, NEW h \in Handlers, UndoClaim(h)
    PROVE  TrailInv'
<1>1. /\ job[h].at = "undo" /\ BindFails(h)
      /\ UNCHANGED <<made, trail, begun, faults, tangled, cut>>
  BY DEF UndoClaim, hist
<1>2. "undo" \in Owing /\ "undo" # "stamp"
  BY DEF Owing
<1>3. PICK w \in made : /\ w = job[h].w /\ w \in Wallets
                        /\ w \in Plain => /\ \A g \in Handlers \ {h} : ~Owes(g, w)
                                          /\ Behind(w, "undo", job[h].u)
  BY <1>1, <1>2, OwerAt
<1>4. PICK j \in Job : job' = [job EXCEPT ![h] = j] /\ j.at \notin Owing
  BY <1>1, BindFailsLeaves DEF Leaves
<1>5. /\ band[w] = job[h].u => band'[w] = None
      /\ \A v \in Wallets \ {w} : band'[v] = band[v]
  BY <1>3 DEF UndoClaim, IInv, Typed
<1>6. w \in Plain' => w \in Plain /\ Tells(w)'
  <2>1. w \in Plain' => w \in Plain
    BY <1>1 DEF Plain
  <2>2. Behind(w, "undo", job[h].u) => band'[w] = None /\ AllClosed(w)'
    BY <1>1, <1>2, <1>5 DEF Behind, AllClosed
  <2> QED BY <1>3, <2>1, <2>2 DEF Tells
<1>7. /\ faults' \in 0..MaxFaults /\ tangled' \subseteq Wallets
      /\ trail' \in [Wallets -> Seq(Row)]
  BY <1>1 DEF TrailInv, TrailTyped
<1>8. j.at # "row"
  BY <1>4 DEF Owing
<1>20. TrailMove(h, w, j)
  BY <1>1, <1>3, <1>4, <1>5, <1>6, <1>7, <1>8 DEF TrailMove
<1> QED BY <1>3, <1>20, WriteTrail

LEMMA InitTrail == Init => TrailInv
<1> SUFFICES ASSUME Init PROVE TrailInv
  OBVIOUS
<1>1. \A h \in Handlers : job[h] = Idle
  BY DEF Init
<1>2. \A h \in Handlers : job[h].at \notin Owing /\ job[h].at # "row"
  BY <1>1, IdleOK DEF Owing
<1>3. \A h \in Handlers : \A w : ~Owes(h, w)
  BY <1>2 DEF Owes, Owing
<1>4. \A w \in Wallets : band[w] = None /\ trail[w] = <<>>
  BY DEF Init
<1>5. \A w \in Wallets : Tells(w)
  BY <1>4 DEF Tells, AllClosed
<1>6. TrailTyped
  BY BoundsAssumption DEF Init, TrailTyped
<1> QED BY <1>2, <1>3, <1>5, <1>6 DEF TrailInv, Plain

LEMMA NextTrail == IInv /\ TrailInv /\ [Next]_vars => TrailInv'
<1> SUFFICES ASSUME IInv, TrailInv, [Next]_vars PROVE TrailInv'
  OBVIOUS
<1>1. IInv'
  BY NextIInv
<1>2. CASE UNCHANGED vars
  BY <1>2 DEF vars, wallets, hist, TrailInv, TrailTyped, Plain, Owes, Behind, Tells, AllClosed,
              LastIsOpen
<1>3. CASE Next
  <2>1. PICK h \in Handlers : Request(h) \/ Step(h)
    BY <1>3 DEF Next
  <2> QED BY <1>1, <2>1, RequestTrail, MoveTrail, CutTrail, MintTrail, BindTrail, UnbindTrail,
             AuditFailsTrail, AppendTrail, StampTrail, UndoTrail DEF Step
<1> QED BY <1>2, <1>3

(* Both invariants hold throughout every behaviour: whoever has changed    *)
(* the band of a wallet and not yet its trail is alone in it, and finds    *)
(* the trail as that change needs it.                                      *)
THEOREM TrailInvariance == Spec => [](IInv /\ TrailInv)
<1>1. Init => IInv /\ TrailInv
  BY InitIInv, InitTrail
<1>2. IInv /\ TrailInv /\ [Next]_vars => (IInv /\ TrailInv)'
  BY NextIInv, NextTrail
<1> QED BY <1>1, <1>2, PTL DEF Spec

(* Register, wallets, trails and requests keep their types.                *)
THEOREM TypeCorrect == Spec => []TypeOK
<1>1. IInv /\ TrailInv => TypeOK
  BY DEF IInv, Typed, TrailInv, TrailTyped, TypeOK
<1> QED BY <1>1, TrailInvariance, PTL

(* Once nobody is about to write it, the trail tells what a wallet wears:  *)
(* its last row is the open one and names the tag, through reissues,       *)
(* restores and rollbacks, unless a request was cut short or the wallet    *)
(* was bound again before the trail had caught up.                         *)
THEOREM TrailTold == Spec => []TrailTellsTheBand
<1>1. IInv /\ TrailInv => TrailTellsTheBand
  <2> SUFFICES ASSUME IInv, TrailInv, NEW w \in Plain, \A h \in Handlers : ~Owes(h, w),
                      NEW i \in DOMAIN trail[w] \cup {0}
               PROVE  IF band[w] # None /\ i = Len(trail[w])
                      THEN i > 0 /\ trail[w][i] = [uid |-> band[w], open |-> TRUE]
                      ELSE i > 0 => ~trail[w][i].open
    BY DEF TrailTellsTheBand, Plain
  <2>1. Tells(w) /\ trail[w] \in Seq(Row)
    BY DEF TrailInv, TrailTyped, Plain
  <2>2. PICK s \in Seq(Row) : s = trail[w]
    BY <2>1
  <2>3. \A r \in Row : r = [uid |-> r.uid, open |-> r.open] /\ r.open \in BOOLEAN
    BY DEF Row
  <2>4. /\ DOMAIN s = 1..Len(s) /\ Len(s) \in Nat /\ \A k \in DOMAIN s : s[k] \in Row
    BY <2>2
  <2>5. CASE band[w] = None
    BY <2>1, <2>2, <2>4, <2>5 DEF Tells, AllClosed
  <2>6. CASE band[w] # None
    <3>1. /\ Len(s) > 0 /\ s[Len(s)].uid = band[w]
          /\ \A k \in DOMAIN s : s[k].open <=> k = Len(s)
      BY <2>1, <2>2, <2>6 DEF Tells, LastIsOpen
    <3>2. Len(s) \in DOMAIN s
      BY <2>4, <3>1
    <3>3. s[Len(s)] = [uid |-> band[w], open |-> TRUE]
      BY <2>3, <2>4, <3>1, <3>2
    <3>4. i # Len(s) /\ i > 0 => ~s[i].open
      BY <2>2, <2>4, <3>1
    <3> QED BY <2>2, <2>6, <3>1, <3>3, <3>4
  <2> QED BY <2>5, <2>6
<1> QED BY <1>1, TrailInvariance, PTL

-----------------------------------------------------------------------------
(* The gate.  The inductive invariant.                                     *)

\* What a request looks like where it stands.
Shape(j) ==
    /\ j \in GateRequest
    /\ j.at # "idle" => j.t \in Tickets /\ j.k \in {"checkin", "refund"}
    /\ j.at = "refuse" => j.k = "checkin" /\ j.said # "success"
    /\ j.at = "row" => j.k = "checkin"
    /\ j.at \in {"sale", "event"} => j.k = "refund"
    /\ j.k = "checkin" /\ j.at # "refuse" => j.said = "success"

\* The transaction has written its ticket, or the sale, and nobody else may.
HasTicket(j) == j.at \in {"row", "sale", "event", "commit"}
HasSale(j)   == j.at = "event" \/ (j.at = "commit" /\ j.k = "refund")

Excludes(i, j) ==
    /\ HasTicket(i) /\ HasTicket(j) => i.t # j.t
    /\ HasSale(i) /\ HasSale(j) => SaleOf[i.t] # SaleOf[j.t]

Apart == \A g, h \in Handlers : g # h => Excludes(request[g], request[h])

\* What the transaction has read of a document is what is stored: it has written
\* the document since, or nobody else has.
SeesTicket(j, old) == HasTicket(j) \/ (j.at = "ticket" /\ TicketDoc(j.t) \notin old)
SeesSale(j, old) ==
    \/ HasSale(j)
    \/ j.k = "refund" /\ j.at \in {"ticket", "sale"} /\ SaleDoc(SaleOf[j.t]) \notin old

Current(j, old) ==
    /\ SeesTicket(j, old) => status[j.t] = "sold"
    /\ SeesSale(j, old) => refunded[SaleOf[j.t]] = j.quantity
    /\ j.at = "refuse" /\ j.said = "already_scanned" => status[j.t] = "checked_in"
    /\ j.at = "refuse" /\ j.said = "cancelled" => status[j.t] = "refunded"

Requests ==
    /\ request \in [Handlers -> GateRequest]
    /\ \A h \in Handlers : Shape(request[h]) /\ Current(request[h], stale[h])
    /\ Apart

GateInv == GateTypeOK /\ Requests /\ AdmittedOnce /\ GateBooksAddUp

-----------------------------------------------------------------------------
(* Documents.                                                              *)

LEMMA DocsDiffer ==
    /\ \A t, u : TicketDoc(t) = TicketDoc(u) => t = u
    /\ \A r, s : SaleDoc(r) = SaleDoc(s) => r = s
    /\ \A t, s : TicketDoc(t) # SaleDoc(s)
    /\ \A t : TicketDoc(t) # EventDoc
    /\ \A s : SaleDoc(s) # EventDoc
BY DEF TicketDoc, SaleDoc, EventDoc

LEMMA WrittenDocs ==
    ASSUME NEW j, Shape(j)
    PROVE  /\ \A t : TicketDoc(t) \in Written(j) <=> HasTicket(j) /\ j.t = t
           /\ \A s : SaleDoc(s) \in Written(j) <=> HasSale(j) /\ SaleOf[j.t] = s
<1>1. CASE j.at \in {"row", "sale"}
  BY <1>1, DocsDiffer DEF Written, HasTicket, HasSale
<1>2. CASE j.at = "event"
  BY <1>2, DocsDiffer DEF Written, HasTicket, HasSale
<1>3. CASE j.at = "commit"
  <2>1. Written(j) = Writes(j) /\ HasTicket(j) /\ (HasSale(j) <=> j.k = "refund")
    BY <1>3 DEF Written, HasTicket, HasSale
  <2>2. CASE j.k = "checkin"
    BY <2>1, <2>2, DocsDiffer DEF Writes
  <2>3. CASE j.k = "refund"
    BY <2>1, <2>3, DocsDiffer DEF Writes
  <2> QED BY <1>3, <2>2, <2>3 DEF Shape
<1>4. CASE j.at \notin {"row", "sale", "event", "commit"}
  BY <1>4 DEF Written, HasTicket, HasSale
<1> QED BY <1>1, <1>2, <1>3, <1>4

LEMMA WritesDocs ==
    ASSUME NEW j, Shape(j), j.at # "idle", SaleOf \in [Tickets -> Sales]
    PROVE  /\ Writes(j) \subseteq Docs
           /\ \A t : TicketDoc(t) \in Writes(j) <=> j.t = t
           /\ \A s : SaleDoc(s) \in Writes(j) <=> j.k = "refund" /\ SaleOf[j.t] = s
<1>1. j.t \in Tickets /\ SaleOf[j.t] \in Sales /\ j.k \in {"checkin", "refund"}
  BY DEF Shape
<1>2. TicketDoc(j.t) \in Docs /\ SaleDoc(SaleOf[j.t]) \in Docs /\ EventDoc \in Docs
  BY <1>1 DEF Docs
<1>3. CASE j.k = "checkin"
  BY <1>2, <1>3, DocsDiffer DEF Writes
<1>4. CASE j.k = "refund"
  BY <1>2, <1>4, DocsDiffer DEF Writes
<1> QED BY <1>1, <1>3, <1>4

\* A save that is not refused: its document is as read, and nobody else's.
LEMMA Unrefused ==
    ASSUME Requests, NEW h \in Handlers, ~Conflict(h)
    PROVE  /\ request[h].at = "ticket" =>
                /\ TicketDoc(request[h].t) \notin stale[h]
                /\ \A g \in Handlers \ {h} : ~(HasTicket(request[g]) /\ request[g].t = request[h].t)
           /\ request[h].at = "sale" =>
                /\ SaleDoc(SaleOf[request[h].t]) \notin stale[h]
                /\ \A g \in Handlers \ {h} :
                     ~(HasSale(request[g]) /\ SaleOf[request[g].t] = SaleOf[request[h].t])
<1>1. \A g \in Handlers : Shape(request[g])
  BY DEF Requests
<1>2. \A d \in Target(request[h]) :
         d \notin stale[h] /\ \A g \in Handlers \ {h} : d \notin Written(request[g])
  BY DEF Conflict, Locked
<1>3. CASE request[h].at = "ticket"
  <2>1. TicketDoc(request[h].t) \in Target(request[h])
    BY <1>3 DEF Target
  <2> QED BY <1>1, <1>2, <1>3, <2>1, WrittenDocs
<1>4. CASE request[h].at = "sale"
  <2>1. SaleDoc(SaleOf[request[h].t]) \in Target(request[h])
    BY <1>4 DEF Target
  <2> QED BY <1>1, <1>2, <1>4, <2>1, WrittenDocs
<1> QED BY <1>3, <1>4

-----------------------------------------------------------------------------
(* A step of one request, and of no document.                              *)

LEMMA OwnStep ==
    ASSUME Requests, NEW h \in Handlers, NEW j, request' = [request EXCEPT ![h] = j],
           Shape(j), Current(j, stale'[h]), UNCHANGED docVars,
           \A g \in Handlers \ {h} : stale'[g] = stale[g],
           \A g \in Handlers \ {h} : Excludes(request[g], j)
    PROVE  Requests'
<1>1. request'[h] = j /\ \A g \in Handlers : g # h => request'[g] = request[g]
  BY DEF Requests
<1>2. request' \in [Handlers -> GateRequest]
  BY DEF Requests, Shape
<1>3. ASSUME NEW g \in Handlers PROVE Shape(request'[g]) /\ Current(request[g], stale[g])'
  <2>1. CASE g = h
    BY <1>1, <2>1 DEF Current, docVars
  <2>2. CASE g # h
    <3>1. Shape(request[g]) /\ Current(request[g], stale[g])
      BY DEF Requests
    <3> QED BY <1>1, <2>2, <3>1 DEF Current, docVars
  <2> QED BY <2>1, <2>2
<1>4. ASSUME NEW f \in Handlers, NEW g \in Handlers, f # g
      PROVE  Excludes(request'[f], request'[g])
  BY <1>1, <1>4 DEF Requests, Apart, Excludes
<1>5. Apart'
  BY <1>4 DEF Apart, Excludes
<1> QED BY <1>2, <1>3, <1>5 DEF Requests, Shape

LEMMA NoRequestShape ==
    /\ Shape(NoRequest) /\ NoRequest.at = "idle" /\ NoRequest.k = "none"
    /\ ~HasTicket(NoRequest) /\ ~HasSale(NoRequest)
BY DEF NoRequest, Shape, GateRequest, Stages, Results, HasTicket, HasSale

\* The request of h ends, and leaves its documents as they were.
LEMMA ClosesRequests ==
    ASSUME Requests, NEW h \in Handlers, Closes(h), UNCHANGED docVars,
           stale \in [Handlers -> SUBSET Docs]
    PROVE  Requests' /\ stale' \in [Handlers -> SUBSET Docs]
<1>1. request' = [request EXCEPT ![h] = NoRequest] /\ stale' = [stale EXCEPT ![h] = {}]
  BY DEF Closes
<1>2. /\ stale'[h] = {} /\ \A g \in Handlers \ {h} : stale'[g] = stale[g]
      /\ stale' \in [Handlers -> SUBSET Docs]
  BY <1>1
<1>3. Current(NoRequest, stale'[h])
  BY NoRequestShape DEF Current, SeesTicket, SeesSale
<1>4. \A g \in Handlers \ {h} : Excludes(request[g], NoRequest)
  BY NoRequestShape DEF Excludes
<1> QED BY <1>1, <1>2, <1>3, <1>4, NoRequestShape, OwnStep

-----------------------------------------------------------------------------
(* The books.                                                              *)

Enters(j) == j.k = "checkin" /\ j.at = "commit"

LEMMA EnteringKept ==
    ASSUME request \in [Handlers -> GateRequest], NEW h \in Handlers, NEW j,
           request' = [request EXCEPT ![h] = j], ~Enters(request[h]), ~Enters(j)
    PROVE  \A t : Entering(t)' = Entering(t)
<1>1. request'[h] = j /\ \A g \in Handlers : g # h => request'[g] = request[g]
  OBVIOUS
<1> QED BY <1>1 DEF Entering, Enters

LEMMA EnteringOne ==
    ASSUME Requests, NEW h \in Handlers, HasTicket(request[h])
    PROVE  Entering(request[h].t) = IF Enters(request[h]) THEN {h} ELSE {}
<1>1. \A g \in Handlers : g # h /\ Enters(request[g]) => request[g].t # request[h].t
  BY DEF Requests, Apart, Excludes, HasTicket, Enters
<1> QED BY <1>1 DEF Entering, Enters

LEMMA BooksKept ==
    ASSUME AdmittedOnce, GateBooksAddUp, UNCHANGED <<docVars, scans, histVars>>,
           \A t \in Tickets : Entering(t)' = Entering(t)
    PROVE  AdmittedOnce' /\ GateBooksAddUp'
<1>1. AdmittedOnce'
  BY DEF AdmittedOnce, docVars, histVars
<1>2. RefundsAddUp'
  BY DEF GateBooksAddUp, RefundsAddUp, RefundedOf, docVars
<1>3. \A t \in Tickets : Cardinality(Entering(t))' = Cardinality(Entering(t))
  OBVIOUS
<1>4. TrailMatchesTickets'
  BY <1>3 DEF GateBooksAddUp, TrailMatchesTickets, docVars, histVars
<1> QED BY <1>1, <1>2, <1>4 DEF GateBooksAddUp

-----------------------------------------------------------------------------
(* One lemma an action.                                                    *)

LEMMA OpensGateInv ==
    ASSUME GateInv, NEW h \in Handlers, NEW j, Shape(j), Opens(h, j),
           j.at \in {"ticket", "refuse"}, Current(j, {})
    PROVE  GateInv'
<1>1. /\ request[h] = NoRequest /\ asked < MaxOps /\ asked' = asked + 1
      /\ request' = [request EXCEPT ![h] = j]
      /\ UNCHANGED <<docVars, scans, stale, failures, histVars>>
  BY DEF Opens
<1>2. ~HasTicket(j) /\ ~HasSale(j) /\ ~Enters(j) /\ ~Enters(request[h])
  BY <1>1, NoRequestShape DEF HasTicket, HasSale, Enters
<1>3. Current(j, stale'[h])
  BY <1>2 DEF Current, SeesTicket, SeesSale
<1>4. Requests'
  <2>1. \A g \in Handlers \ {h} : Excludes(request[g], j)
    BY <1>2 DEF Excludes
  <2> QED BY <1>1, <1>3, <2>1, OwnStep DEF GateInv
<1>5. AdmittedOnce' /\ GateBooksAddUp'
  BY <1>1, <1>2, EnteringKept, BooksKept DEF GateInv, Requests
<1>6. GateTypeOK'
  <2>1. asked' \in 0..MaxOps
    BY <1>1, BoundsAssumption DEF GateInv, GateTypeOK
  <2>2. \A g \in Handlers : request'[g].at # "idle" => request'[g].t \in Tickets /\ request'[g].k # "none"
    BY <1>4 DEF Requests, Shape
  <2> QED BY <1>1, <1>4, <2>1, <2>2 DEF GateInv, GateTypeOK, Requests, docVars, histVars
<1> QED BY <1>4, <1>5, <1>6 DEF GateInv

LEMMA CheckInGateInv ==
    ASSUME GateInv, NEW h \in Handlers, NEW t \in Tickets, NEW ours \in BOOLEAN,
           checkInTicket(h, t, ours)
    PROVE  GateInv'
<1> DEFINE said == Answer(t, ours)
<1> DEFINE at == IF said = "success" THEN "ticket" ELSE "refuse"
<1>1. PICK j : j = [NoRequest EXCEPT !.k = "checkin", !.t = t, !.said = said, !.at = at]
  OBVIOUS
<1>2. Opens(h, j)
  BY <1>1 DEF checkInTicket
<1>3. /\ said \in Results
      /\ said = "success" => status[t] = "sold"
      /\ said = "already_scanned" => status[t] = "checked_in"
      /\ said = "cancelled" => status[t] = "refunded"
  BY DEF Answer, Results, GateInv, GateTypeOK, Status
<1>4. at \in {"ticket", "refuse"} /\ (at = "refuse" <=> said # "success")
  OBVIOUS
<1> HIDE DEF said, at
<1>5. /\ j = [k |-> "checkin", t |-> t, at |-> at, said |-> said, quantity |-> 0]
      /\ j.k = "checkin" /\ j.t = t /\ j.at = at /\ j.said = said
  BY <1>1 DEF NoRequest
<1>6. Shape(j)
  BY <1>3, <1>4, <1>5 DEF Shape, GateRequest, Stages
<1>7. Current(j, {})
  BY <1>3, <1>4, <1>5 DEF Current, SeesTicket, SeesSale, HasTicket, HasSale
<1> QED BY <1>2, <1>4, <1>5, <1>6, <1>7, OpensGateInv

LEMMA RefundGateInv ==
    ASSUME GateInv, NEW h \in Handlers, NEW t \in Tickets, refundTicket(h, t)
    PROVE  GateInv'
<1>1. PICK j : j = [NoRequest EXCEPT !.k = "refund", !.t = t, !.at = "ticket",
                                !.quantity = refunded[SaleOf[t]]]
  OBVIOUS
<1>2. Opens(h, j) /\ status[t] = "sold"
  BY <1>1 DEF refundTicket
<1>3. refunded[SaleOf[t]] \in Int
  BY SaleOfAssumption DEF GateInv, GateTypeOK
<1>4. /\ j = [k |-> "refund", t |-> t, at |-> "ticket", said |-> "success",
              quantity |-> refunded[SaleOf[t]]]
      /\ j.k = "refund" /\ j.t = t /\ j.at = "ticket" /\ j.quantity = refunded[SaleOf[t]]
  BY <1>1 DEF NoRequest
<1>5. Shape(j)
  BY <1>3, <1>4 DEF Shape, GateRequest, Stages, Results
<1>6. Current(j, {})
  BY <1>2, <1>4 DEF Current, SeesTicket, SeesSale, HasTicket, HasSale
<1> QED BY <1>2, <1>4, <1>5, <1>6, OpensGateInv

\* The rest of TypeOK follows from what the steps do to counts and rows.
LEMMA TypesKept ==
    ASSUME GateTypeOK, Requests', UNCHANGED <<docVars, asked>>,
           stale' \in [Handlers -> SUBSET Docs], failures' \in 0..MaxFaults,
           scans' \in [Tickets -> [Results -> Nat]],
           admitted' \in [Tickets -> Nat], torn' \in [Tickets -> Nat]
    PROVE  GateTypeOK'
<1>1. \A g \in Handlers : request'[g].at # "idle" => request'[g].t \in Tickets /\ request'[g].k # "none"
  BY DEF Requests, Shape
<1> QED BY <1>1 DEF GateTypeOK, Requests, docVars

LEMMA RefuseGateInv ==
    ASSUME GateInv, NEW h \in Handlers, Refuse(h)
    PROVE  GateInv'
<1> DEFINE t == request[h].t
           r == request[h].said
<1>1. /\ request[h].at = "refuse" /\ Closes(h)
      /\ scans' = [scans EXCEPT ![t][r] = @ + 1]
      /\ UNCHANGED <<docVars, countVars, histVars>>
  BY DEF Refuse, createScanRecord
<1>2. /\ t \in Tickets /\ r \in Results /\ r # "success"
      /\ r = "already_scanned" => status[t] = "checked_in"
      /\ r = "cancelled" => status[t] = "refunded"
  BY <1>1 DEF GateInv, Requests, Shape, Current, GateRequest
<1>3. Requests' /\ stale' \in [Handlers -> SUBSET Docs]
  BY <1>1, ClosesRequests DEF GateInv, GateTypeOK
<1>4. scans' \in [Tickets -> [Results -> Nat]]
  BY <1>1, <1>2 DEF GateInv, GateTypeOK
<1>5. GateTypeOK'
  BY <1>1, <1>3, <1>4, TypesKept DEF GateInv, GateTypeOK, countVars, histVars
<1>6. \A u \in Tickets : Entering(u)' = Entering(u)
  <2>1. request' = [request EXCEPT ![h] = NoRequest] /\ ~Enters(request[h]) /\ ~Enters(NoRequest)
    BY <1>1, NoRequestShape DEF Closes, Enters
  <2> QED BY <2>1, EnteringKept DEF GateInv, Requests
<1>7. AdmittedOnce' /\ RefundsAddUp'
  BY <1>1 DEF GateInv, AdmittedOnce, GateBooksAddUp, RefundsAddUp, RefundedOf, docVars, histVars
<1>8. TrailMatchesTickets'
  <2> SUFFICES ASSUME NEW u \in Tickets
               PROVE  /\ scans'[u]["success"] = (IF status'[u] = "checked_in" THEN 1 ELSE 0)
                                     + Cardinality(Entering(u)') + torn'[u]
                      /\ scans'[u]["already_scanned"] > 0 => status'[u] = "checked_in"
                      /\ scans'[u]["cancelled"] > 0 => status'[u] = "refunded"
    BY DEF TrailMatchesTickets
  <2>1. /\ scans[u]["success"] = (IF status[u] = "checked_in" THEN 1 ELSE 0)
                                     + Cardinality(Entering(u)) + torn[u]
        /\ scans[u]["already_scanned"] > 0 => status[u] = "checked_in"
        /\ scans[u]["cancelled"] > 0 => status[u] = "refunded"
    BY DEF GateInv, GateBooksAddUp, TrailMatchesTickets
  <2>2. /\ scans'[u]["success"] = scans[u]["success"]
        /\ scans'[u]["already_scanned"] # scans[u]["already_scanned"]
             => u = t /\ r = "already_scanned"
        /\ scans'[u]["cancelled"] # scans[u]["cancelled"] => u = t /\ r = "cancelled"
    <3>1. {"success", "already_scanned", "cancelled"} \subseteq Results
      BY DEF Results
    <3>2. scans \in [Tickets -> [Results -> Nat]]
      BY DEF GateInv, GateTypeOK
    <3>3. scans'[u] = IF u = t THEN [scans[t] EXCEPT ![r] = @ + 1] ELSE scans[u]
      BY <1>1, <3>2
    <3> HIDE DEF t, r
    <3> QED BY <1>2, <3>1, <3>2, <3>3
  <2> QED BY <1>1, <1>2, <1>6, <2>1, <2>2 DEF docVars, histVars
<1> QED BY <1>3, <1>5, <1>7, <1>8 DEF GateInv, GateBooksAddUp

LEMMA AbortGateInv ==
    ASSUME GateInv, NEW h \in Handlers, Abort(h)
    PROVE  GateInv'
<1>1. Conflict(h) /\ Closes(h) /\ UNCHANGED <<docVars, scans, countVars, histVars>>
  BY DEF Abort
<1>2. request[h].at \in {"ticket", "sale", "event"}
  BY <1>1 DEF Conflict, Target
<1>3. Requests' /\ stale' \in [Handlers -> SUBSET Docs]
  BY <1>1, ClosesRequests DEF GateInv, GateTypeOK
<1>4. GateTypeOK'
  BY <1>1, <1>3, TypesKept DEF GateInv, GateTypeOK, countVars, histVars
<1>5. \A u \in Tickets : Entering(u)' = Entering(u)
  <2>1. request' = [request EXCEPT ![h] = NoRequest] /\ ~Enters(request[h]) /\ ~Enters(NoRequest)
    BY <1>1, <1>2, NoRequestShape DEF Closes, Enters
  <2> QED BY <2>1, EnteringKept DEF GateInv, Requests
<1> QED BY <1>1, <1>3, <1>4, <1>5, BooksKept DEF GateInv

\* The transaction of h has made a write, of the ticket, the sale or the event,
\* and goes on to the next one.
LEMMA SavesGateInv ==
    ASSUME GateInv, NEW h \in Handlers, NEW l, Advances(h, l), ~Conflict(h),
           UNCHANGED <<docVars, scans, countVars, histVars>>,
           \/ request[h].at = "ticket" /\ l = IF request[h].k = "checkin" THEN "row" ELSE "sale"
           \/ request[h].at = "sale" /\ l = "event"
           \/ request[h].at = "event" /\ l = "commit"
    PROVE  GateInv'
<1>1. PICK j : j = [request[h] EXCEPT !.at = l]
  OBVIOUS
<1>2. request' = [request EXCEPT ![h] = j] /\ UNCHANGED stale
  BY <1>1 DEF Advances
<1>3. /\ Shape(request[h]) /\ Current(request[h], stale[h]) /\ request[h] \in GateRequest
      /\ \A g \in Handlers \ {h} : Shape(request[g]) /\ Excludes(request[g], request[h])
  BY DEF GateInv, Requests, Apart, Shape
<1>4. /\ j.at = l /\ j.k = request[h].k /\ j.t = request[h].t /\ j.said = request[h].said
      /\ j.quantity = request[h].quantity /\ l \in Stages
      /\ j \in [k : {"none", "checkin", "refund"}, t : Tickets \cup {None}, at : Stages,
                said : Results, quantity : Int]
  BY <1>1, <1>3 DEF GateRequest, Stages
<1>5. Shape(j)
  BY <1>3, <1>4 DEF Shape, GateRequest
<1>6. Current(j, stale'[h])
  BY <1>2, <1>3, <1>4, Unrefused DEF GateInv, Current, SeesTicket, SeesSale, HasTicket, HasSale, Shape
<1>7. \A g \in Handlers \ {h} : Excludes(request[g], j)
  BY <1>3, <1>4, Unrefused DEF GateInv, Excludes, HasTicket, HasSale, Shape
<1>8. Requests'
  BY <1>2, <1>5, <1>6, <1>7, OwnStep DEF GateInv
<1>9. GateTypeOK'
  BY <1>2, <1>8, TypesKept DEF GateInv, GateTypeOK, countVars, histVars
<1>10. ~Enters(request[h]) /\ ~Enters(j)
  BY <1>3, <1>4 DEF Enters, Shape
<1>11. \A u \in Tickets : Entering(u)' = Entering(u)
  BY <1>2, <1>10, EnteringKept DEF GateInv, Requests
<1> QED BY <1>8, <1>9, <1>11, BooksKept DEF GateInv

LEMMA WriteScanGateInv ==
    ASSUME GateInv, NEW h \in Handlers, WriteScan(h)
    PROVE  GateInv'
<1>0. PICK t : t = request[h].t
  OBVIOUS
<1>1. /\ request[h].at = "row" /\ Advances(h, "commit")
      /\ scans' = [scans EXCEPT ![t][request[h].said] = @ + 1]
      /\ UNCHANGED <<docVars, countVars, histVars>>
  BY <1>0 DEF WriteScan, createScanRecord
<1>2. PICK j : j = [request[h] EXCEPT !.at = "commit"]
  OBVIOUS
<1>3. request' = [request EXCEPT ![h] = j] /\ UNCHANGED stale
  BY <1>1, <1>2 DEF Advances
<1>4. /\ Shape(request[h]) /\ Current(request[h], stale[h]) /\ request[h] \in GateRequest
      /\ \A g \in Handlers \ {h} : Shape(request[g]) /\ Excludes(request[g], request[h])
  BY DEF GateInv, Requests, Apart, Shape
<1>5. request[h].k = "checkin" /\ request[h].said = "success" /\ t \in Tickets /\ status[t] = "sold"
  BY <1>0, <1>1, <1>4 DEF Shape, Current, SeesTicket, HasTicket
<1>6. /\ j.at = "commit" /\ j.k = "checkin" /\ j.t = t /\ j.said = "success"
      /\ j.quantity = request[h].quantity
      /\ j \in [k : {"none", "checkin", "refund"}, t : Tickets \cup {None}, at : Stages,
                said : Results, quantity : Int]
  BY <1>0, <1>2, <1>4, <1>5 DEF GateRequest, Stages
<1>7. Shape(j)
  BY <1>5, <1>6 DEF Shape, GateRequest
<1>8. Current(j, stale'[h])
  BY <1>5, <1>6 DEF Current, SeesSale, HasSale
<1>9. \A g \in Handlers \ {h} : Excludes(request[g], j)
  BY <1>0, <1>1, <1>4, <1>6 DEF Excludes, HasTicket, HasSale
<1>10. Requests'
  BY <1>1, <1>3, <1>7, <1>8, <1>9, OwnStep DEF GateInv
<1>11. scans \in [Tickets -> [Results -> Nat]] /\ "success" \in Results
  BY DEF GateInv, GateTypeOK, Results
<1>12. scans' = [scans EXCEPT ![t]["success"] = @ + 1] /\ scans' \in [Tickets -> [Results -> Nat]]
  BY <1>1, <1>5, <1>11
<1>13. GateTypeOK'
  BY <1>1, <1>3, <1>10, <1>12, TypesKept DEF GateInv, GateTypeOK, countVars, histVars
<1>14. AdmittedOnce' /\ RefundsAddUp'
  BY <1>1 DEF GateInv, AdmittedOnce, GateBooksAddUp, RefundsAddUp, RefundedOf, docVars, histVars
<1>15. Entering(t) = {} /\ Entering(t)' = {h}
  <2>1. Entering(t) = {}
    BY <1>0, <1>1, EnteringOne DEF GateInv, HasTicket, Enters
  <2>2. request'[h] = j /\ \A g \in Handlers : g # h => request'[g] = request[g]
    BY <1>3 DEF GateInv, Requests
  <2> QED BY <1>6, <2>1, <2>2 DEF Entering
<1>16. \A u \in Tickets : u # t => Entering(u)' = Entering(u)
  <2>1. request'[h] = j /\ \A g \in Handlers : g # h => request'[g] = request[g]
    BY <1>3 DEF GateInv, Requests
  <2> QED BY <1>0, <1>6, <2>1 DEF Entering
<1>17. TrailMatchesTickets'
  <2> SUFFICES ASSUME NEW u \in Tickets
               PROVE  /\ scans'[u]["success"] = (IF status'[u] = "checked_in" THEN 1 ELSE 0)
                                     + Cardinality(Entering(u)') + torn'[u]
                      /\ scans'[u]["already_scanned"] > 0 => status'[u] = "checked_in"
                      /\ scans'[u]["cancelled"] > 0 => status'[u] = "refunded"
    BY DEF TrailMatchesTickets
  <2>1. /\ scans[u]["success"] = (IF status[u] = "checked_in" THEN 1 ELSE 0)
                                     + Cardinality(Entering(u)) + torn[u]
        /\ scans[u]["already_scanned"] > 0 => status[u] = "checked_in"
        /\ scans[u]["cancelled"] > 0 => status[u] = "refunded"
    BY DEF GateInv, GateBooksAddUp, TrailMatchesTickets
  <2>2. /\ scans'[u]["success"] = scans[u]["success"] + IF u = t THEN 1 ELSE 0
        /\ scans'[u]["already_scanned"] = scans[u]["already_scanned"]
        /\ scans'[u]["cancelled"] = scans[u]["cancelled"]
        /\ scans[u]["success"] \in Nat
    <3>1. scans'[u] = IF u = t THEN [scans[t] EXCEPT !["success"] = @ + 1] ELSE scans[u]
      BY <1>11, <1>12
    <3>2. scans[u] \in [Results -> Nat] /\ {"already_scanned", "cancelled"} \subseteq Results
      BY <1>11 DEF Results
    <3> QED BY <1>11, <3>1, <3>2
  <2>3. CASE u = t
    <3>1. Cardinality(Entering(u)) = 0 /\ Cardinality(Entering(u)') = 1
      <4>1. Cardinality({}) = 0 /\ Cardinality({h}) = 1
        BY FS_EmptySet, FS_Singleton
      <4> QED BY <1>15, <2>3, <4>1
    <3> QED BY <1>1, <1>5, <2>1, <2>2, <2>3, <3>1 DEF docVars, histVars, GateInv, GateTypeOK
  <2>4. CASE u # t
    BY <1>1, <1>16, <2>1, <2>2, <2>4 DEF docVars, histVars
  <2> QED BY <2>3, <2>4
<1> QED BY <1>10, <1>13, <1>14, <1>17 DEF GateInv, GateBooksAddUp

\* A commit makes every snapshot out of date that it contradicts.
LEMMA CommitsRequests ==
    ASSUME GateInv, NEW h \in Handlers, request[h].at = "commit", Commits(h)
    PROVE  /\ Requests' /\ stale' \in [Handlers -> SUBSET Docs]
           /\ status[request[h].t] = "sold" /\ request[h].t \in Tickets
           /\ request[h].k \in {"checkin", "refund"}
           /\ request[h].k = "refund" => refunded[SaleOf[request[h].t]] = request[h].quantity
<1>0. PICK j, t : j = request[h] /\ t = request[h].t
  OBVIOUS
<1>1. /\ status' = [status EXCEPT ![t] = IF j.k = "checkin" THEN "checked_in" ELSE "refunded"]
      /\ refunded' = IF j.k = "refund" THEN [refunded EXCEPT ![SaleOf[t]] = j.quantity + 1]
                     ELSE refunded
      /\ request' = [request EXCEPT ![h] = NoRequest]
      /\ stale' = Dirty(Written(j), {h})
  BY <1>0 DEF Commits
<1>2. /\ Shape(j) /\ j.at = "commit" /\ HasTicket(j) /\ (j.k = "refund" <=> HasSale(j))
      /\ t \in Tickets /\ SaleOf[t] \in Sales /\ j.k \in {"checkin", "refund"}
      /\ status[t] = "sold" /\ j.t = t
      /\ j.k = "refund" => refunded[SaleOf[t]] = j.quantity
  BY <1>0, SaleOfAssumption
     DEF GateInv, Requests, Shape, HasTicket, HasSale, Current, SeesTicket, SeesSale
<1>3. \A g \in Handlers \ {h} : /\ Shape(request[g]) /\ Current(request[g], stale[g])
                                /\ Excludes(request[g], j) /\ request'[g] = request[g]
  BY <1>0, <1>1 DEF GateInv, Requests, Apart
<1>4. request'[h] = NoRequest /\ request' \in [Handlers -> GateRequest]
  BY <1>1, NoRequestShape DEF GateInv, Requests, Shape
<1>5. \A g \in Handlers \ {h} :
         stale'[g] = IF Running(g)
                     THEN stale[g] \cup (Written(j) \cap (Writes(request[g]) \ Written(request[g])))
                     ELSE stale[g]
  BY <1>1 DEF Dirty
<1>6. stale' \in [Handlers -> SUBSET Docs]
  <2>1. stale \in [Handlers -> SUBSET Docs]
    BY DEF GateInv, GateTypeOK
  <2>2. \A g \in Handlers : Running(g) => Writes(request[g]) \subseteq Docs
    BY WritesDocs, SaleOfAssumption DEF Running, GateInv, Requests
  <2> QED BY <1>1, <2>1, <2>2 DEF Dirty
<1>7. /\ \A u \in Tickets : u # t => status'[u] = status[u]
      /\ \A s \in Sales : s # SaleOf[t] \/ j.k # "refund" => refunded'[s] = refunded[s]
  BY <1>1, <1>2 DEF GateInv, GateTypeOK
<1>8. ASSUME NEW g \in Handlers PROVE Current(request[g], stale[g])'
  <2>1. CASE g = h
    BY <1>4, <2>1, NoRequestShape DEF Current, SeesTicket, SeesSale
  <2>2. CASE g # h
    <3>1. PICK i : i = request[g]
      OBVIOUS
    <3>2. /\ Shape(i) /\ Current(i, stale[g]) /\ Excludes(i, j) /\ request'[g] = i
          /\ stale[g] \subseteq stale'[g]
      BY <1>3, <1>5, <2>2, <3>1
    <3>3. SeesTicket(i, stale'[g]) => SeesTicket(i, stale[g]) /\ i.t # t
      <4>1. SeesTicket(i, stale'[g]) => SeesTicket(i, stale[g])
        BY <3>2 DEF SeesTicket
      <4>2. CASE i.at = "ticket" /\ i.t = t
        <5>1. TicketDoc(t) \in Written(j) \cap (Writes(i) \ Written(i)) /\ Running(g)
          BY <1>2, <3>1, <3>2, <4>2, WrittenDocs, WritesDocs, SaleOfAssumption DEF HasTicket, Running
        <5>2. TicketDoc(t) \in stale'[g]
          BY <1>5, <2>2, <3>1, <5>1
        <5> QED BY <4>2, <5>2 DEF SeesTicket, HasTicket
      <4> QED BY <1>2, <3>2, <4>1, <4>2 DEF SeesTicket, Excludes
    <3>4. SeesSale(i, stale'[g]) =>
             SeesSale(i, stale[g]) /\ (SaleOf[i.t] # SaleOf[t] \/ j.k # "refund")
      <4>1. SeesSale(i, stale'[g]) => SeesSale(i, stale[g])
        BY <3>2 DEF SeesSale
      <4>2. CASE /\ i.k = "refund" /\ i.at \in {"ticket", "sale"}
                 /\ SaleOf[i.t] = SaleOf[t] /\ j.k = "refund"
        <5>1. ~HasSale(i)
          BY <4>2 DEF HasSale
        <5>2. SaleDoc(SaleOf[t]) \in Written(j)
          BY <1>2, <4>2, WrittenDocs
        <5>3. SaleDoc(SaleOf[t]) \in Writes(i) \ Written(i)
          BY <3>2, <4>2, <5>1, WrittenDocs, WritesDocs, SaleOfAssumption
        <5>4. SaleDoc(SaleOf[t]) \in stale'[g]
          BY <1>5, <2>2, <3>1, <4>2, <5>2, <5>3 DEF Running
        <5> QED BY <4>2, <5>1, <5>4 DEF SeesSale
      <4> QED BY <1>2, <3>2, <4>1, <4>2 DEF SeesSale, Excludes
    <3>5. i.at # "idle" => i.t \in Tickets /\ SaleOf[i.t] \in Sales
      BY <3>2, SaleOfAssumption DEF Shape
    <3>6. SeesTicket(i, stale'[g]) => status'[i.t] = "sold"
      BY <1>7, <3>2, <3>3, <3>5 DEF Current, SeesTicket, HasTicket
    <3>7. SeesSale(i, stale'[g]) => refunded'[SaleOf[i.t]] = i.quantity
      BY <1>7, <3>2, <3>4, <3>5 DEF Current, SeesSale, HasSale
    <3>8. /\ i.at = "refuse" /\ i.said = "already_scanned" => status'[i.t] = "checked_in"
          /\ i.at = "refuse" /\ i.said = "cancelled" => status'[i.t] = "refunded"
      BY <1>2, <1>7, <3>2, <3>5 DEF Current
    <3> QED BY <3>2, <3>6, <3>7, <3>8 DEF Current
  <2> QED BY <2>1, <2>2
<1>9. \A g \in Handlers : Shape(request'[g])
  BY <1>3, <1>4, NoRequestShape
<1>10. Apart'
  <2> SUFFICES ASSUME NEW f \in Handlers, NEW g \in Handlers, f # g
               PROVE  Excludes(request'[f], request'[g])
    BY DEF Apart, Excludes
  <2> QED BY <1>3, <1>4, NoRequestShape DEF GateInv, Requests, Apart, Excludes
<1>11. Requests'
  BY <1>4, <1>8, <1>9, <1>10 DEF Requests, Shape
<1> QED BY <1>0, <1>2, <1>6, <1>11

LEMMA CommitsGateInv ==
    ASSUME GateInv, NEW h \in Handlers, request[h].at = "commit", Commits(h),
           UNCHANGED <<scans, asked, torn>>, failures' \in 0..MaxFaults,
           Admits(h) \/ UNCHANGED admitted
    PROVE  GateInv'
<1>0. PICK j, t : j = request[h] /\ t = request[h].t
  OBVIOUS
<1>1. /\ status' = [status EXCEPT ![t] = IF j.k = "checkin" THEN "checked_in" ELSE "refunded"]
      /\ refunded' = IF j.k = "refund" THEN [refunded EXCEPT ![SaleOf[t]] = j.quantity + 1]
                     ELSE refunded
      /\ request' = [request EXCEPT ![h] = NoRequest]
  BY <1>0 DEF Commits
<1>2. /\ Requests' /\ stale' \in [Handlers -> SUBSET Docs]
      /\ status[t] = "sold" /\ t \in Tickets /\ j.k \in {"checkin", "refund"}
      /\ j.k = "refund" => refunded[SaleOf[t]] = j.quantity
  BY <1>0, CommitsRequests
<1>3. /\ status \in [Tickets -> Status] /\ refunded \in [Sales -> Int]
      /\ admitted \in [Tickets -> Nat] /\ SaleOf[t] \in Sales
  BY <1>2, SaleOfAssumption DEF GateInv, GateTypeOK
<1>4. /\ status' \in [Tickets -> Status]
      /\ status'[t] = IF j.k = "checkin" THEN "checked_in" ELSE "refunded"
      /\ \A u \in Tickets : u # t => status'[u] = status[u]
  BY <1>1, <1>2, <1>3 DEF Status
<1>5. /\ refunded' \in [Sales -> Int]
      /\ \A s \in Sales : refunded'[s] =
           IF j.k = "refund" /\ s = SaleOf[t] THEN refunded[s] + 1 ELSE refunded[s]
  BY <1>1, <1>2, <1>3
<1>6. /\ admitted' \in [Tickets -> Nat]
      /\ \A u \in Tickets :
           admitted'[u] <= admitted[u] + IF j.k = "checkin" /\ u = t THEN 1 ELSE 0
  <2>1. \/ admitted' = admitted
        \/ j.k = "checkin" /\ admitted' = [admitted EXCEPT ![t] = @ + 1]
    BY <1>0 DEF Admits
  <2> QED BY <1>2, <1>3, <2>1
<1>7. GateTypeOK'
  <2>1. \A g \in Handlers : request'[g].at # "idle" => request'[g].t \in Tickets /\ request'[g].k # "none"
    BY <1>2 DEF Requests, Shape
  <2> QED BY <1>2, <1>4, <1>5, <1>6, <2>1 DEF GateInv, GateTypeOK, Requests
<1>8. AdmittedOnce'
  <2> SUFFICES ASSUME NEW u \in Tickets
               PROVE  admitted'[u] <= IF status'[u] = "checked_in" THEN 1 ELSE 0
    BY DEF AdmittedOnce
  <2>1. /\ admitted[u] <= IF status[u] = "checked_in" THEN 1 ELSE 0
        /\ admitted[u] \in Nat /\ admitted'[u] \in Nat
    BY <1>3, <1>6 DEF GateInv, AdmittedOnce
  <2>2. CASE u = t
    BY <1>2, <1>4, <1>6, <2>1, <2>2
  <2>3. CASE u # t
    BY <1>4, <1>6, <2>1, <2>3
  <2> QED BY <2>2, <2>3
<1>9. RefundsAddUp'
  <2> SUFFICES ASSUME NEW s \in Sales
               PROVE  refunded'[s] = Cardinality(RefundedOf(s)')
    BY DEF RefundsAddUp
  <2>1. refunded[s] = Cardinality(RefundedOf(s))
    BY DEF GateInv, GateBooksAddUp, RefundsAddUp
  <2>2. CASE j.k = "refund" /\ s = SaleOf[t]
    <3>1. RefundedOf(s)' = RefundedOf(s) \cup {t} /\ t \notin RefundedOf(s)
      BY <1>2, <1>4, <2>2 DEF RefundedOf
    <3>2. IsFiniteSet(RefundedOf(s))
      BY FS_Subset, TicketsAssumption DEF RefundedOf
    <3>3. Cardinality(RefundedOf(s) \cup {t}) = Cardinality(RefundedOf(s)) + 1
      BY <3>1, <3>2, FS_AddElement
    <3> QED BY <1>5, <2>1, <2>2, <3>1, <3>3
  <2>3. CASE ~(j.k = "refund" /\ s = SaleOf[t])
    <3>1. RefundedOf(s)' = RefundedOf(s)
      BY <1>2, <1>4, <2>3 DEF RefundedOf
    <3> QED BY <1>5, <2>1, <2>3, <3>1
  <2> QED BY <2>2, <2>3
<1>10. /\ Entering(t) = IF j.k = "checkin" THEN {h} ELSE {}
       /\ Entering(t)' = {}
       /\ \A u \in Tickets : u # t => Entering(u)' = Entering(u)
  <2>1. HasTicket(request[h]) /\ (Enters(request[h]) <=> j.k = "checkin")
    BY <1>0 DEF HasTicket, Enters
  <2>2. Entering(t) = IF j.k = "checkin" THEN {h} ELSE {}
    BY <1>0, <2>1, EnteringOne DEF GateInv
  <2>3. request'[h] = NoRequest /\ \A g \in Handlers : g # h => request'[g] = request[g]
    BY <1>1 DEF GateInv, Requests
  <2>4. Entering(t) \subseteq {h}
    BY <2>2
  <2> QED BY <1>0, <2>2, <2>3, <2>4, NoRequestShape DEF Entering
<1>11. TrailMatchesTickets'
  <2> SUFFICES ASSUME NEW u \in Tickets
               PROVE  /\ scans[u]["success"] = (IF status'[u] = "checked_in" THEN 1 ELSE 0)
                                     + Cardinality(Entering(u)') + torn[u]
                      /\ scans[u]["already_scanned"] > 0 => status'[u] = "checked_in"
                      /\ scans[u]["cancelled"] > 0 => status'[u] = "refunded"
    BY DEF TrailMatchesTickets
  <2>1. /\ scans[u]["success"] = (IF status[u] = "checked_in" THEN 1 ELSE 0)
                                     + Cardinality(Entering(u)) + torn[u]
        /\ scans[u]["already_scanned"] > 0 => status[u] = "checked_in"
        /\ scans[u]["cancelled"] > 0 => status[u] = "refunded"
    BY DEF GateInv, GateBooksAddUp, TrailMatchesTickets
  <2>2. CASE u = t
    <3>1. Cardinality({}) = 0 /\ Cardinality({h}) = 1
      BY FS_EmptySet, FS_Singleton
    <3>2. Cardinality(Entering(u)) = (IF j.k = "checkin" THEN 1 ELSE 0) /\ Cardinality(Entering(u)') = 0
      BY <1>10, <2>2, <3>1
    <3> QED BY <1>2, <1>4, <2>1, <2>2, <3>2
  <2>3. CASE u # t
    BY <1>4, <1>10, <2>1, <2>3
  <2> QED BY <2>2, <2>3
<1> QED BY <1>2, <1>7, <1>8, <1>9, <1>11 DEF GateInv, GateBooksAddUp

\* A failure undoes everything but the row; it counts as torn when it was the
\* row of a check-in about to commit.
LEMMA FailGateInv ==
    ASSUME GateInv, NEW h \in Handlers, Fail(h)
    PROVE  GateInv'
<1>0. PICK j, t : j = request[h] /\ t = request[h].t
  OBVIOUS
<1>1. /\ j.at # "idle" /\ failures < MaxFaults /\ failures' = failures + 1 /\ Closes(h)
      /\ torn' = IF Enters(j) THEN [torn EXCEPT ![t] = @ + 1] ELSE torn
      /\ UNCHANGED <<docVars, scans, asked, admitted>>
  BY <1>0 DEF Fail, Enters
<1>2. t \in Tickets /\ torn \in [Tickets -> Nat] /\ failures' \in 0..MaxFaults
  BY <1>0, <1>1, BoundsAssumption DEF GateInv, GateTypeOK
<1>3. /\ torn' \in [Tickets -> Nat]
      /\ \A u \in Tickets : torn'[u] = torn[u] + IF Enters(j) /\ u = t THEN 1 ELSE 0
  BY <1>1, <1>2
<1>4. Requests' /\ stale' \in [Handlers -> SUBSET Docs]
  BY <1>1, ClosesRequests DEF GateInv, GateTypeOK
<1>5. GateTypeOK'
  BY <1>1, <1>2, <1>3, <1>4, TypesKept DEF GateInv, GateTypeOK
<1>6. AdmittedOnce' /\ RefundsAddUp'
  BY <1>1 DEF GateInv, AdmittedOnce, GateBooksAddUp, RefundsAddUp, RefundedOf, docVars
<1>7. request' = [request EXCEPT ![h] = NoRequest] /\ ~Enters(NoRequest)
  BY <1>1, NoRequestShape DEF Closes, Enters
<1>8. CASE ~Enters(j)
  <2>1. \A u \in Tickets : Entering(u)' = Entering(u)
    BY <1>0, <1>7, <1>8, EnteringKept DEF GateInv, Requests
  <2>2. UNCHANGED histVars
    BY <1>1, <1>8 DEF histVars
  <2> QED BY <1>1, <1>4, <1>5, <2>1, <2>2, BooksKept DEF GateInv
<1>9. CASE Enters(j)
  <2>1. /\ Entering(t) = {h} /\ Entering(t)' = {}
        /\ \A u \in Tickets : u # t => Entering(u)' = Entering(u)
    <3>1. Entering(t) = {h}
      BY <1>0, <1>9, EnteringOne DEF GateInv, HasTicket, Enters
    <3>2. request'[h] = NoRequest /\ \A g \in Handlers : g # h => request'[g] = request[g]
      BY <1>7 DEF GateInv, Requests
    <3> QED BY <1>0, <3>1, <3>2, NoRequestShape DEF Entering
  <2>2. TrailMatchesTickets'
    <3> SUFFICES ASSUME NEW u \in Tickets
                 PROVE  /\ scans[u]["success"] = (IF status[u] = "checked_in" THEN 1 ELSE 0)
                                       + Cardinality(Entering(u)') + torn'[u]
                        /\ scans[u]["already_scanned"] > 0 => status[u] = "checked_in"
                        /\ scans[u]["cancelled"] > 0 => status[u] = "refunded"
      BY <1>1 DEF TrailMatchesTickets, docVars
    <3>1. /\ scans[u]["success"] = (IF status[u] = "checked_in" THEN 1 ELSE 0)
                                     + Cardinality(Entering(u)) + torn[u]
          /\ scans[u]["already_scanned"] > 0 => status[u] = "checked_in"
          /\ scans[u]["cancelled"] > 0 => status[u] = "refunded"
      BY DEF GateInv, GateBooksAddUp, TrailMatchesTickets
    <3>2. Cardinality({}) = 0 /\ Cardinality({h}) = 1
      BY FS_EmptySet, FS_Singleton
    <3>3. CASE u = t
      <4>1. Cardinality(Entering(u)) = 1 /\ Cardinality(Entering(u)') = 0
        BY <2>1, <3>2, <3>3
      <4> QED BY <1>2, <1>3, <1>9, <3>1, <3>3, <4>1
    <3>4. CASE u # t
      BY <1>2, <1>3, <2>1, <3>1, <3>4
    <3> QED BY <3>3, <3>4
  <2> QED BY <1>4, <1>5, <1>6, <2>2 DEF GateInv, GateBooksAddUp
<1> QED BY <1>8, <1>9

LEMMA TouchGateInv ==
    ASSUME GateInv, NEW d \in Docs, Touch(d)
    PROVE  GateInv'
<1>1. stale' = Dirty({d}, {}) /\ UNCHANGED <<docVars, scans, request, countVars, histVars>>
  BY DEF Touch
<1>2. /\ stale' \in [Handlers -> SUBSET Docs]
      /\ \A g \in Handlers : stale[g] \subseteq stale'[g]
  <2>1. stale \in [Handlers -> SUBSET Docs]
    BY DEF GateInv, GateTypeOK
  <2> QED BY <1>1, <2>1 DEF Dirty
<1>3. \A g \in Handlers : Current(request[g], stale[g])'
  <2> SUFFICES ASSUME NEW g \in Handlers PROVE Current(request[g], stale[g])'
    OBVIOUS
  <2>1. Current(request[g], stale[g]) /\ stale[g] \subseteq stale'[g] /\ request' = request
    BY <1>1, <1>2 DEF GateInv, Requests
  <2>2. /\ SeesTicket(request[g], stale'[g]) => SeesTicket(request[g], stale[g])
        /\ SeesSale(request[g], stale'[g]) => SeesSale(request[g], stale[g])
    BY <2>1 DEF SeesTicket, SeesSale
  <2> QED BY <1>1, <2>1, <2>2 DEF Current, docVars
<1>4. Requests'
  BY <1>1, <1>3 DEF GateInv, Requests, Apart, Shape, Excludes
<1>5. GateTypeOK'
  BY <1>1, <1>2, <1>4, TypesKept DEF GateInv, GateTypeOK, countVars, histVars
<1>6. \A u \in Tickets : Entering(u)' = Entering(u)
  BY <1>1 DEF Entering
<1> QED BY <1>1, <1>4, <1>5, <1>6, BooksKept DEF GateInv

LEMMA InitGateInv == GateInit => GateInv
<1> SUFFICES ASSUME GateInit PROVE GateInv
  OBVIOUS
<1>1. NoRequest \in GateRequest
  BY NoRequestShape DEF Shape
<1>2. GateTypeOK
  BY <1>1, NoRequestShape, BoundsAssumption DEF GateInit, GateTypeOK, Status
<1>3. \A h \in Handlers : request[h] = NoRequest
  BY DEF GateInit
<1>4. Requests
  BY <1>2, <1>3, NoRequestShape DEF Requests, GateTypeOK, Current, SeesTicket, SeesSale, Apart, Excludes
<1>5. Cardinality({}) = 0
  BY FS_EmptySet
<1>6. RefundsAddUp
  <2>1. \A s \in Sales : RefundedOf(s) = {}
    BY DEF GateInit, RefundedOf
  <2> QED BY <1>5, <2>1 DEF GateInit, RefundsAddUp
<1>7. TrailMatchesTickets
  <2>1. \A t \in Tickets : Entering(t) = {}
    BY <1>3, NoRequestShape DEF Entering
  <2>2. \A t \in Tickets : /\ scans[t]["success"] = 0
                          /\ scans[t]["already_scanned"] = 0
                          /\ scans[t]["cancelled"] = 0
                          /\ status[t] = "sold" /\ torn[t] = 0
    BY DEF GateInit, Results
  <2>3. \A t \in Tickets : Cardinality(Entering(t)) = 0
    BY <1>5, <2>1
  <2> SUFFICES ASSUME NEW t \in Tickets
               PROVE  /\ scans[t]["success"] = (IF status[t] = "checked_in" THEN 1 ELSE 0)
                                     + Cardinality(Entering(t)) + torn[t]
                      /\ scans[t]["already_scanned"] > 0 => status[t] = "checked_in"
                      /\ scans[t]["cancelled"] > 0 => status[t] = "refunded"
    BY DEF TrailMatchesTickets
  <2>4. status[t] # "checked_in" /\ (IF status[t] = "checked_in" THEN 1 ELSE 0) = 0
    BY <2>2
  <2>5. ~(0 > 0) /\ 0 = 0 + 0 + 0
    OBVIOUS
  <2> QED BY <2>2, <2>3, <2>4, <2>5
<1>8. AdmittedOnce
  <2>1. \A t \in Tickets : admitted[t] = 0 /\ status[t] = "sold"
    BY DEF GateInit
  <2>2. 0 <= 0
    OBVIOUS
  <2> QED BY <2>1, <2>2 DEF AdmittedOnce
<1> QED BY <1>2, <1>4, <1>6, <1>7, <1>8 DEF GateInv, GateBooksAddUp

LEMMA ServeGateInv ==
    ASSUME GateInv, NEW h \in Handlers, Serve(h)
    PROVE  GateInv'
<1>1. CASE SaveTicket(h)
  BY <1>1, SavesGateInv DEF SaveTicket
<1>2. CASE SaveSale(h)
  BY <1>2, SavesGateInv DEF SaveSale
<1>3. CASE SaveEvent(h)
  BY <1>3, SavesGateInv DEF SaveEvent
<1>4. CASE Commit(h)
  <2>1. failures' \in 0..MaxFaults
    BY <1>4 DEF Commit, countVars, GateInv, GateTypeOK
  <2> QED BY <1>4, <2>1, CommitsGateInv DEF Commit, countVars
<1>5. CASE CommitUnheard(h)
  <2>1. failures' \in 0..MaxFaults
    BY <1>5, BoundsAssumption DEF CommitUnheard, GateInv, GateTypeOK
  <2> QED BY <1>5, <2>1, CommitsGateInv DEF CommitUnheard, histVars
<1> QED BY <1>1, <1>2, <1>3, <1>4, <1>5, RefuseGateInv, WriteScanGateInv, AbortGateInv, FailGateInv DEF Serve

LEMMA NextGateInv == GateInv /\ [GateNext]_gateVars => GateInv'
<1> SUFFICES ASSUME GateInv, [GateNext]_gateVars PROVE GateInv'
  OBVIOUS
<1>1. ASSUME NEW h \in Handlers, NEW t \in Tickets, NEW ours \in BOOLEAN,
             checkInTicket(h, t, ours)
      PROVE  GateInv'
  BY <1>1, CheckInGateInv
<1>2. ASSUME NEW h \in Handlers, NEW t \in Tickets, refundTicket(h, t) PROVE GateInv'
  BY <1>2, RefundGateInv
<1>3. ASSUME NEW h \in Handlers, Serve(h) PROVE GateInv'
  BY <1>3, ServeGateInv
<1>4. ASSUME NEW d \in Docs, Touch(d) PROVE GateInv'
  BY <1>4, TouchGateInv
<1>5. CASE UNCHANGED gateVars
  <2>1. /\ UNCHANGED <<status, refunded, scans, request, stale>>
        /\ UNCHANGED <<asked, failures, admitted, torn>>
    BY <1>5 DEF gateVars, docVars, countVars, histVars
  <2>2. Requests'
    BY <2>1 DEF GateInv, Requests, Apart, Shape, Excludes, Current
  <2>3. GateTypeOK'
    BY <2>1, <2>2, TypesKept DEF GateInv, GateTypeOK, docVars
  <2>4. \A u \in Tickets : Entering(u)' = Entering(u)
    BY <2>1 DEF Entering
  <2> QED BY <2>1, <2>2, <2>3, <2>4, BooksKept DEF GateInv, docVars, histVars
<1> QED BY <1>1, <1>2, <1>3, <1>4, <1>5 DEF GateNext

(* The types, what each request has read, and the books of the gate hold   *)
(* throughout every behaviour of the gate and of the refund desk.          *)
THEOREM GateInvariance == GateSpec => []GateInv
BY InitGateInv, NextGateInv, PTL DEF GateSpec

(* Tickets, sales, rows, requests and snapshots keep their types.          *)
THEOREM GateTypeCorrect == GateSpec => []GateTypeOK
<1>1. GateInv => GateTypeOK
  BY DEF GateInv
<1> QED BY <1>1, GateInvariance, PTL

(* However many gates and refund desks overlap on a ticket, it lets one    *)
(* person in at most, and nobody after its money was given back.           *)
THEOREM LetInOnce == GateSpec => []AdmittedOnce
<1>1. GateInv => AdmittedOnce
  BY DEF GateInv
<1> QED BY <1>1, GateInvariance, PTL

(* The refunds counted on a sale are its refunded tickets, though each     *)
(* refund writes the figure it has read; and the trail of the gate tells   *)
(* what became of the tickets, though its rows are in no transaction.      *)
THEOREM GateBooksKept == GateSpec => []GateBooksAddUp
<1>1. GateInv => GateBooksAddUp
  BY DEF GateInv
<1> QED BY <1>1, GateInvariance, PTL

-----------------------------------------------------------------------------
(* The transactions implement TicketFate.                                  *)

LEMMA InitImplements == GateInit => Fate!Init
BY DEF GateInit, Fate!Init

\* What the commit finds is what it has read, so the figure it writes is right.
LEMMA CommitsImplement ==
    ASSUME GateInv, NEW h \in Handlers, request[h].at = "commit", Commits(h),
           Admits(h) \/ UNCHANGED admitted
    PROVE  Fate!Next
<1>0. PICK j, t : j = request[h] /\ t = request[h].t
  OBVIOUS
<1>1. /\ status[t] = "sold" /\ t \in Tickets /\ j.k \in {"checkin", "refund"}
      /\ j.k = "refund" => refunded[SaleOf[t]] = j.quantity
  BY <1>0, CommitsRequests
<1>2. /\ status' = [status EXCEPT ![t] = IF j.k = "checkin" THEN "checked_in" ELSE "refunded"]
      /\ refunded' = IF j.k = "refund" THEN [refunded EXCEPT ![SaleOf[t]] = j.quantity + 1]
                     ELSE refunded
  BY <1>0 DEF Commits
<1>3. \/ admitted' = admitted
      \/ j.k = "checkin" /\ admitted' = [admitted EXCEPT ![t] = @ + 1]
  BY <1>0 DEF Admits
<1>4. CASE j.k = "checkin"
  <2>1. \E heard \in BOOLEAN : Fate!CheckIn(t, heard)
    BY <1>1, <1>2, <1>3, <1>4 DEF Fate!CheckIn
  <2> QED BY <1>1, <2>1 DEF Fate!Next
<1>5. CASE j.k = "refund"
  <2>1. Fate!Refund(t)
    BY <1>1, <1>2, <1>3, <1>5 DEF Fate!Refund
  <2> QED BY <1>1, <2>1 DEF Fate!Next
<1> QED BY <1>1, <1>4, <1>5

LEMMA NextImplements ==
    GateInv /\ [GateNext]_gateVars => [Fate!Next]_<<status, refunded, admitted>>
<1> SUFFICES ASSUME GateInv, [GateNext]_gateVars, ~UNCHANGED <<status, refunded, admitted>>
             PROVE  Fate!Next
  OBVIOUS
<1>1. ASSUME NEW h \in Handlers, Serve(h) PROVE Fate!Next
  <2>1. CASE Commit(h)
    BY <2>1, CommitsImplement DEF Commit
  <2>2. CASE CommitUnheard(h)
    BY <2>2, CommitsImplement DEF CommitUnheard, histVars
  <2>3. Refuse(h) \/ WriteScan(h) \/ Abort(h) \/ Fail(h) => UNCHANGED <<status, refunded, admitted>>
    BY DEF Refuse, WriteScan, Abort, Fail, docVars, histVars
  <2>4. SaveTicket(h) \/ SaveSale(h) \/ SaveEvent(h) => UNCHANGED <<status, refunded, admitted>>
    BY DEF SaveTicket, SaveSale, SaveEvent, docVars, histVars
  <2> QED BY <1>1, <2>1, <2>2, <2>3, <2>4 DEF Serve
<1>2. ASSUME NEW h \in Handlers, NEW t \in Tickets PROVE ~refundTicket(h, t)
  BY DEF refundTicket, Opens, docVars, histVars
<1>3. ASSUME NEW h \in Handlers, NEW t \in Tickets, NEW ours \in BOOLEAN
      PROVE  ~checkInTicket(h, t, ours)
  BY DEF checkInTicket, Opens, docVars, histVars
<1>4. ASSUME NEW d \in Docs PROVE ~Touch(d)
  BY DEF Touch, docVars, histVars
<1>5. ~UNCHANGED gateVars
  BY DEF gateVars, docVars, histVars
<1> QED BY <1>1, <1>2, <1>3, <1>4, <1>5 DEF GateNext

(* Every transaction of the gate and of the refund desk, whose writes lie  *)
(* between those of others, comes to a step of TicketFate at its commit,   *)
(* and everything else it does to none.                                    *)
THEOREM GateImplementsFate == GateSpec => FateIsSettledOnce
<1>1. GateInit => Fate!Init
  BY InitImplements
<1>2. GateInv /\ [GateNext]_gateVars => [Fate!Next]_<<status, refunded, admitted>>
  BY NextImplements
<1> QED BY <1>1, <1>2, GateInvariance, PTL DEF GateSpec, FateIsSettledOnce, Fate!Spec
=============================================================================
