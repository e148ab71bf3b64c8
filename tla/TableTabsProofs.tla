--------------------------- MODULE TableTabsProofs ---------------------------
(***************************************************************************)
(* Proofs about TableTabs, for any tables, stalls, lines, tags, requests   *)
(* and handlers: what a handheld is told about a settlement, what is on    *)
(* the shelf, and that tabs, charges, journal and wallets tell the same    *)
(* money.  The library's sum is known only by the recursive function it is *)
(* defined with, so its laws are proved here from that function.           *)
(***************************************************************************)
EXTENDS TableTabs, FiniteSetTheorems, WellFoundedInduction, TLAPS

-----------------------------------------------------------------------------
(* The inductive invariant.                                                *)

Shapes ==
    /\ tab \in [Tables -> Tab]
    /\ line \in [Lines -> Line]
    /\ stock \in [Stalls -> Int]
    /\ band \in [Wallets -> Tags \cup {None}]
    /\ job \in [Handlers -> Job]

\* Only a settled tab names a settlement, and it names its wallet; the lines on
\* a tab are some stall's.
TabOK(x) ==
    /\ tab[x].status = "settled" => tab[x].walletId \in Wallets
    /\ tab[x].status # "settled" => tab[x].settleTxnId = None
    /\ \A l \in tab[x].items : line[l].stall \in Stalls

\* No line is on two tabs.
LinesApart ==
    \A x, y \in Tables : x # y => tab[x].items \cap tab[y].items = {}

\* The tab of h is settled under its id.
Committed(h) == tab[job[h].r.x].settleTxnId = job[h].r.id

JobOK(h) ==
    /\ job[h].at = "idle" => job[h].ans = "none"
    /\ job[h].at # "idle" => job[h].r \in Requests /\ Wearers(job[h].r.u) \subseteq job[h].wore
    /\ job[h].at \in {"sent", "priced", "tapped"} => job[h].ans = "none"
    /\ job[h].at \in {"priced", "tapped"} /\ Committed(h) => job[h].raced
    /\ job[h].at = "tapped" => job[h].tapped \in job[h].wore
    /\ job[h].ans = "ok" =>
         /\ Committed(h) /\ tab[job[h].r.x].status = "settled"
         /\ tab[job[h].r.x].walletId \in job[h].wore
    /\ job[h].ans \in Answers \ {"none", "ok", "mismatch"} /\ Committed(h) => job[h].raced

IInv ==
    /\ Shapes
    /\ \A x \in Tables : TabOK(x)
    /\ LinesApart /\ ShelfAddsUp
    /\ \A h \in Handlers : JobOK(h)

\* The lines on the tabs.
OnTabs == UNION {tab[x].items : x \in Tables}

-----------------------------------------------------------------------------
(* Initial states.                                                         *)

LEMMA InitIInv == Init => IInv
<1> SUFFICES ASSUME Init PROVE IInv
  OBVIOUS
<1>1. NoTab \in Tab /\ NoLine \in Line /\ Idle \in Job
  BY DEF NoTab, Tab, NoLine, Line, Idle, Job, Statuses, Answers
<1>2. Shapes
  BY <1>1, BoundsAssumption DEF Init, Shapes
<1>3. \A x \in Tables : TabOK(x)
  BY DEF Init, TabOK, NoTab
<1>4. LinesApart
  BY DEF Init, LinesApart, NoTab
<1>5. ShelfAddsUp
  <2> SUFFICES ASSUME NEW s \in Stalls
               PROVE  stock[s] = Shelf - Cardinality(At(OnTabs, s))
    BY DEF ShelfAddsUp, OnTabs
  <2>1. OnTabs = {}
    BY DEF Init, NoTab, OnTabs
  <2>2. At(OnTabs, s) = {}
    BY <2>1 DEF At
  <2>3. Cardinality(At(OnTabs, s)) = 0
    BY <2>2, FS_EmptySet
  <2>4. stock[s] = Shelf /\ Shelf \in Int
    BY BoundsAssumption DEF Init
  <2> QED BY <2>3, <2>4
<1>6. \A h \in Handlers : JobOK(h)
  <2>1. \A h \in Handlers : job[h].at = "idle" /\ job[h].ans = "none"
    BY DEF Init, Idle
  <2> QED BY <2>1 DEF JobOK
<1> QED BY <1>2, <1>3, <1>4, <1>5, <1>6 DEF IInv

-----------------------------------------------------------------------------
(* The waiters.                                                            *)

\* A job stays right while no tab is settled and no tag is moved.
LEMMA JobsKept ==
    ASSUME \A h \in Handlers : JobOK(h), Shapes,
           \A x \in Tables : /\ tab'[x].settleTxnId = tab[x].settleTxnId
                             /\ tab[x].status = "settled" =>
                                  /\ tab'[x].status = "settled"
                                  /\ tab'[x].walletId = tab[x].walletId,
           UNCHANGED <<band, job>>
    PROVE  \A h \in Handlers : JobOK(h)'
<1> SUFFICES ASSUME NEW h \in Handlers PROVE JobOK(h)'
  OBVIOUS
<1>1. CASE job[h].at = "idle"
  BY <1>1 DEF JobOK, Answers
<1>2. CASE job[h].at # "idle"
  <2>1. job[h].r.x \in Tables
    BY <1>2, RequestsAssumption DEF JobOK
  <2>2. Committed(h)' = Committed(h) /\ Wearers(job[h].r.u)' = Wearers(job[h].r.u)
    BY <2>1 DEF Committed, Wearers
  <2> QED BY <1>2, <2>1, <2>2 DEF JobOK
<1> QED BY <1>1, <1>2

\* The status of a tab changes and nothing on it.
LEMMA StatusIInv ==
    ASSUME IInv, NEW x \in Tables, openTable(x) \/ voidTable(x)
    PROVE  IInv'
<1>1. PICK st \in {"open", "voided"} :
         /\ tab[x].status \in {"none", "open"}
         /\ tab' = [tab EXCEPT ![x].status = st]
  BY DEF openTable, voidTable
<1>2. UNCHANGED <<line, stock, band, job>>
  BY DEF openTable, voidTable
<1>3. \A y \in Tables : /\ tab[y] \in Tab /\ tab'[y] \in Tab
                        /\ tab'[y].items = tab[y].items
                        /\ tab'[y].settleTxnId = tab[y].settleTxnId
                        /\ tab'[y].walletId = tab[y].walletId
                        /\ tab'[y].status = IF y = x THEN st ELSE tab[y].status
  BY <1>1 DEF IInv, Shapes, Tab, Statuses
<1>4. Shapes'
  BY <1>1, <1>2, <1>3 DEF IInv, Shapes
<1>5. \A y \in Tables : TabOK(y)'
  BY <1>1, <1>2, <1>3 DEF IInv, TabOK
<1>6. LinesApart' /\ ShelfAddsUp'
  <2>1. {tab'[y].items : y \in Tables} = {tab[y].items : y \in Tables}
    BY <1>3
  <2> QED BY <1>2, <1>3, <2>1 DEF IInv, LinesApart, ShelfAddsUp, At
<1>7. \A h \in Handlers : JobOK(h)'
  BY <1>1, <1>2, <1>3, JobsKept DEF IInv
<1> QED BY <1>4, <1>5, <1>6, <1>7 DEF IInv

\* A line is put on a tab: it was on none, and it leaves the shelf.
LEMMA AddIInv ==
    ASSUME IInv, NEW x \in Tables, NEW l \in Lines, NEW s \in Stalls, NEW p \in Prices,
           addItem(x, l, s, p)
    PROVE  IInv'
<1>1. /\ tab' = [tab EXCEPT ![x].items = @ \cup {l}, ![x].subtotal = @ + p, ![x].revision = @ + 1]
      /\ line' = [line EXCEPT ![l] = [stall |-> s, price |-> p]]
      /\ stock' = [stock EXCEPT ![s] = @ - 1]
      /\ Fresh(l) /\ UNCHANGED <<band, job>> /\ tab[x].status = "open"
  BY DEF addItem
<1>2. \A y \in Tables : /\ tab[y] \in Tab /\ tab'[y] \in Tab
                        /\ tab'[y].items = IF y = x THEN tab[x].items \cup {l} ELSE tab[y].items
                        /\ tab'[y].settleTxnId = tab[y].settleTxnId
                        /\ tab'[y].walletId = tab[y].walletId
                        /\ tab'[y].status = tab[y].status
  <2> SUFFICES ASSUME NEW y \in Tables
               PROVE  /\ tab[y] \in Tab /\ tab'[y] \in Tab
                      /\ tab'[y].items = IF y = x THEN tab[x].items \cup {l} ELSE tab[y].items
                      /\ tab'[y].settleTxnId = tab[y].settleTxnId
                      /\ tab'[y].walletId = tab[y].walletId
                      /\ tab'[y].status = tab[y].status
    OBVIOUS
  <2>1. tab[y] \in Tab /\ p \in Int
    BY PricesAssumption DEF IInv, Shapes
  <2>2. CASE y = x
    BY <1>1, <2>1, <2>2 DEF IInv, Shapes, Tab
  <2>3. CASE y # x
    BY <1>1, <2>1, <2>3 DEF IInv, Shapes
  <2> QED BY <2>1, <2>2, <2>3
<1>3. \A m \in Lines : line'[m] = IF m = l THEN [stall |-> s, price |-> p] ELSE line[m]
  BY <1>1 DEF IInv, Shapes
<1>4. Shapes'
  <2>1. [stall |-> s, price |-> p] \in Line
    BY DEF Line
  <2>2. stock' \in [Stalls -> Int]
    BY <1>1 DEF IInv, Shapes
  <2>3. tab' \in [Tables -> Tab]
    BY <1>1, <1>2 DEF IInv, Shapes
  <2>4. line' \in [Lines -> Line]
    BY <1>1, <2>1 DEF IInv, Shapes
  <2> QED BY <1>1, <2>2, <2>3, <2>4 DEF IInv, Shapes
<1>5. \A y \in Tables : TabOK(y)'
  <2> SUFFICES ASSUME NEW y \in Tables PROVE TabOK(y)'
    OBVIOUS
  <2>1. TabOK(y) /\ TabOK(x) /\ tab[y].items \subseteq Lines /\ tab[x].items \subseteq Lines
    BY DEF IInv, Shapes, Tab
  <2>2. \A m \in tab'[y].items : line'[m].stall \in Stalls
    BY <1>2, <1>3, <2>1 DEF TabOK
  <2> QED BY <1>2, <2>1, <2>2 DEF TabOK
<1>6. LinesApart'
  <2>1. LinesApart /\ \A y \in Tables : l \notin tab[y].items
    BY <1>1 DEF IInv, Fresh
  <2> QED BY <1>2, <2>1 DEF LinesApart
<1>7. ShelfAddsUp'
  <2>1. /\ OnTabs \subseteq Lines /\ l \notin OnTabs /\ OnTabs' = OnTabs \cup {l}
        /\ IsFiniteSet(Lines)
    BY <1>1, <1>2, PricesAssumption DEF OnTabs, IInv, Shapes, Tab, Fresh
  <2> SUFFICES ASSUME NEW z \in Stalls
               PROVE  stock'[z] = Shelf - Cardinality(At(OnTabs, z)')
    BY DEF ShelfAddsUp, OnTabs
  <2>2. /\ stock[z] = Shelf - Cardinality(At(OnTabs, z))
        /\ stock[z] \in Int /\ Shelf \in Int
    BY BoundsAssumption DEF IInv, Shapes, ShelfAddsUp, OnTabs
  <2>3. IsFiniteSet(At(OnTabs, z)) /\ l \notin At(OnTabs, z)
    BY <2>1, FS_Subset DEF At
  <2>4. CASE z = s
    <3>1. At(OnTabs, z)' = At(OnTabs, z) \cup {l}
      BY <1>3, <2>1, <2>4 DEF At
    <3>2. /\ Cardinality(At(OnTabs, z) \cup {l}) = Cardinality(At(OnTabs, z)) + 1
          /\ Cardinality(At(OnTabs, z)) \in Nat
      BY <2>3, FS_AddElement, FS_CardinalityType
    <3>3. stock'[z] = stock[z] - 1
      BY <1>1, <2>4 DEF IInv, Shapes
    <3> QED BY <2>2, <3>1, <3>2, <3>3
  <2>5. CASE z # s
    <3>1. At(OnTabs, z)' = At(OnTabs, z)
      BY <1>3, <2>1, <2>5 DEF At
    <3>2. stock'[z] = stock[z]
      BY <1>1, <2>5 DEF IInv, Shapes
    <3> QED BY <2>2, <3>1, <3>2
  <2> QED BY <2>4, <2>5
<1>8. \A h \in Handlers : JobOK(h)'
  BY <1>1, <1>2, JobsKept DEF IInv
<1> QED BY <1>4, <1>5, <1>6, <1>7, <1>8 DEF IInv

\* A line is taken off its tab and comes back to its own stall's shelf.
LEMMA RemoveIInv ==
    ASSUME IInv, NEW x \in Tables, NEW l \in Lines, removeItem(x, l)
    PROVE  IInv'
<1>1. /\ tab' = [tab EXCEPT ![x].items = @ \ {l}, ![x].subtotal = @ - line[l].price,
                            ![x].revision = @ + 1]
      /\ stock' = [stock EXCEPT ![line[l].stall] = @ + 1]
      /\ l \in tab[x].items /\ UNCHANGED <<line, band, job>> /\ tab[x].status = "open"
  BY DEF removeItem
<1>2. line[l].stall \in Stalls /\ line[l].price \in Int
  BY <1>1, PricesAssumption DEF IInv, TabOK, Shapes, Line
<1>3. \A y \in Tables : /\ tab[y] \in Tab /\ tab'[y] \in Tab
                        /\ tab'[y].items = IF y = x THEN tab[x].items \ {l} ELSE tab[y].items
                        /\ tab'[y].settleTxnId = tab[y].settleTxnId
                        /\ tab'[y].walletId = tab[y].walletId
                        /\ tab'[y].status = tab[y].status
  <2> SUFFICES ASSUME NEW y \in Tables
               PROVE  /\ tab[y] \in Tab /\ tab'[y] \in Tab
                      /\ tab'[y].items = IF y = x THEN tab[x].items \ {l} ELSE tab[y].items
                      /\ tab'[y].settleTxnId = tab[y].settleTxnId
                      /\ tab'[y].walletId = tab[y].walletId
                      /\ tab'[y].status = tab[y].status
    OBVIOUS
  <2>1. tab[y] \in Tab
    BY DEF IInv, Shapes
  <2>2. CASE y = x
    BY <1>1, <1>2, <2>1, <2>2 DEF IInv, Shapes, Tab
  <2>3. CASE y # x
    BY <1>1, <2>1, <2>3 DEF IInv, Shapes
  <2> QED BY <2>1, <2>2, <2>3
<1>4. Shapes'
  <2>1. stock' \in [Stalls -> Int]
    BY <1>1, <1>2 DEF IInv, Shapes
  <2>2. tab' \in [Tables -> Tab]
    BY <1>1, <1>3 DEF IInv, Shapes
  <2> QED BY <1>1, <2>1, <2>2 DEF IInv, Shapes
<1>5. \A y \in Tables : TabOK(y)'
  <2> SUFFICES ASSUME NEW y \in Tables PROVE TabOK(y)'
    OBVIOUS
  <2>1. TabOK(y) /\ tab'[y].items \subseteq tab[y].items
    BY <1>3 DEF IInv
  <2>2. line' = line
    BY <1>1
  <2> QED BY <1>3, <2>1, <2>2 DEF TabOK
<1>6. LinesApart'
  BY <1>3 DEF IInv, LinesApart
<1>7. ShelfAddsUp'
  <2>1. l \in OnTabs /\ OnTabs' = OnTabs \ {l} /\ OnTabs \subseteq Lines /\ IsFiniteSet(Lines)
    BY <1>1, <1>3, PricesAssumption DEF OnTabs, IInv, Shapes, Tab, LinesApart
  <2> SUFFICES ASSUME NEW z \in Stalls
               PROVE  stock'[z] = Shelf - Cardinality(At(OnTabs, z)')
    BY DEF ShelfAddsUp, OnTabs
  <2>2. /\ stock[z] = Shelf - Cardinality(At(OnTabs, z))
        /\ stock[z] \in Int /\ Shelf \in Int
    BY BoundsAssumption DEF IInv, Shapes, ShelfAddsUp, OnTabs
  <2>3. IsFiniteSet(At(OnTabs, z))
    BY <2>1, FS_Subset DEF At
  <2>4. CASE z = line[l].stall
    <3>1. At(OnTabs, z)' = At(OnTabs, z) \ {l} /\ l \in At(OnTabs, z)
      BY <1>1, <2>1, <2>4 DEF At
    <3>2. /\ Cardinality(At(OnTabs, z) \ {l}) = Cardinality(At(OnTabs, z)) - 1
          /\ Cardinality(At(OnTabs, z)) \in Nat
      BY <2>3, <3>1, FS_RemoveElement, FS_CardinalityType
    <3>3. stock'[z] = stock[z] + 1
      BY <1>1, <2>4 DEF IInv, Shapes
    <3> QED BY <2>2, <3>1, <3>2, <3>3
  <2>5. CASE z # line[l].stall
    <3>1. At(OnTabs, z)' = At(OnTabs, z)
      BY <1>1, <2>1, <2>5 DEF At
    <3>2. stock'[z] = stock[z]
      BY <1>1, <1>2, <2>5 DEF IInv, Shapes
    <3> QED BY <2>2, <3>1, <3>2
  <2> QED BY <2>4, <2>5
<1>8. \A h \in Handlers : JobOK(h)'
  BY <1>1, <1>3, JobsKept DEF IInv
<1> QED BY <1>4, <1>5, <1>6, <1>7, <1>8 DEF IInv

-----------------------------------------------------------------------------
(* Elsewhere, and the settlements.                                         *)

\* Steps that change neither a tab nor the shelf.
LEMMA FloorKept ==
    ASSUME IInv, UNCHANGED <<tab, line, stock>>
    PROVE  (\A x \in Tables : TabOK(x)') /\ LinesApart' /\ ShelfAddsUp'
BY DEF IInv, TabOK, LinesApart, ShelfAddsUp, At

\* A tag moves: the jobs it was tapped for note the wallet that wears it.
LEMMA RebindIInv ==
    ASSUME IInv, NEW w \in Wallets, NEW u \in Tags \cup {None}, Rebind(w, u)
    PROVE  IInv'
<1>1. /\ band' = [band EXCEPT ![w] = u]
      /\ job' = [h \in Handlers |->
                   IF job[h].at # "idle" /\ job[h].r.u = u
                   THEN [job[h] EXCEPT !.wore = @ \cup {w}] ELSE job[h]]
      /\ UNCHANGED <<tab, line, stock>>
  BY DEF Rebind, floorVars
<1>2. ASSUME NEW h \in Handlers
      PROVE  /\ job'[h] \in Job
             /\ job'[h].at = job[h].at /\ job'[h].r = job[h].r /\ job'[h].ans = job[h].ans
             /\ job'[h].raced = job[h].raced /\ job'[h].tapped = job[h].tapped
             /\ job[h].wore \subseteq job'[h].wore
             /\ job[h].at # "idle" /\ job[h].r.u = u => w \in job'[h].wore
  <2>1. job[h] \in Job
    BY DEF IInv, Shapes
  <2>2. CASE job[h].at # "idle" /\ job[h].r.u = u
    BY <1>1, <2>1, <2>2 DEF Job
  <2>3. CASE ~(job[h].at # "idle" /\ job[h].r.u = u)
    BY <1>1, <2>1, <2>3
  <2> QED BY <2>2, <2>3
<1>3. Shapes'
  BY <1>1, <1>2 DEF IInv, Shapes
<1>4. ASSUME NEW h \in Handlers PROVE JobOK(h)'
  <2>1. Committed(h)' = Committed(h)
    BY <1>1, <1>2 DEF Committed
  <2>2. job[h].at # "idle" => Wearers(job[h].r.u)' \subseteq job'[h].wore
    <3> SUFFICES ASSUME job[h].at # "idle", NEW v \in Wallets, band'[v] = job[h].r.u
                 PROVE  v \in job'[h].wore
      BY <1>2 DEF Wearers
    <3>1. CASE v = w
      <4>1. band'[w] = u
        BY <1>1 DEF IInv, Shapes
      <4> QED BY <1>2, <3>1, <4>1
    <3>2. CASE v # w
      <4>1. v \in Wearers(job[h].r.u)
        BY <1>1, <3>2 DEF IInv, Shapes, Wearers
      <4>2. Wearers(job[h].r.u) \subseteq job[h].wore
        BY DEF IInv, JobOK
      <4> QED BY <1>2, <4>1, <4>2
    <3> QED BY <3>1, <3>2
  <2>3. JobOK(h)
    BY DEF IInv
  <2> QED BY <1>1, <1>2, <2>1, <2>2, <2>3 DEF JobOK
<1> QED BY <1>1, <1>3, <1>4, FloorKept DEF IInv

\* A step of one job that touches nothing else.
LEMMA JobIInv ==
    ASSUME IInv, NEW h \in Handlers, NEW j \in Job,
           job' = [job EXCEPT ![h] = j],
           UNCHANGED <<tab, line, stock, band>>,
           JobOK(h)'
    PROVE  IInv'
<1>1. \A g \in Handlers : job'[g] = IF g = h THEN j ELSE job[g]
  BY DEF IInv, Shapes
<1>2. Shapes'
  BY <1>1 DEF IInv, Shapes
<1>3. ASSUME NEW g \in Handlers, g # h PROVE JobOK(g)'
  <2>1. job'[g] = job[g] /\ JobOK(g) /\ band' = band /\ tab' = tab
    BY <1>1, <1>3 DEF IInv
  <2> QED BY <2>1 DEF JobOK, Committed, Wearers
<1> QED BY <1>2, <1>3, FloorKept DEF IInv

\* What a repeated settlement is told.
LEMMA ReplayTells ==
    ASSUME IInv, NEW h \in Handlers, job[h].at # "idle"
    PROVE  /\ replaySettlement(job[h].r) \in {"refused", "ok", "mismatch"}
           /\ replaySettlement(job[h].r) = "ok" =>
                /\ Committed(h) /\ tab[job[h].r.x].status = "settled"
                /\ tab[job[h].r.x].walletId \in job[h].wore
           /\ replaySettlement(job[h].r) = "refused" => ~Committed(h)
<1> DEFINE t == tab[job[h].r.x]
<1>1. /\ job[h].r.x \in Tables /\ job[h].r.id # None
      /\ Wearers(job[h].r.u) \subseteq job[h].wore
  BY RequestsAssumption DEF IInv, JobOK
<1>2. /\ t.status = "settled" => t.walletId \in Wallets
      /\ t.status # "settled" => t.settleTxnId = None
  BY <1>1 DEF IInv, TabOK
<1>3. t.status = "settled" /\ band[t.walletId] = job[h].r.u => t.walletId \in job[h].wore
  BY <1>1, <1>2 DEF Wearers
<1>4. Committed(h) <=> t.settleTxnId = job[h].r.id
  BY DEF Committed
<1>5. replaySettlement(job[h].r) =
        IF t.status # "settled" \/ t.settleTxnId # job[h].r.id THEN "refused"
        ELSE IF band[t.walletId] = job[h].r.u THEN "ok" ELSE "mismatch"
  BY DEF replaySettlement
<1> HIDE DEF t
<1>6. t = tab[job[h].r.x]
  BY DEF t
<1> QED BY <1>1, <1>2, <1>3, <1>4, <1>5, <1>6

\* An answer that is true of the tab as it is keeps the invariant.
LEMMA AnswerIInv ==
    ASSUME IInv, NEW h \in Handlers, job[h].at \in {"sent", "priced", "tapped"},
           NEW a \in Answers \ {"none"}, Answered(h, a),
           a = "ok" => /\ Committed(h) /\ tab[job[h].r.x].status = "settled"
                       /\ tab[job[h].r.x].walletId \in job[h].wore,
           a \notin {"ok", "mismatch"} /\ Committed(h) => job[h].raced,
           UNCHANGED <<tab, line, stock, band>>
    PROVE  IInv'
<1> DEFINE j == [job[h] EXCEPT !.at = "done", !.ans = a]
<1>1. /\ j \in Job /\ j.at = "done" /\ j.ans = a /\ j.r = job[h].r
      /\ j.wore = job[h].wore /\ j.raced = job[h].raced
  BY DEF IInv, Shapes, Job
<1>2. job' = [job EXCEPT ![h] = j] /\ job'[h] = j
  BY DEF Answered, IInv, Shapes
<1> HIDE DEF j
<1>3. job[h].r \in Requests /\ Wearers(job[h].r.u) \subseteq job[h].wore
  BY DEF IInv, JobOK
<1>4. Committed(h)' = Committed(h) /\ Wearers(job[h].r.u)' = Wearers(job[h].r.u)
  BY <1>1, <1>2 DEF Committed, Wearers
<1>5. JobOK(h)'
  BY <1>1, <1>2, <1>3, <1>4 DEF JobOK, Answers
<1> QED BY <1>1, <1>2, <1>5, JobIInv

\* A request arrives.
LEMMA AskIInv ==
    ASSUME IInv, NEW h \in Handlers, NEW r \in Requests, Ask(h, r)
    PROVE  IInv'
<1> DEFINE j == [Idle EXCEPT !.at = "sent", !.r = r, !.wore = Wearers(r.u)]
<1>0. Idle \in Job /\ Idle.ans = "none"
  BY DEF Idle, Job, NoTab, Tab, Statuses, Answers
<1>1. /\ j \in Job /\ j.at = "sent" /\ j.r = r /\ j.wore = Wearers(r.u) /\ j.ans = "none"
  BY <1>0 DEF Job, Wearers
<1>2. job' = [job EXCEPT ![h] = j] /\ job'[h] = j /\ UNCHANGED <<tab, line, stock, band>>
  BY DEF Ask, floorVars, IInv, Shapes
<1> HIDE DEF j
<1>3. Wearers(r.u)' = Wearers(r.u)
  BY <1>2 DEF Wearers
<1>4. JobOK(h)'
  BY <1>1, <1>2, <1>3 DEF JobOK
<1> QED BY <1>1, <1>2, <1>4, JobIInv

\* The answer is delivered or lost.
LEMMA ReturnIInv ==
    ASSUME IInv, NEW h \in Handlers, Return(h)
    PROVE  IInv'
<1>1. Idle \in Job /\ Idle.at = "idle" /\ Idle.ans = "none"
  BY DEF Idle, Job, NoTab, Tab, Statuses, Answers
<1>2. job' = [job EXCEPT ![h] = Idle] /\ job'[h] = Idle /\ UNCHANGED <<tab, line, stock, band>>
  BY DEF Return, floorVars, IInv, Shapes
<1>3. JobOK(h)'
  BY <1>1, <1>2 DEF JobOK
<1> QED BY <1>1, <1>2, <1>3, JobIInv

\* The tab is read: an open one is not settled under any id.
LEMMA ReadIInv ==
    ASSUME IInv, NEW h \in Handlers, ReadTable(h)
    PROVE  IInv'
<1> DEFINE r == job[h].r
           t == tab[r.x]
<1>1. job[h].at = "sent" /\ UNCHANGED <<tab, line, stock, band>>
  BY DEF ReadTable, floorVars
<1>2. r \in Requests /\ r.x \in Tables /\ r.id # None /\ t \in Tab
  BY <1>1, RequestsAssumption DEF IInv, JobOK, Shapes
<1>3. t.status = "open" => ~Committed(h)
  BY <1>2 DEF IInv, TabOK, Committed
<1>4. CASE t.status # "open" /\ Answered(h, replaySettlement(r))
  BY <1>1, <1>4, ReplayTells, AnswerIInv DEF Answers
<1>5. CASE t.status = "open" /\ Answered(h, "refused")
  BY <1>1, <1>3, <1>5, AnswerIInv DEF Answers
<1>6. CASE t.status = "open" /\ job' = [job EXCEPT ![h].at = "priced", ![h].read = t]
  <2> DEFINE j == [job[h] EXCEPT !.at = "priced", !.read = t]
  <2>1. /\ j \in Job /\ j.at = "priced" /\ j.r = r /\ j.wore = job[h].wore /\ j.ans = job[h].ans
    BY <1>2 DEF IInv, Shapes, Job
  <2>2. job' = [job EXCEPT ![h] = j] /\ job'[h] = j
    BY <1>6 DEF IInv, Shapes
  <2> HIDE DEF j
  <2>3. Wearers(r.u)' = Wearers(r.u) /\ Committed(h)' = Committed(h)
    BY <1>1, <2>1, <2>2 DEF Wearers, Committed
  <2>4. JobOK(h)'
    BY <1>1, <1>2, <1>3, <1>6, <2>1, <2>2, <2>3 DEF IInv, JobOK
  <2> QED BY <1>1, <2>1, <2>2, <2>4, JobIInv
<1> QED BY <1>4, <1>5, <1>6 DEF ReadTable

\* The wallet is found: it wears the tag.
LEMMA TapIInv ==
    ASSUME IInv, NEW h \in Handlers, TapTag(h)
    PROVE  IInv'
<1> DEFINE r == job[h].r
<1>1. job[h].at = "priced" /\ UNCHANGED <<tab, line, stock, band>>
  BY DEF TapTag, floorVars
<1>2. r \in Requests /\ Wearers(r.u) \subseteq job[h].wore /\ (Committed(h) => job[h].raced)
  BY <1>1 DEF IInv, JobOK
<1>3. ASSUME NEW a \in {"notfound", "short"}, Answered(h, a) PROVE IInv'
  BY <1>1, <1>2, <1>3, AnswerIInv DEF Answers
<1>4. ASSUME NEW w \in Wearers(r.u),
             job' = [job EXCEPT ![h].at = "tapped", ![h].tapped = w]
      PROVE  IInv'
  <2> DEFINE j == [job[h] EXCEPT !.at = "tapped", !.tapped = w]
  <2>1. /\ j \in Job /\ j.at = "tapped" /\ j.r = r /\ j.wore = job[h].wore
        /\ j.ans = job[h].ans /\ j.raced = job[h].raced /\ j.tapped = w
    BY <1>4 DEF IInv, Shapes, Job, Wearers
  <2>2. job' = [job EXCEPT ![h] = j] /\ job'[h] = j
    BY <1>4 DEF IInv, Shapes
  <2> HIDE DEF j
  <2>3. Wearers(r.u)' = Wearers(r.u) /\ Committed(h)' = Committed(h)
    BY <1>1, <2>1, <2>2 DEF Wearers, Committed
  <2>4. JobOK(h)'
    BY <1>1, <1>2, <1>4, <2>1, <2>2, <2>3 DEF IInv, JobOK
  <2> QED BY <1>1, <2>1, <2>2, <2>4, JobIInv
<1> QED BY <1>3, <1>4 DEF TapTag

\* The transaction aborts: the tab decides what is answered.
LEMMA AbortIInv ==
    ASSUME IInv, NEW h \in Handlers, Abort(h)
    PROVE  IInv'
<1> DEFINE t == tab[job[h].r.x]
<1>1. job[h].at = "tapped" /\ UNCHANGED <<tab, line, stock, band>>
  BY DEF Abort, floorVars
<1>2. Committed(h) => job[h].raced
  BY <1>1 DEF IInv, JobOK
<1>3. CASE Answered(h, replaySettlement(job[h].r))
  BY <1>1, <1>3, ReplayTells, AnswerIInv DEF Answers
<1>4. ASSUME NEW a \in {"changed", "short", "conflict"}, Answered(h, a) PROVE IInv'
  BY <1>1, <1>2, <1>4, AnswerIInv DEF Answers
<1> QED BY <1>3, <1>4 DEF Abort

\* The transaction commits: the tab was open, so it had told nobody "paid", and
\* whoever serves the same id takes note.
LEMMA SettleIInv ==
    ASSUME IInv, NEW h \in Handlers, Settle(h)
    PROVE  IInv'
<1> DEFINE r == job[h].r
           w == job[h].tapped
<1>1. /\ job[h].at = "tapped" /\ tab[r.x].status = "open"
      /\ tab' = [tab EXCEPT ![r.x].status = "settled", ![r.x].walletId = w,
                            ![r.x].settleTxnId = r.id]
      /\ job' = [g \in Handlers |->
                   IF g = h THEN [job[g] EXCEPT !.at = "done", !.ans = "ok"]
                   ELSE IF job[g].at # "idle" /\ job[g].r.x = r.x /\ job[g].r.id = r.id
                   THEN [job[g] EXCEPT !.raced = TRUE] ELSE job[g]]
      /\ UNCHANGED <<line, stock, band>>
  BY DEF Settle, AsPriced
<1>2. /\ r \in Requests /\ r.x \in Tables /\ r.id \in Ids /\ w \in job[h].wore /\ w \in Wallets
  BY <1>1, RequestsAssumption DEF IInv, JobOK, Shapes, Job, Ids
<1>3. \A y \in Tables : /\ tab'[y] \in Tab
                        /\ tab'[y].items = tab[y].items
                        /\ y # r.x => tab'[y] = tab[y]
                        /\ y = r.x => /\ tab'[y].status = "settled" /\ tab'[y].walletId = w
                                      /\ tab'[y].settleTxnId = r.id
  <2> SUFFICES ASSUME NEW y \in Tables
               PROVE  /\ tab'[y] \in Tab
                      /\ tab'[y].items = tab[y].items
                      /\ y # r.x => tab'[y] = tab[y]
                      /\ y = r.x => /\ tab'[y].status = "settled" /\ tab'[y].walletId = w
                                    /\ tab'[y].settleTxnId = r.id
    OBVIOUS
  <2>1. tab[y] \in Tab
    BY DEF IInv, Shapes
  <2>2. CASE y = r.x
    BY <1>1, <1>2, <2>1, <2>2 DEF IInv, Shapes, Tab, Statuses
  <2>3. CASE y # r.x
    BY <1>1, <2>1, <2>3 DEF IInv, Shapes
  <2> QED BY <2>2, <2>3
<1>4. ASSUME NEW g \in Handlers
      PROVE  /\ job'[g] \in Job /\ job'[g].r = job[g].r /\ job'[g].wore = job[g].wore
             /\ job'[g].tapped = job[g].tapped
             /\ g = h => job'[g].at = "done" /\ job'[g].ans = "ok"
             /\ g # h => job'[g].at = job[g].at /\ job'[g].ans = job[g].ans
             /\ g # h /\ job[g].at # "idle" /\ job[g].r.x = r.x /\ job[g].r.id = r.id
                  => job'[g].raced = TRUE
             /\ g # h /\ job[g].raced => job'[g].raced
  <2>1. job[g] \in Job
    BY DEF IInv, Shapes
  <2>2. CASE g = h
    BY <1>1, <2>1, <2>2 DEF Job, Answers
  <2>3. CASE g # h /\ job[g].at # "idle" /\ job[g].r.x = r.x /\ job[g].r.id = r.id
    BY <1>1, <2>1, <2>3 DEF Job
  <2>4. CASE g # h /\ ~(job[g].at # "idle" /\ job[g].r.x = r.x /\ job[g].r.id = r.id)
    BY <1>1, <2>1, <2>4
  <2> QED BY <2>2, <2>3, <2>4
<1>5. Shapes'
  <2>1. tab' \in [Tables -> Tab]
    BY <1>1, <1>3 DEF IInv, Shapes
  <2>2. job' \in [Handlers -> Job]
    BY <1>1, <1>4
  <2> QED BY <1>1, <2>1, <2>2 DEF IInv, Shapes
<1>6. UNCHANGED <<line, stock, band>>
  BY <1>1
<1>7. tab[r.x].status = "open" /\ job[h].at = "tapped"
  BY <1>1
<1> HIDE DEF r, w
<1>8. r = job[h].r /\ w = job[h].tapped
  BY DEF r, w
<1>9. ASSUME NEW y \in Tables PROVE TabOK(y)'
  <2>1. TabOK(y)
    BY DEF IInv
  <2> QED BY <1>2, <1>3, <1>6, <2>1 DEF TabOK
<1>10. LinesApart' /\ ShelfAddsUp'
  <2>1. {tab'[y].items : y \in Tables} = {tab[y].items : y \in Tables}
    BY <1>3
  <2>2. LinesApart'
    BY <1>3 DEF IInv, LinesApart
  <2>3. ShelfAddsUp'
    BY <1>6, <2>1 DEF IInv, ShelfAddsUp, At
  <2> QED BY <2>2, <2>3
<1>11. ASSUME NEW g \in Handlers PROVE JobOK(g)'
  <2>1. CASE job'[g].at = "idle"
    <3>1. g # h /\ job[g].at = "idle" /\ job'[g].ans = job[g].ans
      BY <1>4, <2>1
    <3>2. job[g].ans = "none"
      BY <3>1 DEF IInv, JobOK
    <3> QED BY <2>1, <3>1, <3>2 DEF JobOK
  <2>2. CASE g = h
    <3>1. Committed(g)' /\ tab'[r.x].status = "settled" /\ tab'[r.x].walletId = w
      BY <1>2, <1>3, <1>4, <1>8, <2>2, ZenonT(40) DEF Committed
    <3>2. Wearers(job[g].r.u) \subseteq job[g].wore
      BY <1>7, <2>2 DEF IInv, JobOK
    <3>3. Wearers(job[g].r.u)' = Wearers(job[g].r.u)
      BY <1>4, <1>6 DEF Wearers
    <3>4. job'[g].r.x = r.x /\ w \in job'[g].wore /\ job'[g].r \in Requests
      BY <1>2, <1>4, <1>8, <2>2
    <3> QED BY <1>4, <2>2, <3>1, <3>2, <3>3, <3>4 DEF JobOK
  <2>3. CASE g # h /\ job'[g].at # "idle"
    <3>1. job[g].r.x \in Tables /\ JobOK(g) /\ job[g].at # "idle"
      BY <1>4, <2>3, RequestsAssumption DEF IInv, JobOK
    <3>2. Wearers(job[g].r.u)' = Wearers(job[g].r.u)
      BY <1>4, <1>6 DEF Wearers
    <3>3. CASE job[g].r.x # r.x
      <4>1. Committed(g)' = Committed(g) /\ tab'[job[g].r.x] = tab[job[g].r.x]
        BY <1>3, <1>4, <3>1, <3>3, ZenonT(40) DEF Committed
      <4> QED BY <1>4, <2>3, <3>1, <3>2, <4>1 DEF JobOK
    <3>4. CASE job[g].r.x = r.x
      <4>1. job[g].ans # "ok"
        BY <1>7, <3>1, <3>4 DEF JobOK
      <4>2. Committed(g)' => job'[g].raced = TRUE
        <5>1. tab'[r.x].settleTxnId = r.id
          BY <1>2, <1>3
        <5>2. Committed(g)' => job[g].r.id = r.id
          BY <1>4, <3>4, <5>1 DEF Committed
        <5> QED BY <1>4, <2>3, <3>1, <3>4, <5>2
      <4> QED BY <1>4, <2>3, <3>1, <3>2, <4>1, <4>2 DEF JobOK
    <3> QED BY <3>3, <3>4
  <2> QED BY <2>1, <2>2, <2>3
<1> QED BY <1>5, <1>9, <1>10, <1>11 DEF IInv

\* Every step keeps the invariant.
LEMMA NextIInv == IInv /\ [Next]_vars => IInv'
<1> SUFFICES ASSUME IInv, [Next]_vars PROVE IInv'
  OBVIOUS
<1>1. ASSUME NEW x \in Tables, Waiters(x) PROVE IInv'
  <2>1. ASSUME NEW s \in Stalls, handOut(x, s) \/ accept(x, s) PROVE IInv'
    <3>1. UNCHANGED <<tab, line, stock, band, job>>
      BY <2>1 DEF handOut, accept, advanceFulfilment
    <3> QED BY <3>1, FloorKept, JobsKept DEF IInv, Shapes
  <2> QED BY <1>1, <2>1, StatusIInv, AddIInv, RemoveIInv DEF Waiters
<1>2. ASSUME NEW w \in Wallets, NEW s \in Stalls, Spend(w, s, 1) PROVE IInv'
  <2>1. UNCHANGED <<tab, line, stock, band, job>>
    BY <1>2 DEF Spend, floorVars
  <2> QED BY <2>1, FloorKept, JobsKept DEF IInv, Shapes
<1>3. CASE UNCHANGED vars
  <2>1. UNCHANGED <<tab, line, stock, band, job>>
    BY <1>3 DEF vars, floorVars
  <2> QED BY <2>1, FloorKept, JobsKept DEF IInv, Shapes
<1> QED BY <1>1, <1>2, <1>3, RebindIInv, AskIInv, ReturnIInv, ReadIInv, TapIInv, SettleIInv,
          AbortIInv DEF Next

-----------------------------------------------------------------------------
(* The theorems.                                                           *)

\* The invariant holds in every state.
THEOREM Invariance == Spec => []IInv
BY InitIInv, NextIInv, PTL DEF Spec

\* Whoever is told "paid" has tapped a tag that was worn, while the request was
\* in service, by the wallet the tab was charged to, for any number of guests
\* and repeats.
THEOREM PaidTap == Spec => []PaidIsThisTap
<1>1. IInv => PaidIsThisTap
  BY DEF IInv, JobOK, PaidIsThisTap, Committed
<1> QED BY <1>1, Invariance, PTL

\* A guest who is refused under an id has not been charged under it before the
\* request was sent.
THEOREM RefusedTap == Spec => []RefusedIsUncharged
<1>1. IInv => RefusedIsUncharged
  BY DEF IInv, JobOK, RefusedIsUncharged, Committed
<1> QED BY <1>1, Invariance, PTL

\* Shelf and tabs together hold every bottle, however lines come and go.
THEOREM ShelfKept == Spec => []ShelfAddsUp
<1>1. IInv => ShelfAddsUp
  BY DEF IInv
<1> QED BY <1>1, Invariance, PTL

-----------------------------------------------------------------------------
(* Sums.  The library folds + over a set by picking an element and going on *)
(* with the rest; what is said of every finite set is said of one that      *)
(* contains no smaller one that would break it.                             *)

\* Among sets that are all finite, some set has the fewest elements.
LEMMA SmallestSet ==
    ASSUME NEW C, C # {}, \A T \in C : IsFiniteSet(T)
    PROVE  \E T \in C : \A U \in C : Cardinality(T) <= Cardinality(U)
<1> DEFINE R == {ss \in Nat \X Nat : ss[1] < ss[2]}
           N == {Cardinality(T) : T \in C}
<1>1. IsWellFoundedOn(R, Nat)
  BY NatLessThanWellFounded DEF OpToRel
<1>2. \A T \in C : Cardinality(T) \in Nat
  BY FS_CardinalityType
<1>3. N # {} /\ N \subseteq Nat
  BY <1>2
<1>4. PICK n \in N : \A m \in N : ~ (<<m, n>> \in R)
  <2> HIDE DEF R, N
  <2> QED BY <1>1, <1>3, WFMin
<1>5. PICK T \in C : n = Cardinality(T)
  BY <1>4
<1>6. ASSUME NEW U \in C PROVE Cardinality(T) <= Cardinality(U)
  <2>1. Cardinality(U) \in N
    OBVIOUS
  <2>2. ~ (Cardinality(U) < Cardinality(T))
    BY <1>2, <1>4, <1>5, <2>1
  <2> QED BY <1>2, <2>2
<1> QED BY <1>6

\* Among subsets of a finite set, some set has none of the others inside it.
LEMMA Least ==
    ASSUME NEW S, IsFiniteSet(S), NEW C, C # {}, C \subseteq SUBSET S
    PROVE  \E U \in C : IsFiniteSet(U) /\ \A V \in C : V \subseteq U => V = U
<1>1. \A T \in C : IsFiniteSet(T) /\ Cardinality(T) \in Nat
  BY FS_Subset, FS_CardinalityType
<1>2. PICK U \in C : \A V \in C : Cardinality(U) <= Cardinality(V)
  BY <1>1, SmallestSet
<1>3. ASSUME NEW V \in C, V \subseteq U, V # U PROVE FALSE
  <2>1. Cardinality(V) <= Cardinality(U) /\ Cardinality(V) # Cardinality(U)
    BY <1>1, <1>3, FS_Subset
  <2> QED BY <1>1, <1>2, <2>1
<1> QED BY <1>1, <1>3

\* What an element is taken for when a set is summed up.
Pick(S) == CHOOSE x \in S : TRUE

\* The equation whose solution the library's sum over the subsets of S is.
FromRest(g, f, X) == IF X = {} THEN 0 ELSE f[Pick(X)] + g[X \ {Pick(X)}]

SumsUp(g, f, S) == g = [X \in SUBSET S |-> FromRest(g, f, X)]

\* The library's sum is the value of such a function.
LEMMA SumIsSolution ==
    ASSUME NEW f, NEW S
    PROVE  SumFunctionOnSet(f, S) = (CHOOSE g : SumsUp(g, f, S))[S]
BY DEF SumFunctionOnSet, FoldFunctionOnSet, MapThenFoldSet, SumsUp, FromRest, Pick

\* A solution satisfies its equation at every subset.
LEMMA SolutionAt ==
    ASSUME NEW f, NEW S, NEW g, SumsUp(g, f, S)
    PROVE  \A X \in SUBSET S : g[X] = FromRest(g, f, X)
BY DEF SumsUp

\* What is picked from a set is in it.
LEMMA PickIn ==
    ASSUME NEW S, S # {}
    PROVE  Pick(S) \in S
BY DEF Pick

\* Two solutions agree where both are defined.
LEMMA SolutionsAgree ==
    ASSUME NEW f, NEW S, IsFiniteSet(S), NEW g, SumsUp(g, f, S),
           NEW T, NEW h, SumsUp(h, f, T)
    PROVE  \A U : U \subseteq S /\ U \subseteq T => g[U] = h[U]
<1> DEFINE C == {U \in SUBSET S : U \subseteq T /\ g[U] # h[U]}
<1>1. SUFFICES ASSUME C # {} PROVE FALSE
  OBVIOUS
<1>2. PICK U \in C : \A V \in C : V \subseteq U => V = U
  <2> HIDE DEF C
  <2>1. C \subseteq SUBSET S
    BY DEF C
  <2> QED BY <1>1, <2>1, Least
<1>3. g[U] = FromRest(g, f, U) /\ h[U] = FromRest(h, f, U)
  BY SolutionAt
<1>4. U # {} /\ Pick(U) \in U
  BY <1>3, PickIn DEF FromRest
<1>5. g[U \ {Pick(U)}] = h[U \ {Pick(U)}]
  BY <1>2, <1>4
<1> QED BY <1>3, <1>4, <1>5 DEF FromRest

\* There is one for every finite set.
LEMMA SolutionExists ==
    ASSUME NEW f, NEW S, IsFiniteSet(S)
    PROVE  \E g : SumsUp(g, f, S)
<1> DEFINE C == {U \in SUBSET S : ~ \E g : SumsUp(g, f, U)}
<1>1. SUFFICES ASSUME C # {} PROVE FALSE
  OBVIOUS
<1>2. PICK U \in C : IsFiniteSet(U) /\ \A V \in C : V \subseteq U => V = U
  <2> HIDE DEF C
  <2>1. C \subseteq SUBSET S
    BY DEF C
  <2> QED BY <1>1, <2>1, Least
<1> DEFINE W == U \ {Pick(U)}
           Sol(V) == CHOOSE g : SumsUp(g, f, V)
           s == [V \in SUBSET U |-> IF V = U THEN IF U = {} THEN 0 ELSE f[Pick(U)] + Sol(W)[W]
                                    ELSE Sol(V)[V]]
<1>3. ASSUME NEW V \in SUBSET U, V # U
      PROVE  IsFiniteSet(V) /\ SumsUp(Sol(V), f, V)
  <2>1. IsFiniteSet(V)
    BY <1>2, FS_Subset
  <2>2. \E g : SumsUp(g, f, V)
    BY <1>2, <1>3
  <2> QED BY <2>1, <2>2
<1>4. ASSUME NEW V \in SUBSET U
      PROVE  s[V] = FromRest(s, f, V)
  <2>1. CASE V = U
    <3>1. U # {} => W # U
      BY PickIn
    <3> QED BY <2>1, <3>1 DEF FromRest
  <2>2. CASE V # U
    <3>1. s[V] = Sol(V)[V] /\ SumsUp(Sol(V), f, V) /\ IsFiniteSet(V)
      BY <1>3, <2>2
    <3>2. CASE V = {}
      <4>1. Sol(V)[V] = 0
        BY <3>1, <3>2, SolutionAt DEF FromRest
      <4> QED BY <3>1, <3>2, <4>1 DEF FromRest
    <3>3. CASE V # {}
      <4> DEFINE X == V \ {Pick(V)}
      <4>1. X \subseteq V /\ X # V
        BY <3>3, PickIn
      <4>2. X \in SUBSET U /\ X # U
        BY <2>2, <4>1
      <4>3. s[X] = Sol(X)[X] /\ SumsUp(Sol(X), f, X)
        BY <1>3, <4>2
      <4>4. Sol(V)[V] = f[Pick(V)] + Sol(V)[X]
        <5> HIDE DEF Sol
        <5> QED BY <3>1, <3>3, SolutionAt DEF FromRest
      <4>5. Sol(V)[X] = Sol(X)[X]
        <5> HIDE DEF Sol, X
        <5>1. \A Y : Y \subseteq V /\ Y \subseteq X => Sol(V)[Y] = Sol(X)[Y]
          BY <3>1, <4>3, SolutionsAgree
        <5> QED BY <4>1, <5>1
      <4> QED BY <3>1, <3>3, <4>3, <4>4, <4>5 DEF FromRest
    <3> QED BY <3>2, <3>3
  <2> QED BY <2>1, <2>2
<1>5. s = [V \in SUBSET U |-> FromRest(s, f, V)]
  <2>1. s = [V \in SUBSET U |-> s[V]]
    OBVIOUS
  <2> HIDE DEF s
  <2> QED BY <1>4, <2>1
<1>6. SumsUp(s, f, U)
  <2> HIDE DEF s
  <2> QED BY <1>5 DEF SumsUp
<1> HIDE DEF s
<1> QED BY <1>6

\* The sum over nothing is 0, and over a set, what is picked first and the sum
\* over the rest.
LEMMA SumOfNone ==
    ASSUME NEW f PROVE SumFunctionOnSet(f, {}) = 0
<1> DEFINE g == CHOOSE g : SumsUp(g, f, {})
<1>1. SumsUp(g, f, {})
  BY SolutionExists, FS_EmptySet
<1>2. g[{}] = 0
  <2> HIDE DEF g
  <2> QED BY <1>1, SolutionAt DEF FromRest
<1> QED BY <1>2, SumIsSolution

LEMMA SumByPick ==
    ASSUME NEW f, NEW S, IsFiniteSet(S), S # {}
    PROVE  SumFunctionOnSet(f, S)
             = f[Pick(S)] + SumFunctionOnSet(f, S \ {Pick(S)})
<1> DEFINE Sol(V) == CHOOSE g : SumsUp(g, f, V)
           W == S \ {Pick(S)}
<1>1. IsFiniteSet(W)
  BY FS_Subset
<1>2. SumsUp(Sol(S), f, S) /\ SumsUp(Sol(W), f, W)
  <2>1. (\E g : SumsUp(g, f, S)) /\ (\E g : SumsUp(g, f, W))
    BY <1>1, SolutionExists
  <2> QED BY <2>1
<1>3. SumFunctionOnSet(f, S) = Sol(S)[S] /\ SumFunctionOnSet(f, W) = Sol(W)[W]
  BY SumIsSolution
<1>4. Sol(S)[W] = Sol(W)[W]
  <2>1. W \subseteq S
    OBVIOUS
  <2> HIDE DEF Sol, W
  <2>2. \A U : U \subseteq S /\ U \subseteq W => Sol(S)[U] = Sol(W)[U]
    BY <1>2, SolutionsAgree
  <2> QED BY <2>1, <2>2
<1>5. Sol(S)[S] = f[Pick(S)] + Sol(S)[W]
  <2> HIDE DEF Sol
  <2> QED BY <1>2, SolutionAt DEF FromRest
<1> QED BY <1>3, <1>4, <1>5

\* Sums of integers are integers, and depend only on the terms.
LEMMA SumType ==
    ASSUME NEW f, NEW S, IsFiniteSet(S), \A x \in S : f[x] \in Int
    PROVE  SumFunctionOnSet(f, S) \in Int
<1> DEFINE C == {U \in SUBSET S : SumFunctionOnSet(f, U) \notin Int}
<1>1. SUFFICES ASSUME C # {} PROVE FALSE
  OBVIOUS
<1>2. PICK U \in C : IsFiniteSet(U) /\ \A V \in C : V \subseteq U => V = U
  <2>1. C \subseteq SUBSET S
    OBVIOUS
  <2> HIDE DEF C
  <2> QED BY <1>1, <2>1, Least
<1>3. U # {}
  BY SumOfNone
<1>4. Pick(U) \in U /\ f[Pick(U)] \in Int /\ SumFunctionOnSet(f, U \ {Pick(U)}) \in Int
  BY <1>2, <1>3, PickIn
<1> QED BY <1>2, <1>3, <1>4, SumByPick

LEMMA SumSame ==
    ASSUME NEW f, NEW g, NEW S, IsFiniteSet(S), \A x \in S : f[x] = g[x]
    PROVE  SumFunctionOnSet(f, S) = SumFunctionOnSet(g, S)
<1> DEFINE C == {U \in SUBSET S : SumFunctionOnSet(f, U) # SumFunctionOnSet(g, U)}
<1>1. SUFFICES ASSUME C # {} PROVE FALSE
  OBVIOUS
<1>2. PICK U \in C : IsFiniteSet(U) /\ \A V \in C : V \subseteq U => V = U
  <2>1. C \subseteq SUBSET S
    OBVIOUS
  <2> HIDE DEF C
  <2> QED BY <1>1, <2>1, Least
<1>3. U # {}
  BY SumOfNone
<1>4. /\ Pick(U) \in U /\ f[Pick(U)] = g[Pick(U)]
      /\ SumFunctionOnSet(f, U \ {Pick(U)}) = SumFunctionOnSet(g, U \ {Pick(U)})
  BY <1>2, <1>3, PickIn
<1>5. /\ SumFunctionOnSet(f, U) = f[Pick(U)] + SumFunctionOnSet(f, U \ {Pick(U)})
      /\ SumFunctionOnSet(g, U) = g[Pick(U)] + SumFunctionOnSet(g, U \ {Pick(U)})
  BY <1>2, <1>3, SumByPick
<1> QED BY <1>4, <1>5

\* Any element can be taken out of the sum, not only the one picked first.
LEMMA SumWithout ==
    ASSUME NEW f, NEW S, IsFiniteSet(S), \A x \in S : f[x] \in Int, NEW e \in S
    PROVE  /\ SumFunctionOnSet(f, S) = f[e] + SumFunctionOnSet(f, S \ {e})
           /\ SumFunctionOnSet(f, S \ {e}) \in Int /\ IsFiniteSet(S \ {e})
<1> DEFINE C == {U \in SUBSET S : \E x \in U :
                   SumFunctionOnSet(f, U) # f[x] + SumFunctionOnSet(f, U \ {x})}
<1>1. ASSUME C # {} PROVE FALSE
  <2>1. PICK U \in C : IsFiniteSet(U) /\ \A V \in C : V \subseteq U => V = U
    <3>1. C \subseteq SUBSET S
      OBVIOUS
    <3> HIDE DEF C
    <3> QED BY <1>1, <3>1, Least
  <2>2. PICK x \in U : SumFunctionOnSet(f, U) # f[x] + SumFunctionOnSet(f, U \ {x})
    OBVIOUS
  <2>3. PICK y : y = Pick(U)
    OBVIOUS
  <2>4. y \in U /\ SumFunctionOnSet(f, U) = f[y] + SumFunctionOnSet(f, U \ {y})
    BY <2>1, <2>3, PickIn, SumByPick
  <2>5. x # y
    BY <2>2, <2>4
  <2>6. PICK X, Y, Z : /\ X = SumFunctionOnSet(f, U \ {x}) /\ Y = SumFunctionOnSet(f, U \ {y})
                       /\ Z = SumFunctionOnSet(f, (U \ {x}) \ {y})
    OBVIOUS
  <2>7. U \ {y} \notin C /\ U \ {x} \notin C
    BY <2>1, <2>4
  <2>8. Y = f[x] + SumFunctionOnSet(f, (U \ {y}) \ {x})
    BY <2>5, <2>6, <2>7
  <2>9. X = f[y] + Z
    BY <2>4, <2>5, <2>6, <2>7
  <2>10. (U \ {y}) \ {x} = (U \ {x}) \ {y}
    OBVIOUS
  <2>11. f[x] \in Int /\ f[y] \in Int
    BY <2>4
  <2>12. Z \in Int
    <3> DEFINE W == (U \ {x}) \ {y}
    <3>1. IsFiniteSet(W) /\ \A z \in W : f[z] \in Int
      BY <2>1, FS_Subset
    <3> HIDE DEF W
    <3>2. SumFunctionOnSet(f, W) \in Int
      BY <3>1, SumType
    <3> QED BY <2>6, <3>2 DEF W
  <2>13. Y = f[x] + Z
    BY <2>6, <2>8, <2>10
  <2>14. SumFunctionOnSet(f, U) = f[y] + (f[x] + Z) /\ SumFunctionOnSet(f, U) # f[x] + (f[y] + Z)
    BY <2>2, <2>4, <2>6, <2>9, <2>13
  <2> HIDE DEF C
  <2> QED BY <2>11, <2>12, <2>14
<1>2. SumFunctionOnSet(f, S) = f[e] + SumFunctionOnSet(f, S \ {e})
  BY <1>1
<1>3. IsFiniteSet(S \ {e}) /\ \A x \in S \ {e} : f[x] \in Int
  BY FS_Subset
<1>4. SumFunctionOnSet(f, S \ {e}) \in Int
  <2> DEFINE W == S \ {e}
  <2> HIDE DEF W
  <2>1. IsFiniteSet(W) /\ \A x \in W : f[x] \in Int
    BY <1>3 DEF W
  <2>2. SumFunctionOnSet(f, W) \in Int
    BY <2>1, SumType
  <2> QED BY <2>2 DEF W
<1> QED BY <1>2, <1>3, <1>4

\* An element more: its term more.
LEMMA SumWith ==
    ASSUME NEW f, NEW S, IsFiniteSet(S), NEW x, x \notin S,
           \A z \in S \cup {x} : f[z] \in Int
    PROVE  SumFunctionOnSet(f, S \cup {x}) = SumFunctionOnSet(f, S) + f[x]
<1> DEFINE U == S \cup {x}
<1>1. IsFiniteSet(U) /\ x \in U /\ U \ {x} = S /\ \A z \in U : f[z] \in Int
  BY FS_AddElement
<1>2. SumFunctionOnSet(f, U) = f[x] + SumFunctionOnSet(f, S) /\ SumFunctionOnSet(f, S) \in Int
  <2> HIDE DEF U
  <2> QED BY <1>1, SumWithout
<1> HIDE DEF U
<1>3. SumFunctionOnSet(f, U) = SumFunctionOnSet(f, S) + f[x]
  BY <1>1, <1>2
<1> QED BY <1>3 DEF U

\* One term changes: so much does the sum.
LEMMA SumChanged ==
    ASSUME NEW f, NEW g, NEW S, IsFiniteSet(S), NEW x \in S, NEW d \in Int,
           \A z \in S : f[z] \in Int /\ g[z] = IF z = x THEN f[x] + d ELSE f[z]
    PROVE  SumFunctionOnSet(g, S) = SumFunctionOnSet(f, S) + d
<1>1. \A z \in S : g[z] \in Int
  OBVIOUS
<1>2. PICK W : W = S \ {x}
  OBVIOUS
<1>3. /\ SumFunctionOnSet(g, S) = g[x] + SumFunctionOnSet(g, W)
      /\ SumFunctionOnSet(g, W) \in Int
  <2>1. /\ SumFunctionOnSet(g, S) = g[x] + SumFunctionOnSet(g, S \ {x})
        /\ SumFunctionOnSet(g, S \ {x}) \in Int
    BY ONLY <1>1, IsFiniteSet(S), x \in S, SumWithout
  <2> QED BY <1>2, <2>1
<1>4. /\ SumFunctionOnSet(f, S) = f[x] + SumFunctionOnSet(f, W)
      /\ SumFunctionOnSet(f, W) \in Int /\ IsFiniteSet(W)
  <2>1. \A z \in S : f[z] \in Int
    OBVIOUS
  <2>2. /\ SumFunctionOnSet(f, S) = f[x] + SumFunctionOnSet(f, S \ {x})
        /\ SumFunctionOnSet(f, S \ {x}) \in Int /\ IsFiniteSet(S \ {x})
    BY <2>1, SumWithout
  <2> QED BY <1>2, <2>2
<1>5. SumFunctionOnSet(f, W) = SumFunctionOnSet(g, W)
  <2>1. \A z \in W : f[z] = g[z]
    BY <1>2
  <2> QED BY <1>4, <2>1, SumSame
<1> QED BY <1>3, <1>4, <1>5

\* Sums are added term by term.
LEMMA SumPlus ==
    ASSUME NEW f, NEW g, NEW h, NEW S, IsFiniteSet(S),
           \A x \in S : f[x] \in Int /\ g[x] \in Int /\ h[x] = f[x] + g[x]
    PROVE  SumFunctionOnSet(h, S) = SumFunctionOnSet(f, S) + SumFunctionOnSet(g, S)
<1> DEFINE C == {U \in SUBSET S :
                   SumFunctionOnSet(h, U) # SumFunctionOnSet(f, U) + SumFunctionOnSet(g, U)}
<1>1. SUFFICES ASSUME C # {} PROVE FALSE
  OBVIOUS
<1>2. PICK U \in C : IsFiniteSet(U) /\ \A V \in C : V \subseteq U => V = U
  <2>1. C \subseteq SUBSET S
    OBVIOUS
  <2> HIDE DEF C
  <2> QED BY <1>1, <2>1, Least
<1>3. U # {}
  <2>1. U = {} => /\ SumFunctionOnSet(f, U) = 0 /\ SumFunctionOnSet(g, U) = 0
                  /\ SumFunctionOnSet(h, U) = 0
    BY SumOfNone
  <2>2. SumFunctionOnSet(h, U) # SumFunctionOnSet(f, U) + SumFunctionOnSet(g, U)
    OBVIOUS
  <2> HIDE DEF C
  <2> QED BY <2>1, <2>2
<1>4. PICK x, W : x = Pick(U) /\ x \in U /\ W = U \ {x}
  BY <1>3, PickIn
<1>5. SumFunctionOnSet(h, W) = SumFunctionOnSet(f, W) + SumFunctionOnSet(g, W)
  BY <1>2, <1>4
<1>6. /\ SumFunctionOnSet(f, U) = f[x] + SumFunctionOnSet(f, W)
      /\ SumFunctionOnSet(g, U) = g[x] + SumFunctionOnSet(g, W)
      /\ SumFunctionOnSet(h, U) = h[x] + SumFunctionOnSet(h, W)
  BY <1>2, <1>3, <1>4, SumByPick
<1>7. IsFiniteSet(W) /\ W \subseteq S
  BY <1>2, <1>4, FS_Subset
<1>8. SumFunctionOnSet(f, W) \in Int /\ SumFunctionOnSet(g, W) \in Int
  BY <1>7, SumType
<1>9. f[x] \in Int /\ g[x] \in Int /\ h[x] = f[x] + g[x]
  BY <1>4
<1>10. SumFunctionOnSet(h, U) # SumFunctionOnSet(f, U) + SumFunctionOnSet(g, U)
  OBVIOUS
<1> HIDE DEF C
<1> QED BY <1>5, <1>6, <1>8, <1>9, <1>10

\* A sum of equal terms.
LEMMA SumEqual ==
    ASSUME NEW f, NEW S, IsFiniteSet(S), NEW c \in Int, \A x \in S : f[x] = c
    PROVE  SumFunctionOnSet(f, S) = c * Cardinality(S)
<1> DEFINE C == {U \in SUBSET S : SumFunctionOnSet(f, U) # c * Cardinality(U)}
<1>1. SUFFICES ASSUME C # {} PROVE FALSE
  OBVIOUS
<1>2. PICK U \in C : IsFiniteSet(U) /\ \A V \in C : V \subseteq U => V = U
  <2>1. C \subseteq SUBSET S
    OBVIOUS
  <2> HIDE DEF C
  <2> QED BY <1>1, <2>1, Least
<1>3. U # {}
  <2>1. Cardinality({}) = 0 /\ c * 0 = 0
    BY FS_EmptySet
  <2> QED BY <2>1, SumOfNone
<1>4. PICK x, W : x = Pick(U) /\ x \in U /\ W = U \ {x}
  BY <1>3, PickIn
<1>5. SumFunctionOnSet(f, W) = c * Cardinality(W)
  BY <1>2, <1>4
<1>6. SumFunctionOnSet(f, U) = f[x] + SumFunctionOnSet(f, W)
  BY <1>2, <1>3, <1>4, SumByPick
<1>7. Cardinality(U) \in Nat /\ Cardinality(W) = Cardinality(U) - 1
  BY <1>2, <1>4, FS_CardinalityType, FS_RemoveElement
<1>8. f[x] = c
  BY <1>4
<1>9. SumFunctionOnSet(f, U) # c * Cardinality(U)
  OBVIOUS
<1>10. \A n \in Nat : c + c * (n - 1) = c * n
  OBVIOUS
<1> HIDE DEF C
<1> QED BY <1>5, <1>6, <1>7, <1>8, <1>9, <1>10

\* The sum over two sets that share nothing.
LEMMA SumUnion ==
    ASSUME NEW f, NEW S, NEW T, IsFiniteSet(S), IsFiniteSet(T), S \cap T = {},
           \A x \in S \cup T : f[x] \in Int
    PROVE  SumFunctionOnSet(f, S \cup T) = SumFunctionOnSet(f, S) + SumFunctionOnSet(f, T)
<1> DEFINE C == {U \in SUBSET T :
                   SumFunctionOnSet(f, S \cup U) # SumFunctionOnSet(f, S) + SumFunctionOnSet(f, U)}
<1>1. SUFFICES ASSUME C # {} PROVE FALSE
  OBVIOUS
<1>2. PICK U \in C : IsFiniteSet(U) /\ \A V \in C : V \subseteq U => V = U
  <2>1. C \subseteq SUBSET T
    OBVIOUS
  <2> HIDE DEF C
  <2> QED BY <1>1, <2>1, Least
<1>3. SumFunctionOnSet(f, S) \in Int
  BY SumType
<1>4. U # {}
  <2>1. U = {} => SumFunctionOnSet(f, U) = 0 /\ SumFunctionOnSet(f, S \cup U) = SumFunctionOnSet(f, S)
    <3>1. U = {} => S \cup U = S
      OBVIOUS
    <3> HIDE DEF C
    <3> QED BY <3>1, SumOfNone
  <2>2. SumFunctionOnSet(f, S \cup U) # SumFunctionOnSet(f, S) + SumFunctionOnSet(f, U)
    OBVIOUS
  <2> HIDE DEF C
  <2> QED BY <1>3, <2>1, <2>2
<1>5. PICK x, W : x = Pick(U) /\ x \in U /\ W = U \ {x}
  BY <1>4, PickIn
<1>6. /\ SumFunctionOnSet(f, S \cup W) = SumFunctionOnSet(f, S) + SumFunctionOnSet(f, W)
      /\ SumFunctionOnSet(f, S \cup U) # SumFunctionOnSet(f, S) + SumFunctionOnSet(f, U)
      /\ U \subseteq T
  BY <1>2, <1>5
<1>7. SumFunctionOnSet(f, U) = f[x] + SumFunctionOnSet(f, W)
  BY <1>2, <1>4, <1>5, SumByPick
<1>8. IsFiniteSet(W) /\ W \subseteq T /\ SumFunctionOnSet(f, W) \in Int /\ f[x] \in Int
  <2>1. IsFiniteSet(W) /\ \A z \in W : f[z] \in Int
    BY <1>2, <1>5, FS_Subset
  <2> QED BY <1>5, <1>6, <2>1, SumType
<1> HIDE DEF C
<1>9. SumFunctionOnSet(f, S \cup U) = SumFunctionOnSet(f, S \cup W) + f[x]
  <2> DEFINE A == S \cup W
  <2>1. /\ IsFiniteSet(A) /\ x \notin A /\ A \cup {x} = S \cup U
        /\ \A z \in A \cup {x} : f[z] \in Int
    BY <1>5, <1>6, <1>8, FS_Union
  <2> HIDE DEF A
  <2>2. SumFunctionOnSet(f, A \cup {x}) = SumFunctionOnSet(f, A) + f[x]
    BY <2>1, SumWith
  <2> QED BY <2>1, <2>2 DEF A
<1> QED BY <1>3, <1>6, <1>7, <1>8, <1>9

\* The sum over the names of things is the sum over the things.
LEMMA SumNamed ==
    ASSUME NEW S, IsFiniteSet(S), NEW n,
           \A x, y \in S : n[x] = n[y] => x = y,
           NEW f, \A x \in S : f[n[x]] \in Int
    PROVE  /\ IsFiniteSet({n[x] : x \in S})
           /\ SumFunctionOnSet(f, {n[x] : x \in S})
                = SumFunctionOnSet([x \in S |-> f[n[x]]], S)
<1> DEFINE g == [x \in S |-> f[n[x]]]
           Bad(U) == ~ /\ IsFiniteSet({n[x] : x \in U})
                       /\ SumFunctionOnSet(f, {n[x] : x \in U}) = SumFunctionOnSet(g, U)
           C == {U \in SUBSET S : Bad(U)}
<1>1. ASSUME C # {} PROVE FALSE
  <2>1. PICK U \in C : IsFiniteSet(U) /\ \A V \in C : V \subseteq U => V = U
    <3>1. C \subseteq SUBSET S
      OBVIOUS
    <3> HIDE DEF C
    <3> QED BY <1>1, <3>1, Least
  <2>2. Bad(U) /\ U \subseteq S
    OBVIOUS
  <2>3. U # {}
    <3>1. U = {} => {n[x] : x \in U} = {} /\ SumFunctionOnSet(g, U) = 0
      BY SumOfNone
    <3>2. SumFunctionOnSet(f, {}) = 0 /\ IsFiniteSet({})
      BY SumOfNone, FS_EmptySet
    <3> HIDE DEF C
    <3> QED BY <2>2, <3>1, <3>2
  <2>4. PICK y, W : y = Pick(U) /\ y \in U /\ W = U \ {y}
    BY <2>3, PickIn
  <2>5. ~Bad(W) /\ W \subseteq S
    <3> HIDE DEF Bad
    <3> QED BY <2>1, <2>4
  <2>6. PICK N : N = {n[x] : x \in W}
    OBVIOUS
  <2>7. IsFiniteSet(N) /\ SumFunctionOnSet(f, N) = SumFunctionOnSet(g, W)
    BY <2>5, <2>6
  <2>8. /\ n[y] \notin N /\ N \cup {n[y]} = {n[x] : x \in U}
        /\ \A z \in N \cup {n[y]} : f[z] \in Int
    BY <2>2, <2>4, <2>6
  <2>9. SumFunctionOnSet(f, N \cup {n[y]}) = SumFunctionOnSet(f, N) + f[n[y]]
    <3> HIDE DEF C, Bad, g
    <3> QED BY <2>7, <2>8, SumWith
  <2>10. IsFiniteSet(N \cup {n[y]})
    BY <2>7, FS_AddElement
  <2>11. g[y] = f[n[y]] /\ g[y] \in Int
    BY <2>2, <2>4
  <2>12. SumFunctionOnSet(g, U) = g[y] + SumFunctionOnSet(g, W)
    <3> HIDE DEF C, Bad, g
    <3> QED BY <2>1, <2>3, <2>4, SumByPick
  <2>13. SumFunctionOnSet(g, W) \in Int
    <3>1. IsFiniteSet(W) /\ \A z \in W : g[z] \in Int
      BY <2>1, <2>2, <2>4, FS_Subset
    <3> HIDE DEF C, Bad, g
    <3> QED BY <3>1, SumType
  <2>14. IsFiniteSet({n[x] : x \in U}) /\ SumFunctionOnSet(f, {n[x] : x \in U}) = SumFunctionOnSet(g, U)
    <3> HIDE DEF C, Bad, g
    <3>1. PICK M : M = {n[x] : x \in U}
      OBVIOUS
    <3>2. IsFiniteSet(M) /\ SumFunctionOnSet(f, M) = SumFunctionOnSet(f, N) + f[n[y]]
      BY <2>8, <2>9, <2>10, <3>1
    <3>3. SumFunctionOnSet(f, M) = SumFunctionOnSet(g, U)
      BY <2>7, <2>11, <2>12, <2>13, <3>2
    <3> QED BY <3>1, <3>2, <3>3
  <2> QED BY <2>2, <2>14
<1>2. ~Bad(S)
  <2> HIDE DEF Bad
  <2> QED BY <1>1
<1> QED BY <1>2

\* A sum, shared out: every element counts for the one it belongs to.
LEMMA SumShared ==
    ASSUME NEW S, IsFiniteSet(S), NEW B, IsFiniteSet(B), NEW f, NEW of,
           \A x \in S : f[x] \in Int /\ of[x] \in B
    PROVE  SumFunctionOnSet(f, S)
             = SumFunctionOnSet([b \in B |-> SumFunctionOnSet(f, {x \in S : of[x] = b})], B)
<1> DEFINE part(U) == [b \in B |-> SumFunctionOnSet(f, {x \in U : of[x] = b})]
           C == {U \in SUBSET S : SumFunctionOnSet(f, U) # SumFunctionOnSet(part(U), B)}
<1>1. ASSUME C # {} PROVE FALSE
  <2>1. PICK U \in C : IsFiniteSet(U) /\ \A V \in C : V \subseteq U => V = U
    <3>1. C \subseteq SUBSET S
      OBVIOUS
    <3> HIDE DEF C
    <3> QED BY <1>1, <3>1, Least
  <2>2. U \subseteq S /\ SumFunctionOnSet(f, U) # SumFunctionOnSet(part(U), B)
    OBVIOUS
  <2>3. U # {}
    <3>1. ASSUME U = {} PROVE SumFunctionOnSet(part(U), B) = 0
      <4>1. \A b \in B : part(U)[b] = 0
        <5>1. \A b \in B : {x \in U : of[x] = b} = {}
          BY <3>1
        <5> QED BY <5>1, SumOfNone
      <4>2. Cardinality(B) \in Nat
        BY FS_CardinalityType
      <4> DEFINE p == part(U)
      <4>3. \A b \in B : p[b] = 0
        BY <4>1
      <4> HIDE DEF p
      <4>4. SumFunctionOnSet(p, B) = 0 * Cardinality(B)
        BY <4>3, SumEqual
      <4> QED BY <4>2, <4>4 DEF p
    <3>2. U = {} => SumFunctionOnSet(f, U) = 0
      BY SumOfNone
    <3> QED BY <2>2, <3>1, <3>2
  <2>4. PICK y, W : y = Pick(U) /\ y \in U /\ W = U \ {y}
    BY <2>3, PickIn
  <2>5. SumFunctionOnSet(f, W) = SumFunctionOnSet(part(W), B)
    BY <2>1, <2>4
  <2>6. SumFunctionOnSet(f, U) = f[y] + SumFunctionOnSet(f, W)
    <3> HIDE DEF C
    <3> QED BY <2>1, <2>3, <2>4, SumByPick
  <2>7. f[y] \in Int /\ of[y] \in B
    BY <2>2, <2>4
  <2>8. ASSUME NEW b \in B
        PROVE  part(W)[b] \in Int /\ part(U)[b] = IF b = of[y] THEN part(W)[of[y]] + f[y] ELSE part(W)[b]
    <3>1. PICK P : P = {x \in W : of[x] = b}
      OBVIOUS
    <3>2. IsFiniteSet(P) /\ \A z \in P : f[z] \in Int
      BY <2>1, <2>2, <2>4, <3>1, FS_Subset
    <3>3. part(W)[b] = SumFunctionOnSet(f, P) /\ SumFunctionOnSet(f, P) \in Int
      BY <3>1, <3>2, SumType
    <3>4. CASE b = of[y]
      <4>1. P \cup {y} = {x \in U : of[x] = b} /\ y \notin P
        BY <2>4, <3>1, <3>4
      <4>2. SumFunctionOnSet(f, P \cup {y}) = SumFunctionOnSet(f, P) + f[y]
        <5>1. \A z \in P \cup {y} : f[z] \in Int
          BY <2>7, <3>2
        <5> QED BY <3>2, <4>1, <5>1, SumWith
      <4> QED BY <3>3, <3>4, <4>1, <4>2
    <3>5. CASE b # of[y]
      <4>1. P = {x \in U : of[x] = b}
        BY <2>4, <3>1, <3>5
      <4> QED BY <3>3, <3>5, <4>1
    <3> QED BY <3>4, <3>5
  <2>9. SumFunctionOnSet(part(U), B) = SumFunctionOnSet(part(W), B) + f[y]
    <3> HIDE DEF part
    <3> QED BY <2>7, <2>8, SumChanged
  <2>10. SumFunctionOnSet(f, W) \in Int
    <3>1. IsFiniteSet(W) /\ \A z \in W : f[z] \in Int
      BY <2>1, <2>2, <2>4, FS_Subset
    <3> QED BY <3>1, SumType
  <2> HIDE DEF C, part
  <2> QED BY <2>2, <2>5, <2>6, <2>7, <2>9, <2>10
<1>2. SumFunctionOnSet(f, S) = SumFunctionOnSet(part(S), B)
  <2> HIDE DEF part
  <2> QED BY <1>1
<1> QED BY <1>2

-----------------------------------------------------------------------------
(* The prices and the journal, added up.                                   *)

\* The journal by kind of account.
LEMMA LedgerSum ==
    ASSUME NEW g, \A a \in Accounts : g[a] \in Int
    PROVE  /\ IsFiniteSet(Accounts)
           /\ SumFunctionOnSet(g, Accounts)
                = (g[FLOAT] + g[FEES])
                    + SumFunctionOnSet([w \in Wallets |-> g[WALLET(w)]], Wallets)
                    + SumFunctionOnSet([s \in Stalls |-> g[MERCHANT(s)]], Stalls)
           /\ SumFunctionOnSet([w \in Wallets |-> g[WALLET(w)]], Wallets) \in Int
           /\ SumFunctionOnSet([s \in Stalls |-> g[MERCHANT(s)]], Stalls) \in Int
<1> DEFINE n == [w \in Wallets |-> WALLET(w)]
           m == [s \in Stalls |-> MERCHANT(s)]
           gw == [w \in Wallets |-> g[WALLET(w)]]
           gm == [s \in Stalls |-> g[MERCHANT(s)]]
           Ws == {WALLET(w) : w \in Wallets}
           Ms == {MERCHANT(s) : s \in Stalls}
<1>1. IsFiniteSet(Wallets) /\ IsFiniteSet(Stalls)
  BY WalletsAssumption, PctAssumption
<1>2. FLOAT # FEES /\ FLOAT \in Accounts /\ FEES \in Accounts
  BY DEF FLOAT, FEES, Accounts
<1>3. /\ \A w \in Wallets : WALLET(w) \in Accounts /\ WALLET(w) # FLOAT /\ WALLET(w) # FEES
      /\ \A s \in Stalls : MERCHANT(s) \in Accounts /\ MERCHANT(s) # FLOAT /\ MERCHANT(s) # FEES
      /\ \A w \in Wallets, s \in Stalls : WALLET(w) # MERCHANT(s)
  BY DEF FLOAT, FEES, WALLET, MERCHANT, Accounts
<1>4. IsFiniteSet(Ws) /\ SumFunctionOnSet(g, Ws) = SumFunctionOnSet(gw, Wallets)
  <2>1. /\ \A x, y \in Wallets : n[x] = n[y] => x = y
        /\ \A x \in Wallets : g[n[x]] \in Int
    BY <1>3 DEF WALLET
  <2>2. Ws = {n[x] : x \in Wallets} /\ gw = [x \in Wallets |-> g[n[x]]]
    OBVIOUS
  <2> HIDE DEF n, gw, Ws
  <2>3. /\ IsFiniteSet({n[x] : x \in Wallets})
        /\ SumFunctionOnSet(g, {n[x] : x \in Wallets}) = SumFunctionOnSet([x \in Wallets |-> g[n[x]]], Wallets)
    BY <1>1, <2>1, SumNamed
  <2> QED BY <2>2, <2>3
<1>5. IsFiniteSet(Ms) /\ SumFunctionOnSet(g, Ms) = SumFunctionOnSet(gm, Stalls)
  <2>1. /\ \A x, y \in Stalls : m[x] = m[y] => x = y
        /\ \A x \in Stalls : g[m[x]] \in Int
    BY <1>3 DEF MERCHANT
  <2>2. Ms = {m[x] : x \in Stalls} /\ gm = [x \in Stalls |-> g[m[x]]]
    OBVIOUS
  <2> HIDE DEF m, gm, Ms
  <2>3. /\ IsFiniteSet({m[x] : x \in Stalls})
        /\ SumFunctionOnSet(g, {m[x] : x \in Stalls}) = SumFunctionOnSet([x \in Stalls |-> g[m[x]]], Stalls)
    BY <1>1, <2>1, SumNamed
  <2> QED BY <2>2, <2>3
<1>6. IsFiniteSet({FLOAT, FEES}) /\ SumFunctionOnSet(g, {FLOAT, FEES}) = g[FLOAT] + g[FEES]
  <2>1. IsFiniteSet({FLOAT}) /\ g[FLOAT] \in Int /\ g[FEES] \in Int
    BY <1>2, FS_Singleton
  <2>2. SumFunctionOnSet(g, {FLOAT}) = g[FLOAT]
    <3>1. IsFiniteSet({}) /\ FLOAT \notin {} /\ \A z \in {} \cup {FLOAT} : g[z] \in Int
      BY <2>1, FS_EmptySet
    <3>2. SumFunctionOnSet(g, {} \cup {FLOAT}) = SumFunctionOnSet(g, {}) + g[FLOAT]
      BY <3>1, SumWith
    <3>3. {} \cup {FLOAT} = {FLOAT} /\ SumFunctionOnSet(g, {}) = 0
      BY SumOfNone
    <3> QED BY <2>1, <3>2, <3>3
  <2>3. SumFunctionOnSet(g, {FLOAT} \cup {FEES}) = SumFunctionOnSet(g, {FLOAT}) + g[FEES]
    <3>1. FEES \notin {FLOAT} /\ \A z \in {FLOAT} \cup {FEES} : g[z] \in Int
      BY <1>2, <2>1
    <3> QED BY <2>1, <3>1, SumWith
  <2>4. {FLOAT} \cup {FEES} = {FLOAT, FEES} /\ IsFiniteSet({FLOAT} \cup {FEES})
    BY <2>1, FS_AddElement
  <2> QED BY <2>2, <2>3, <2>4
<1>7. /\ Accounts = ({FLOAT, FEES} \cup Ws) \cup Ms
      /\ {FLOAT, FEES} \cap Ws = {} /\ ({FLOAT, FEES} \cup Ws) \cap Ms = {}
  BY <1>3 DEF Accounts
<1>8. PICK F, A : F = {FLOAT, FEES} /\ A = F \cup Ws
  OBVIOUS
<1> HIDE DEF n, m, gw, gm, Ws, Ms
<1>9. IsFiniteSet(A) /\ SumFunctionOnSet(g, A) = SumFunctionOnSet(g, F) + SumFunctionOnSet(g, Ws)
  <2>1. IsFiniteSet(F) /\ F \cap Ws = {} /\ \A x \in F \cup Ws : g[x] \in Int
    BY <1>6, <1>7, <1>8
  <2>2. SumFunctionOnSet(g, F \cup Ws) = SumFunctionOnSet(g, F) + SumFunctionOnSet(g, Ws)
    BY <1>4, <2>1, SumUnion
  <2> QED BY <1>4, <1>8, <2>1, <2>2, FS_Union
<1>10. IsFiniteSet(A \cup Ms) /\ SumFunctionOnSet(g, A \cup Ms) = SumFunctionOnSet(g, A) + SumFunctionOnSet(g, Ms)
  <2>1. A \cap Ms = {} /\ \A x \in A \cup Ms : g[x] \in Int
    BY <1>7, <1>8
  <2>2. IsFiniteSet(A \cup Ms)
    BY <1>5, <1>9, FS_Union
  <2>3. SumFunctionOnSet(g, A \cup Ms) = SumFunctionOnSet(g, A) + SumFunctionOnSet(g, Ms)
    BY <1>5, <1>9, <2>1, SumUnion
  <2> QED BY <2>2, <2>3
<1>11. SumFunctionOnSet(gw, Wallets) \in Int /\ SumFunctionOnSet(gm, Stalls) \in Int
  <2>1. (\A w \in Wallets : gw[w] \in Int) /\ (\A s \in Stalls : gm[s] \in Int)
    BY <1>3 DEF gw, gm
  <2> QED BY <1>1, <2>1, SumType
<1>12. Accounts = A \cup Ms
  BY <1>7, <1>8
<1>13. SumFunctionOnSet(g, F) = g[FLOAT] + g[FEES]
  BY <1>6, <1>8
<1>14. SumFunctionOnSet(g, Accounts)
         = (g[FLOAT] + g[FEES]) + SumFunctionOnSet(gw, Wallets) + SumFunctionOnSet(gm, Stalls)
  BY <1>4, <1>5, <1>9, <1>10, <1>12, <1>13
<1> QED BY <1>10, <1>11, <1>12, <1>14 DEF gw, gm

\* The price of every line.
LineBook == [l \in Lines |-> line[l].price]

\* What a line costs is an integer.
LEMMA LineTyped ==
    ASSUME Shapes PROVE \A l \in Lines : line[l].price \in Int
<1>1. \A k \in Line : k.price \in Int
  <2>1. \A q \in Prices \cup {0} : q \in Int
    BY PricesAssumption
  <2>2. \A k \in Line : k.price \in Prices \cup {0}
    BY DEF Line
  <2> QED BY <2>1, <2>2
<1> QED BY <1>1 DEF Shapes

\* What some lines cost is an integer, and what they cost at all the stalls.
LEMMA TotalShared ==
    ASSUME Shapes, NEW ls, ls \subseteq Lines
    PROVE  /\ Total(ls) \in Int /\ \A s \in Stalls : Total(At(ls, s)) \in Int
           /\ (\A l \in ls : line[l].stall \in Stalls)
                => Total(ls) = SumFunctionOnSet([s \in Stalls |-> Total(At(ls, s))], Stalls)
<1>1. IsFiniteSet(Stalls) /\ IsFiniteSet(ls)
  BY PctAssumption, PricesAssumption, FS_Subset
<1>2. \A l \in Lines : LineBook[l] \in Int
  BY LineTyped DEF LineBook
<1>3. \A ms : Total(ms) = SumFunctionOnSet(LineBook, ms)
  BY DEF Total, LineBook
<1>4. Total(ls) \in Int
  <2>1. \A l \in ls : LineBook[l] \in Int
    BY <1>2
  <2> QED BY <1>1, <1>3, <2>1, SumType
<1>5. ASSUME NEW s \in Stalls PROVE Total(At(ls, s)) \in Int
  <2>1. IsFiniteSet(At(ls, s)) /\ \A l \in At(ls, s) : LineBook[l] \in Int
    BY <1>1, <1>2, FS_Subset DEF At
  <2> QED BY <1>3, <2>1, SumType
<1>6. ASSUME \A l \in ls : line[l].stall \in Stalls
      PROVE  Total(ls) = SumFunctionOnSet([s \in Stalls |-> Total(At(ls, s))], Stalls)
  <2> DEFINE of == [l \in ls |-> line[l].stall]
  <2>1. \A l \in ls : LineBook[l] \in Int /\ of[l] \in Stalls
    BY <1>2, <1>6
  <2>2. \A s \in Stalls : SumFunctionOnSet(LineBook, {l \in ls : of[l] = s}) = Total(At(ls, s))
    <3>1. \A s \in Stalls : {l \in ls : of[l] = s} = At(ls, s)
      BY DEF At
    <3> QED BY <1>3, <3>1
  <2>3. [s \in Stalls |-> SumFunctionOnSet(LineBook, {l \in ls : of[l] = s})]
          = [s \in Stalls |-> Total(At(ls, s))]
    BY <2>2
  <2> HIDE DEF of
  <2>4. SumFunctionOnSet(LineBook, ls)
          = SumFunctionOnSet([s \in Stalls |-> SumFunctionOnSet(LineBook, {l \in ls : of[l] = s})], Stalls)
    BY <1>1, <2>1, SumShared
  <2> QED BY <1>3, <2>3, <2>4
<1> QED BY <1>4, <1>5, <1>6

\* The fee of a stall and what is left to it are together its share.
LEMMA NetAndFee ==
    ASSUME Shapes, NEW ls, ls \subseteq Lines
    PROVE  \A s \in Stalls : /\ FeeOf(ls)[s] \in Int /\ Net(ls)[s] \in Int
                             /\ Total(At(ls, s)) = Net(ls)[s] + FeeOf(ls)[s]
<1> SUFFICES ASSUME NEW s \in Stalls
             PROVE  /\ FeeOf(ls)[s] \in Int /\ Net(ls)[s] \in Int
                    /\ Total(At(ls, s)) = Net(ls)[s] + FeeOf(ls)[s]
  OBVIOUS
<1>1. PICK n \in Int : n = Total(At(ls, s))
  BY TotalShared
<1>2. PICK p \in Int : p = Pct[s]
  BY PctAssumption
<1>3. n * p \in Int
  OBVIOUS
<1>4. Fee(s, n) \in Int
  BY <1>2, <1>3 DEF Fee
<1>5. FeeOf(ls)[s] = Fee(s, n) /\ Net(ls)[s] = n - Fee(s, n)
  BY <1>1 DEF FeeOf, Net
<1> QED BY <1>1, <1>4, <1>5

\* The entry of a settlement is balanced, whatever the lines and the rates.
LEMMA PostingBalanced ==
    ASSUME Shapes, NEW ls, ls \subseteq Lines, \A l \in ls : line[l].stall \in Stalls,
           NEW w \in Wallets
    PROVE  /\ \A a \in Accounts : Posting(ls, w)[a] \in Int
           /\ \A v \in Wallets : Posting(ls, w)[WALLET(v)] = IF v = w THEN Total(ls) ELSE 0
           /\ SumFunctionOnSet(Posting(ls, w), Accounts) = 0
<1> DEFINE p == Posting(ls, w)
           fee == SumFunctionOnSet(FeeOf(ls), Stalls)
           net == SumFunctionOnSet(Net(ls), Stalls)
           pw == [v \in Wallets |-> p[WALLET(v)]]
           pm == [s \in Stalls |-> p[MERCHANT(s)]]
<1>1. IsFiniteSet(Wallets) /\ IsFiniteSet(Stalls)
  BY WalletsAssumption, PctAssumption
<1>2. \A s \in Stalls : /\ FeeOf(ls)[s] \in Int /\ Net(ls)[s] \in Int
                        /\ Total(At(ls, s)) = Net(ls)[s] + FeeOf(ls)[s]
  BY NetAndFee
<1>3. fee \in Int /\ net \in Int
  BY <1>1, <1>2, SumType
<1>4. Total(ls) \in Int /\ Total(ls) = net + fee
  <2> DEFINE share == [s \in Stalls |-> Total(At(ls, s))]
  <2>1. Total(ls) \in Int /\ Total(ls) = SumFunctionOnSet(share, Stalls)
    BY TotalShared
  <2>2. \A s \in Stalls : share[s] = Net(ls)[s] + FeeOf(ls)[s]
    BY <1>2
  <2> HIDE DEF share
  <2>3. SumFunctionOnSet(share, Stalls) = net + fee
    BY <1>1, <1>2, <2>2, SumPlus
  <2> QED BY <2>1, <2>3
<1>5. /\ \A v \in Wallets : p[WALLET(v)] = IF v = w THEN Total(ls) ELSE 0
      /\ \A s \in Stalls : p[MERCHANT(s)] = -Net(ls)[s]
      /\ p[FEES] = -fee /\ p[FLOAT] = 0
  <2>1. /\ \A v \in Wallets : WALLET(v) \in Accounts /\ WALLET(v)[1] # "MERCHANT" /\ WALLET(v) # FEES
        /\ \A v \in Wallets : WALLET(v) = WALLET(w) => v = w
    BY DEF WALLET, FEES, Accounts
  <2>2. \A s \in Stalls : /\ MERCHANT(s) \in Accounts /\ MERCHANT(s)[1] = "MERCHANT" /\ MERCHANT(s)[2] = s
                          /\ MERCHANT(s) # WALLET(w) /\ MERCHANT(s) # FEES
    BY DEF MERCHANT, WALLET, FEES, Accounts
  <2>3. /\ FEES \in Accounts /\ FLOAT \in Accounts /\ FEES # FLOAT
        /\ FEES # WALLET(w) /\ FLOAT # WALLET(w) /\ FLOAT[1] # "MERCHANT"
    BY DEF FLOAT, WALLET, FEES, Accounts
  <2>4. \A a \in Accounts : p[a] = CASE a = WALLET(w)     -> Total(ls)
                                    [] a = FEES          -> -fee
                                    [] a[1] = "MERCHANT" -> -Net(ls)[a[2]]
                                    [] OTHER             -> 0
    BY DEF Posting
  <2> HIDE DEF p, fee
  <2>5. \A v \in Wallets : p[WALLET(v)] = IF v = w THEN Total(ls) ELSE 0
    BY <2>1, <2>4
  <2>6. \A s \in Stalls : p[MERCHANT(s)] = -Net(ls)[s]
    BY <2>2, <2>4
  <2>7. p[FEES] = -fee /\ p[FLOAT] = 0
    <3>1. FEES[1] # "MERCHANT"
      BY DEF FEES
    <3> QED BY <2>3, <2>4, <3>1
  <2> QED BY <2>5, <2>6, <2>7
<1>6. \A a \in Accounts : p[a] \in Int
  <2> HIDE DEF p, fee
  <2>1. \A v \in Wallets : p[WALLET(v)] \in Int
    BY <1>4, <1>5
  <2>2. \A s \in Stalls : p[MERCHANT(s)] \in Int
    BY <1>2, <1>5
  <2> QED BY <1>3, <1>5, <2>1, <2>2 DEF Accounts
<1>7. SumFunctionOnSet(pw, Wallets) = Total(ls)
  <2> DEFINE z == [v \in Wallets |-> 0]
  <2>1. \A v \in Wallets : z[v] \in Int /\ pw[v] = IF v = w THEN z[w] + Total(ls) ELSE z[v]
    <3> HIDE DEF p
    <3> QED BY <1>4, <1>5
  <2>2. SumFunctionOnSet(z, Wallets) = 0 * Cardinality(Wallets) /\ Cardinality(Wallets) \in Nat
    <3>1. \A v \in Wallets : z[v] = 0
      OBVIOUS
    <3> HIDE DEF z
    <3> QED BY <1>1, <3>1, SumEqual, FS_CardinalityType
  <2> HIDE DEF z, pw
  <2>3. SumFunctionOnSet(pw, Wallets) = SumFunctionOnSet(z, Wallets) + Total(ls)
    BY <1>1, <1>4, <2>1, SumChanged
  <2> QED BY <1>4, <2>2, <2>3
<1>8. SumFunctionOnSet(pm, Stalls) = -net
  <2> DEFINE z == [s \in Stalls |-> 0]
  <2>1. \A s \in Stalls : pm[s] \in Int /\ Net(ls)[s] \in Int /\ z[s] = pm[s] + Net(ls)[s]
    <3> HIDE DEF p
    <3> QED BY <1>2, <1>5
  <2>2. SumFunctionOnSet(z, Stalls) = 0 * Cardinality(Stalls) /\ Cardinality(Stalls) \in Nat
    <3>1. \A s \in Stalls : z[s] = 0
      OBVIOUS
    <3> HIDE DEF z
    <3> QED BY <1>1, <3>1, SumEqual, FS_CardinalityType
  <2> HIDE DEF z, pm
  <2>3. SumFunctionOnSet(z, Stalls) = SumFunctionOnSet(pm, Stalls) + net
    BY <1>1, <2>1, SumPlus
  <2>4. SumFunctionOnSet(pm, Stalls) \in Int
    BY <1>1, <2>1, SumType
  <2> QED BY <1>3, <2>2, <2>3, <2>4
<1>9. SumFunctionOnSet(p, Accounts)
        = (p[FLOAT] + p[FEES]) + SumFunctionOnSet(pw, Wallets) + SumFunctionOnSet(pm, Stalls)
  <2> HIDE DEF p
  <2> QED BY <1>6, LedgerSum
<1> HIDE DEF pw, pm, fee, net
<1>10. SumFunctionOnSet(p, Accounts) = 0
  <2> HIDE DEF p
  <2> QED BY <1>3, <1>4, <1>5, <1>7, <1>8, <1>9
<1> QED BY <1>5, <1>6, <1>10

-----------------------------------------------------------------------------
(* The books of the floor.                                                 *)

\* The part of one tab in TabsAddUp.
TabAddsUp(x) ==
    /\ tab[x].subtotal = Total(tab[x].items)
    /\ Of(x) = IF tab[x].status = "settled"
               THEN shareOutByStall(x, tab[x].settleTxnId, tab[x].walletId, tab[x].items)
               ELSE {}

\* What a settlement has read is on the tab as long as its revision is the same.
ReadOK(h) ==
    job[h].at \in {"priced", "tapped"} =>
      /\ job[h].read.revision <= tab[job[h].r.x].revision
      /\ job[h].read.revision = tab[job[h].r.x].revision
           => job[h].read.items = tab[job[h].r.x].items

\* The books, with what the settlements in service have read.
MInv ==
    /\ ledger \in [Accounts -> Int] /\ balance \in [Wallets -> Int]
    /\ BooksAddUp
    /\ \A h \in Handlers : ReadOK(h)

\* Its parts, tab by tab.
LEMMA MInvParts ==
    MInv <=> /\ ledger \in [Accounts -> Int] /\ balance \in [Wallets -> Int]
             /\ \A x \in Tables : TabAddsUp(x)
             /\ MoneyAddsUp
             /\ \A h \in Handlers : ReadOK(h)
BY DEF MInv, BooksAddUp, TabsAddUp, TabAddsUp

\* Lines that are not written keep what they cost and how they are shared out.
LEMMA LinesKept ==
    ASSUME NEW ls, ls \subseteq Lines, \A l \in ls : line'[l] = line[l]
    PROVE  /\ Total(ls)' = Total(ls)
           /\ \A x, id, w : shareOutByStall(x, id, w, ls)' = shareOutByStall(x, id, w, ls)
<1> DEFINE old == [l \in Lines |-> line[l].price]
           new == [l \in Lines |-> line'[l].price]
<1>1. ASSUME NEW ms, ms \subseteq ls PROVE Total(ms)' = Total(ms)
  <2>1. IsFiniteSet(ms) /\ \A l \in ms : new[l] = old[l]
    BY <1>1, PricesAssumption, FS_Subset
  <2>2. Total(ms) = SumFunctionOnSet(old, ms) /\ Total(ms)' = SumFunctionOnSet(new, ms)
    BY DEF Total
  <2> HIDE DEF old, new
  <2>3. SumFunctionOnSet(new, ms) = SumFunctionOnSet(old, ms)
    BY <2>1, SumSame
  <2> QED BY <2>2, <2>3
<1>2. \A s : At(ls, s)' = At(ls, s) /\ At(ls, s) \subseteq ls
  BY DEF At
<1>3. \A s : Total(At(ls, s))' = Total(At(ls, s))
  <2> SUFFICES ASSUME NEW s PROVE Total(At(ls, s))' = Total(At(ls, s))
    OBVIOUS
  <2>1. PICK ms : ms = At(ls, s)
    OBVIOUS
  <2>2. ms \subseteq ls /\ At(ls, s)' = ms
    BY <1>2, <2>1
  <2>3. Total(ms)' = Total(ms)
    BY <1>1, <2>2
  <2>4. Total(At(ls, s))' = Total(ms)'
    BY <2>2 DEF Total
  <2> QED BY <2>1, <2>3, <2>4
<1>4. ASSUME NEW x, NEW id, NEW w
      PROVE  shareOutByStall(x, id, w, ls)' = shareOutByStall(x, id, w, ls)
  BY <1>3 DEF shareOutByStall, Fee
<1> QED BY <1>1, <1>4

\* The books at first: the wallets hold what the float was paid.
LEMMA InitMInv == Init => MInv
<1> SUFFICES ASSUME Init PROVE MInv
  OBVIOUS
<1>1. Funds \in Int /\ IsFiniteSet(Wallets) /\ IsFiniteSet(Stalls) /\ Cardinality(Wallets) \in Int
  BY BoundsAssumption, WalletsAssumption, PctAssumption, FS_CardinalityType
<1>2. PICK n \in Int : n = Cardinality(Wallets)
  BY <1>1
<1>3. Funds * n \in Int
  BY <1>1
<1>4. \A a \in Accounts : ledger[a] = CASE a = FLOAT       -> Funds * n
                                       [] a[1] = "WALLET" -> -Funds
                                       [] OTHER           -> 0
  BY <1>2 DEF Init
<1>5. /\ ledger[FLOAT] = Funds * n /\ ledger[FEES] = 0
      /\ \A w \in Wallets : ledger[WALLET(w)] = -Funds
      /\ \A s \in Stalls : ledger[MERCHANT(s)] = 0
  <2>1. /\ FLOAT \in Accounts /\ FEES \in Accounts /\ FEES # FLOAT /\ FEES[1] # "WALLET"
        /\ FLOAT[1] # "WALLET"
        /\ \A w \in Wallets : WALLET(w) \in Accounts /\ WALLET(w) # FLOAT /\ WALLET(w)[1] = "WALLET"
        /\ \A s \in Stalls : /\ MERCHANT(s) \in Accounts /\ MERCHANT(s) # FLOAT
                            /\ MERCHANT(s)[1] # "WALLET"
    BY DEF FLOAT, FEES, WALLET, MERCHANT, Accounts
  <2> QED BY <1>4, <2>1
<1>6. ledger \in [Accounts -> Int] /\ balance \in [Wallets -> Int]
  <2>1. \A a \in Accounts : ledger[a] \in Int
    BY <1>1, <1>3, <1>5 DEF Accounts
  <2>2. ledger = [a \in Accounts |-> ledger[a]]
    BY DEF Init
  <2> QED BY <1>1, <2>1, <2>2 DEF Init
<1>7. MoneyAddsUp
  <2> DEFINE lw == [w \in Wallets |-> ledger[WALLET(w)]]
             lm == [s \in Stalls |-> ledger[MERCHANT(s)]]
  <2>1. SumFunctionOnSet(ledger, Accounts)
          = (ledger[FLOAT] + ledger[FEES]) + SumFunctionOnSet(lw, Wallets) + SumFunctionOnSet(lm, Stalls)
    <3>1. \A a \in Accounts : ledger[a] \in Int
      BY <1>6
    <3> QED BY <3>1, LedgerSum
  <2>2. SumFunctionOnSet(lw, Wallets) = (-Funds) * n
    <3>1. \A w \in Wallets : lw[w] = -Funds
      BY <1>5
    <3>2. -Funds \in Int
      BY <1>1
    <3> HIDE DEF lw
    <3> QED BY <1>1, <1>2, <3>1, <3>2, SumEqual
  <2>3. SumFunctionOnSet(lm, Stalls) = 0 * Cardinality(Stalls) /\ Cardinality(Stalls) \in Nat
    <3>1. \A s \in Stalls : lm[s] = 0
      BY <1>5
    <3> HIDE DEF lm
    <3> QED BY <1>1, <3>1, SumEqual, FS_CardinalityType
  <2> HIDE DEF lw, lm
  <2>4. (-Funds) * n = -(Funds * n)
    BY <1>1
  <2>5. SumFunctionOnSet(ledger, Accounts) = 0
    BY <1>3, <1>5, <2>1, <2>2, <2>3, <2>4
  <2>6. \A w \in Wallets : balance[w] = Funds /\ Funds >= 0
    BY BoundsAssumption DEF Init
  <2> QED BY <1>5, <2>5, <2>6 DEF MoneyAddsUp
<1>8. ASSUME NEW x \in Tables PROVE TabAddsUp(x)
  <2>1. tab[x] = NoTab /\ Of(x) = {}
    BY DEF Init, Of
  <2>2. Total({}) = 0
    BY SumOfNone DEF Total
  <2> QED BY <2>1, <2>2 DEF TabAddsUp, NoTab
<1>9. \A h \in Handlers : ReadOK(h)
  BY DEF Init, Idle, ReadOK
<1> QED BY <1>6, <1>7, <1>8, <1>9, MInvParts

\* A tab adds up while nothing on it changes and it is not settled.
LEMMA TabKept ==
    ASSUME NEW x, TabAddsUp(x), tab[x].items \subseteq Lines,
           \A l \in tab[x].items : line'[l] = line[l],
           tab'[x].items = tab[x].items, tab'[x].subtotal = tab[x].subtotal,
           tab'[x].status = "settled" <=> tab[x].status = "settled",
           tab'[x].settleTxnId = tab[x].settleTxnId, tab'[x].walletId = tab[x].walletId,
           Of(x)' = Of(x)
    PROVE  TabAddsUp(x)'
<1>1. PICK ls : ls = tab[x].items
  OBVIOUS
<1>2. /\ Total(ls)' = Total(ls)
      /\ \A y, id, w : shareOutByStall(y, id, w, ls)' = shareOutByStall(y, id, w, ls)
  BY <1>1, LinesKept
<1>3. Total(tab[x].items)' = Total(ls)'
  BY <1>1 DEF Total
<1>4. shareOutByStall(x, tab[x].settleTxnId, tab[x].walletId, tab[x].items)'
        = shareOutByStall(x, tab[x].settleTxnId, tab[x].walletId, tab[x].items)
  <2>1. PICK id, w : id = tab[x].settleTxnId /\ w = tab[x].walletId
    OBVIOUS
  <2>2. shareOutByStall(x, tab[x].settleTxnId, tab[x].walletId, tab[x].items)'
          = shareOutByStall(x, id, w, ls)'
    BY <1>1, <2>1 DEF shareOutByStall, At, Total, Fee
  <2> QED BY <1>1, <1>2, <2>1, <2>2
<1> QED BY <1>1, <1>2, <1>3, <1>4 DEF TabAddsUp

\* What is read stays right while no tab changes and no job reads.
LEMMA ReadKept ==
    ASSUME \A h \in Handlers : ReadOK(h), tab' = tab,
           \A h \in Handlers : job'[h].at \in {"priced", "tapped"} =>
             /\ job[h].at \in {"priced", "tapped"}
             /\ job'[h].r = job[h].r /\ job'[h].read = job[h].read
    PROVE  \A h \in Handlers : ReadOK(h)'
BY DEF ReadOK

\* The lines on the tabs, and what is read in service, are there.
LEMMA TabsTyped ==
    ASSUME IInv
    PROVE  /\ \A x \in Tables : /\ tab[x] \in Tab /\ tab[x].items \subseteq Lines
                                /\ tab[x].revision \in Nat /\ IsFiniteSet(tab[x].items)
           /\ \A h \in Handlers : /\ job[h] \in Job /\ job[h].read.revision \in Nat
                                  /\ job[h].at # "idle" => job[h].r.x \in Tables
<1>1. ASSUME NEW x \in Tables
      PROVE  /\ tab[x] \in Tab /\ tab[x].items \subseteq Lines
             /\ tab[x].revision \in Nat /\ IsFiniteSet(tab[x].items)
  <2>1. tab[x] \in Tab /\ tab[x].items \subseteq Lines /\ tab[x].revision \in Nat
    BY DEF IInv, Shapes, Tab
  <2> QED BY <2>1, PricesAssumption, FS_Subset
<1>2. ASSUME NEW h \in Handlers
      PROVE  /\ job[h] \in Job /\ job[h].read.revision \in Nat
             /\ job[h].at # "idle" => job[h].r.x \in Tables
  BY RequestsAssumption DEF IInv, Shapes, Job, Tab, JobOK
<1> QED BY <1>1, <1>2

\* A waiter edits a tab that is not settled, and no money moves.
LEMMA StatusMInv ==
    ASSUME IInv, MInv, NEW x \in Tables, openTable(x) \/ voidTable(x)
    PROVE  MInv'
<1>1. PICK st \in {"open", "voided"} :
         /\ tab[x].status \in {"none", "open"}
         /\ tab' = [tab EXCEPT ![x].status = st]
  BY DEF openTable, voidTable
<1>2. UNCHANGED <<line, balance, charges, ledger, job>>
  BY DEF openTable, voidTable, moneyVars
<1>3. \A y \in Tables : /\ tab'[y].items = tab[y].items /\ tab'[y].subtotal = tab[y].subtotal
                        /\ tab'[y].settleTxnId = tab[y].settleTxnId
                        /\ tab'[y].walletId = tab[y].walletId
                        /\ tab'[y].revision = tab[y].revision
                        /\ tab'[y].status = "settled" <=> tab[y].status = "settled"
  BY <1>1, TabsTyped DEF IInv, Shapes, Tab
<1>4. ASSUME NEW y \in Tables PROVE TabAddsUp(y)'
  <2>1. TabAddsUp(y) /\ Of(y)' = Of(y)
    BY <1>2, MInvParts DEF Of
  <2> QED BY <1>2, <1>3, <2>1, TabKept, TabsTyped
<1>5. ASSUME NEW h \in Handlers PROVE ReadOK(h)'
  <2>1. ReadOK(h) /\ job' = job /\ (job[h].at # "idle" => job[h].r.x \in Tables)
    BY <1>2, MInvParts, TabsTyped
  <2> QED BY <1>3, <2>1 DEF ReadOK
<1>6. MoneyAddsUp'
  BY <1>2, MInvParts DEF MoneyAddsUp
<1>7. ledger' \in [Accounts -> Int] /\ balance' \in [Wallets -> Int]
  BY <1>2, MInvParts
<1> QED BY <1>4, <1>5, <1>6, <1>7 DEF MInv, BooksAddUp, TabsAddUp, TabAddsUp

\* A line is put on a tab: its price is added to the subtotal, and what was read
\* before is of an earlier revision.
LEMMA AddMInv ==
    ASSUME IInv, MInv, NEW x \in Tables, NEW l \in Lines, NEW s \in Stalls, NEW p \in Prices,
           addItem(x, l, s, p)
    PROVE  MInv'
<1>1. /\ tab' = [tab EXCEPT ![x].items = @ \cup {l}, ![x].subtotal = @ + p, ![x].revision = @ + 1]
      /\ line' = [line EXCEPT ![l] = [stall |-> s, price |-> p]]
      /\ Fresh(l) /\ tab[x].status = "open"
      /\ UNCHANGED <<balance, charges, ledger, job>>
  BY DEF addItem, moneyVars
<1>2. /\ \A y \in Tables \ {x} : tab'[y] = tab[y]
      /\ tab'[x].items = tab[x].items \cup {l} /\ tab'[x].subtotal = tab[x].subtotal + p
      /\ tab'[x].revision = tab[x].revision + 1 /\ tab'[x].status = "open"
  BY <1>1, TabsTyped DEF IInv, Shapes, Tab
<1>3. /\ \A y \in Tables : l \notin tab[y].items
      /\ line'[l].price = p /\ \A k \in Lines : k # l => line'[k] = line[k]
  BY <1>1 DEF Fresh, IInv, Shapes
<1>4. ASSUME NEW y \in Tables PROVE TabAddsUp(y)'
  <2>1. TabAddsUp(y) /\ Of(y)' = Of(y)
    BY <1>1, MInvParts DEF Of
  <2>2. tab[y].items \subseteq Lines /\ \A k \in tab[y].items : line'[k] = line[k]
    BY <1>3, TabsTyped
  <2>3. CASE y # x
    BY <1>2, <2>1, <2>2, <2>3, TabKept
  <2>4. CASE y = x
    <3> DEFINE new == [k \in Lines |-> line'[k].price]
    <3>1. PICK ls : ls = tab[x].items
      OBVIOUS
    <3>2. Total(ls)' = Total(ls)
      BY <2>2, <2>4, <3>1, LinesKept
    <3>3. Total(ls)' = SumFunctionOnSet(new, ls)
      BY DEF Total
    <3>4. Total(tab[x].items)' = SumFunctionOnSet(new, ls \cup {l})
      BY <1>2, <3>1 DEF Total
    <3>5. /\ IsFiniteSet(ls) /\ l \notin ls
          /\ \A k \in ls \cup {l} : new[k] \in Int
          /\ new[l] = p
      <4>1. IsFiniteSet(ls) /\ ls \subseteq Lines
        BY <3>1, TabsTyped
      <4>2. \A k \in Lines : line[k].price \in Int
        BY LineTyped DEF IInv
      <4>3. p \in Int
        BY PricesAssumption
      <4> QED BY <1>3, <3>1, <4>1, <4>2, <4>3
    <3> HIDE DEF new
    <3>6. SumFunctionOnSet(new, ls \cup {l}) = SumFunctionOnSet(new, ls) + new[l]
      BY <3>5, SumWith
    <3>7. tab[x].subtotal = Total(ls) /\ Of(x) = {}
      BY <1>1, <2>1, <2>4, <3>1 DEF TabAddsUp
    <3>8. tab'[x].subtotal = Total(tab[x].items)'
      BY <1>2, <3>2, <3>3, <3>4, <3>5, <3>6, <3>7
    <3> QED BY <1>2, <2>1, <2>4, <3>7, <3>8 DEF TabAddsUp
  <2> QED BY <2>3, <2>4
<1>5. ASSUME NEW h \in Handlers PROVE ReadOK(h)'
  <2>1. ReadOK(h) /\ job' = job /\ (job[h].at # "idle" => job[h].r.x \in Tables)
    BY <1>1, MInvParts, TabsTyped
  <2>2. CASE job[h].r.x = x
    <3>1. tab[x].revision \in Nat /\ job[h].read.revision \in Nat
      BY TabsTyped
    <3> QED BY <1>2, <2>1, <2>2, <3>1 DEF ReadOK
  <2>3. CASE job[h].r.x # x
    BY <1>2, <2>1, <2>3 DEF ReadOK
  <2> QED BY <2>2, <2>3
<1>6. MoneyAddsUp'
  BY <1>1, MInvParts DEF MoneyAddsUp
<1>7. ledger' \in [Accounts -> Int] /\ balance' \in [Wallets -> Int]
  BY <1>1, MInvParts
<1> QED BY <1>4, <1>5, <1>6, <1>7 DEF MInv, BooksAddUp, TabsAddUp, TabAddsUp

\* A line is taken off its tab, and its price off the subtotal.
LEMMA RemoveMInv ==
    ASSUME IInv, MInv, NEW x \in Tables, NEW l \in Lines, removeItem(x, l)
    PROVE  MInv'
<1>1. /\ tab' = [tab EXCEPT ![x].items = @ \ {l}, ![x].subtotal = @ - line[l].price,
                            ![x].revision = @ + 1]
      /\ l \in tab[x].items /\ tab[x].status = "open"
      /\ UNCHANGED <<line, balance, charges, ledger, job>>
  BY DEF removeItem, moneyVars
<1>2. /\ \A y \in Tables \ {x} : tab'[y] = tab[y]
      /\ tab'[x].items = tab[x].items \ {l} /\ tab'[x].subtotal = tab[x].subtotal - line[l].price
      /\ tab'[x].revision = tab[x].revision + 1 /\ tab'[x].status = "open"
  BY <1>1, TabsTyped DEF IInv, Shapes, Tab
<1>3. ASSUME NEW y \in Tables PROVE TabAddsUp(y)'
  <2>1. TabAddsUp(y) /\ Of(y)' = Of(y)
    BY <1>1, MInvParts DEF Of
  <2>2. tab[y].items \subseteq Lines /\ \A k \in tab[y].items : line'[k] = line[k]
    BY <1>1, TabsTyped
  <2>3. CASE y # x
    BY <1>2, <2>1, <2>2, <2>3, TabKept
  <2>4. CASE y = x
    <3>1. PICK ls : ls = tab[x].items
      OBVIOUS
    <3>2. /\ Total(ls) = SumFunctionOnSet(LineBook, ls)
          /\ Total(tab[x].items)' = SumFunctionOnSet(LineBook, ls \ {l})
          /\ LineBook[l] = line[l].price
      BY <1>1, <1>2, <3>1 DEF Total, LineBook
    <3>3. IsFiniteSet(ls) /\ l \in ls /\ \A k \in ls : LineBook[k] \in Int
      <4>1. IsFiniteSet(ls) /\ ls \subseteq Lines
        BY <3>1, TabsTyped
      <4>2. \A k \in Lines : line[k].price \in Int
        BY LineTyped DEF IInv
      <4> QED BY <1>1, <3>1, <4>1, <4>2 DEF LineBook
    <3>4. /\ SumFunctionOnSet(LineBook, ls) = LineBook[l] + SumFunctionOnSet(LineBook, ls \ {l})
          /\ SumFunctionOnSet(LineBook, ls \ {l}) \in Int
      BY <3>3, SumWithout
    <3>5. tab[x].subtotal = Total(ls) /\ Of(x) = {}
      BY <1>1, <2>1, <2>4, <3>1 DEF TabAddsUp
    <3>6. tab'[x].subtotal = Total(tab[x].items)'
      BY <1>2, <3>2, <3>3, <3>4, <3>5
    <3> QED BY <1>2, <2>1, <2>4, <3>5, <3>6 DEF TabAddsUp
  <2> QED BY <2>3, <2>4
<1>4. ASSUME NEW h \in Handlers PROVE ReadOK(h)'
  <2>1. ReadOK(h) /\ job' = job /\ (job[h].at # "idle" => job[h].r.x \in Tables)
    BY <1>1, MInvParts, TabsTyped
  <2>2. CASE job[h].r.x = x
    <3>1. tab[x].revision \in Nat /\ job[h].read.revision \in Nat
      BY TabsTyped
    <3> QED BY <1>2, <2>1, <2>2, <3>1 DEF ReadOK
  <2>3. CASE job[h].r.x # x
    BY <1>2, <2>1, <2>3 DEF ReadOK
  <2> QED BY <2>2, <2>3
<1>5. MoneyAddsUp'
  BY <1>1, MInvParts DEF MoneyAddsUp
<1>6. ledger' \in [Accounts -> Int] /\ balance' \in [Wallets -> Int]
  BY <1>1, MInvParts
<1> QED BY <1>3, <1>4, <1>5, <1>6 DEF MInv, BooksAddUp, TabsAddUp, TabAddsUp

\* The tabs stay right while neither they nor their charges are touched.
LEMMA TabsKept ==
    ASSUME IInv, MInv, UNCHANGED <<tab, line, charges>>
    PROVE  \A x \in Tables : TabAddsUp(x)'
<1> SUFFICES ASSUME NEW x \in Tables PROVE TabAddsUp(x)'
  OBVIOUS
<1>1. TabAddsUp(x) /\ Of(x)' = Of(x)
  BY MInvParts DEF Of
<1>2. tab[x].items \subseteq Lines
  BY TabsTyped
<1> QED BY <1>1, <1>2, TabKept

\* A payment at a stall: what leaves the wallet is owed to the stall.
LEMMA SpendMInv ==
    ASSUME IInv, MInv, NEW w \in Wallets, NEW s \in Stalls, Spend(w, s, 1)
    PROVE  MInv'
<1>1. /\ balance[w] >= 1 /\ balance' = [balance EXCEPT ![w] = @ - 1]
      /\ ledger' = [ledger EXCEPT ![WALLET(w)] = @ + 1, ![MERCHANT(s)] = @ - 1]
      /\ UNCHANGED <<tab, line, charges, job>>
  BY DEF Spend, floorVars
<1>2. /\ ledger \in [Accounts -> Int] /\ balance \in [Wallets -> Int]
      /\ MoneyAddsUp /\ \A h \in Handlers : ReadOK(h)
  BY MInvParts
<1>3. /\ WALLET(w) \in Accounts /\ MERCHANT(s) \in Accounts /\ WALLET(w) # MERCHANT(s)
      /\ \A v \in Wallets : /\ WALLET(v) \in Accounts /\ WALLET(v) # MERCHANT(s)
                           /\ v # w => WALLET(v) # WALLET(w)
  BY DEF WALLET, MERCHANT, Accounts
<1> DEFINE mid == [ledger EXCEPT ![WALLET(w)] = @ + 1]
<1>4. /\ \A a \in Accounts : ledger[a] \in Int /\ mid[a] = IF a = WALLET(w) THEN ledger[WALLET(w)] + 1
                                                         ELSE ledger[a]
      /\ \A a \in Accounts : mid[a] \in Int /\ ledger'[a] = IF a = MERCHANT(s) THEN mid[MERCHANT(s)] + (-1)
                                                         ELSE mid[a]
      /\ ledger' \in [Accounts -> Int] /\ balance' \in [Wallets -> Int]
  BY <1>1, <1>2, <1>3
<1>5. SumFunctionOnSet(ledger', Accounts) = 0
  <2>1. IsFiniteSet(Accounts) /\ SumFunctionOnSet(ledger, Accounts) = 0
    BY <1>2, <1>4, LedgerSum DEF MoneyAddsUp
  <2> HIDE DEF mid
  <2>2. SumFunctionOnSet(mid, Accounts) = SumFunctionOnSet(ledger, Accounts) + 1
    <3>1. PICK k : k = WALLET(w) /\ k \in Accounts
      BY <1>3
    <3>2. \A a \in Accounts : ledger[a] \in Int /\ mid[a] = IF a = k THEN ledger[k] + 1 ELSE ledger[a]
      BY <1>4, <3>1
    <3> QED BY <2>1, <3>1, <3>2, SumChanged
  <2>3. SumFunctionOnSet(ledger', Accounts) = SumFunctionOnSet(mid, Accounts) + (-1)
    <3>1. PICK k : k = MERCHANT(s) /\ k \in Accounts
      BY <1>3
    <3>2. \A a \in Accounts : mid[a] \in Int /\ ledger'[a] = IF a = k THEN mid[k] + (-1) ELSE mid[a]
      BY <1>4, <3>1
    <3>3. -1 \in Int
      OBVIOUS
    <3> QED BY <2>1, <3>1, <3>2, <3>3, SumChanged
  <2> QED BY <2>1, <2>2, <2>3
<1>6. ASSUME NEW v \in Wallets PROVE balance'[v] >= 0 /\ ledger'[WALLET(v)] = -balance'[v]
  <2>1. balance[v] >= 0 /\ ledger[WALLET(v)] = -balance[v] /\ balance[v] \in Int
    BY <1>2 DEF MoneyAddsUp
  <2>2. CASE v = w
    BY <1>1, <1>2, <1>3, <1>4, <2>1, <2>2
  <2>3. CASE v # w
    <3>1. WALLET(v) \in Accounts /\ WALLET(v) # MERCHANT(s) /\ WALLET(v) # WALLET(w)
      BY <2>3 DEF WALLET, MERCHANT, Accounts
    <3>2. ledger'[WALLET(v)] = ledger[WALLET(v)] /\ balance'[v] = balance[v]
      BY <1>1, <1>2, <2>3, <3>1
    <3> QED BY <2>1, <3>2
  <2> QED BY <2>2, <2>3
<1>7. MoneyAddsUp'
  BY <1>5, <1>6 DEF MoneyAddsUp
<1>8. (\A h \in Handlers : ReadOK(h)') /\ \A x \in Tables : TabAddsUp(x)'
  BY <1>1, <1>2, TabsKept, ReadKept
<1> QED BY <1>4, <1>7, <1>8 DEF MInv, BooksAddUp, TabsAddUp, TabAddsUp

\* Neither tabs nor money: only what is read can go wrong.
LEMMA StillMInv ==
    ASSUME IInv, MInv, UNCHANGED <<tab, line, moneyVars>>, \A h \in Handlers : ReadOK(h)'
    PROVE  MInv'
<1>1. \A x \in Tables : TabAddsUp(x)'
  BY TabsKept DEF moneyVars
<1>2. /\ ledger' \in [Accounts -> Int] /\ balance' \in [Wallets -> Int]
      /\ MoneyAddsUp'
  BY MInvParts DEF moneyVars, MoneyAddsUp
<1> QED BY <1>1, <1>2 DEF MInv, BooksAddUp, TabsAddUp, TabAddsUp

\* A tag moves.
LEMMA RebindMInv ==
    ASSUME IInv, MInv, NEW w \in Wallets, NEW u \in Tags \cup {None}, Rebind(w, u)
    PROVE  MInv'
<1>1. /\ UNCHANGED <<tab, line, moneyVars>>
      /\ job' = [h \in Handlers |->
                   IF job[h].at # "idle" /\ job[h].r.u = u
                   THEN [job[h] EXCEPT !.wore = @ \cup {w}] ELSE job[h]]
  BY DEF Rebind, floorVars
<1>2. \A h \in Handlers : /\ job'[h].at = job[h].at /\ job'[h].r = job[h].r
                          /\ job'[h].read = job[h].read
  BY <1>1, TabsTyped DEF Job
<1>3. \A h \in Handlers : ReadOK(h)'
  BY <1>1, <1>2, ReadKept, MInvParts
<1> QED BY <1>1, <1>3, StillMInv

\* A step of one job that reads nothing from the tab.
LEMMA JobMInv ==
    ASSUME IInv, MInv, UNCHANGED <<tab, line, moneyVars>>, NEW h \in Handlers, NEW j,
           job' = [job EXCEPT ![h] = j],
           j.at \in {"priced", "tapped"} =>
             /\ job[h].at \in {"priced", "tapped"} /\ j.r = job[h].r /\ j.read = job[h].read
    PROVE  MInv'
<1>1. \A g \in Handlers : job'[g] = IF g = h THEN j ELSE job[g]
  BY DEF IInv, Shapes
<1>2. \A g \in Handlers : ReadOK(g)'
  BY <1>1, ReadKept, MInvParts
<1> QED BY <1>2, StillMInv

\* The steps of a settlement that answer, ask, read or find the wallet.
LEMMA AnswerMInv ==
    ASSUME IInv, MInv, UNCHANGED <<tab, line, moneyVars>>, NEW h \in Handlers, NEW a, Answered(h, a)
    PROVE  MInv'
<1> DEFINE j == [job[h] EXCEPT !.at = "done", !.ans = a]
<1>1. job' = [job EXCEPT ![h] = j] /\ j.at = "done"
  BY TabsTyped DEF Answered, Job, IInv, Shapes
<1> HIDE DEF j
<1> QED BY <1>1, JobMInv

LEMMA AskMInv ==
    ASSUME IInv, MInv, NEW h \in Handlers, NEW r \in Requests, Ask(h, r)
    PROVE  MInv'
<1> DEFINE j == [Idle EXCEPT !.at = "sent", !.r = r, !.wore = Wearers(r.u)]
<1>1. job' = [job EXCEPT ![h] = j] /\ j.at = "sent" /\ UNCHANGED <<tab, line, moneyVars>>
  BY DEF Ask, Idle, floorVars
<1> HIDE DEF j
<1> QED BY <1>1, JobMInv

LEMMA ReturnMInv ==
    ASSUME IInv, MInv, NEW h \in Handlers, Return(h)
    PROVE  MInv'
<1>1. job' = [job EXCEPT ![h] = Idle] /\ Idle.at = "idle" /\ UNCHANGED <<tab, line, moneyVars>>
  BY DEF Return, Idle, floorVars
<1> QED BY <1>1, JobMInv

LEMMA ReadMInv ==
    ASSUME IInv, MInv, NEW h \in Handlers, ReadTable(h)
    PROVE  MInv'
<1> DEFINE t == tab[job[h].r.x]
<1>1. job[h].at = "sent" /\ UNCHANGED <<tab, line, moneyVars>>
  BY DEF ReadTable, floorVars
<1>2. ASSUME NEW a, Answered(h, a) PROVE MInv'
  BY <1>1, <1>2, AnswerMInv
<1>3. ASSUME job' = [job EXCEPT ![h].at = "priced", ![h].read = t] PROVE MInv'
  <2>1. job[h].r.x \in Tables /\ job[h] \in Job /\ tab[job[h].r.x].revision \in Nat
    BY <1>1, TabsTyped
  <2>2. /\ job'[h].r = job[h].r /\ job'[h].read = t
        /\ \A g \in Handlers : g # h => job'[g] = job[g]
    BY <1>3, <2>1 DEF IInv, Shapes, Job
  <2>3. ReadOK(h)'
    BY <1>1, <2>1, <2>2 DEF ReadOK
  <2>4. \A g \in Handlers : g # h => ReadOK(g)'
    BY <1>1, <2>2, MInvParts DEF ReadOK
  <2> QED BY <1>1, <2>3, <2>4, StillMInv
<1> QED BY <1>2, <1>3 DEF ReadTable

LEMMA TapMInv ==
    ASSUME IInv, MInv, NEW h \in Handlers, TapTag(h)
    PROVE  MInv'
<1>1. job[h].at = "priced" /\ UNCHANGED <<tab, line, moneyVars>>
  BY DEF TapTag, floorVars
<1>2. ASSUME NEW a, Answered(h, a) PROVE MInv'
  BY <1>1, <1>2, AnswerMInv
<1>3. ASSUME NEW w, job' = [job EXCEPT ![h].at = "tapped", ![h].tapped = w] PROVE MInv'
  <2> DEFINE j == [job[h] EXCEPT !.at = "tapped", !.tapped = w]
  <2>1. job' = [job EXCEPT ![h] = j] /\ j.r = job[h].r /\ j.read = job[h].read
    BY <1>3, TabsTyped DEF IInv, Shapes, Job
  <2> HIDE DEF j
  <2> QED BY <1>1, <2>1, JobMInv
<1> QED BY <1>2, <1>3 DEF TapTag

LEMMA AbortMInv ==
    ASSUME IInv, MInv, NEW h \in Handlers, Abort(h)
    PROVE  MInv'
<1>1. UNCHANGED <<tab, line, moneyVars>>
  BY DEF Abort, floorVars
<1>2. \E a : Answered(h, a)
  BY DEF Abort
<1> QED BY <1>1, <1>2, AnswerMInv

\* The commit: the tab is still the one that was read, so what is charged is what
\* is on it; the entry is balanced and the wallet covers it.
LEMMA SettleMInv ==
    ASSUME IInv, MInv, NEW h \in Handlers, Settle(h)
    PROVE  MInv'
<1>1. PICK r, w, ls, total :
         /\ r = job[h].r /\ w = job[h].tapped /\ ls = job[h].read.items /\ total = Total(ls)
  OBVIOUS
<1>2. PICK shares : shares = shareOutByStall(r.x, r.id, w, ls)
  OBVIOUS
<1>3. /\ job[h].at = "tapped" /\ tab[r.x].status = "open"
      /\ tab[r.x].revision = job[h].read.revision /\ balance[w] >= total
      /\ tab' = [tab EXCEPT ![r.x].status = "settled", ![r.x].walletId = w,
                            ![r.x].settleTxnId = r.id]
      /\ balance' = [balance EXCEPT ![w] = @ - total]
      /\ charges' = charges \cup shares
      /\ ledger' = [a \in Accounts |-> ledger[a] + Posting(ls, w)[a]]
      /\ line' = line
  BY <1>1, <1>2 DEF Settle, AsPriced, Debitable
<1>4. /\ r.x \in Tables /\ r.id \in Ids /\ w \in Wallets
      /\ ls = tab[r.x].items /\ ls \subseteq Lines
      /\ \A l \in ls : line[l].stall \in Stalls
  <2>1. r \in Requests /\ r.x \in Tables /\ r.id \in Ids /\ w \in Wallets
    BY <1>1, <1>3, RequestsAssumption DEF IInv, JobOK, Shapes, Job, Ids
  <2>2. ReadOK(h) /\ TabOK(r.x) /\ tab[r.x].items \subseteq Lines
    BY <2>1, MInvParts, TabsTyped DEF IInv
  <2>3. ls = tab[r.x].items
    BY <1>1, <1>3, <2>2 DEF ReadOK
  <2> QED BY <2>1, <2>2, <2>3 DEF TabOK
<1>5. /\ \A y \in Tables \ {r.x} : tab'[y] = tab[y]
      /\ tab'[r.x].items = ls /\ tab'[r.x].subtotal = tab[r.x].subtotal
      /\ tab'[r.x].revision = tab[r.x].revision /\ tab'[r.x].status = "settled"
      /\ tab'[r.x].settleTxnId = r.id /\ tab'[r.x].walletId = w
  BY <1>3, <1>4, TabsTyped DEF IInv, Shapes, Tab
<1>6. \A c \in shares : c.x = r.x
  BY <1>2 DEF shareOutByStall
<1>7. ASSUME NEW y \in Tables PROVE TabAddsUp(y)'
  <2>1. TabAddsUp(y) /\ tab[y].items \subseteq Lines
    BY MInvParts, TabsTyped
  <2>2. CASE y # r.x
    <3>1. Of(y)' = Of(y)
      BY <1>3, <1>6, <2>2 DEF Of
    <3> QED BY <1>3, <1>5, <2>1, <2>2, <3>1, TabKept
  <2>3. CASE y = r.x
    <3>1. Of(y) = {} /\ tab[y].subtotal = Total(ls)
      BY <1>3, <1>4, <2>1, <2>3 DEF TabAddsUp
    <3>2. Of(y)' = shares
      BY <1>3, <1>6, <2>3, <3>1 DEF Of
    <3>3. Total(tab[y].items)' = Total(ls)
      BY <1>3, <1>5, <2>3 DEF Total
    <3>4. shareOutByStall(y, tab[y].settleTxnId, tab[y].walletId, tab[y].items)' = shares
      <4>1. shareOutByStall(y, tab[y].settleTxnId, tab[y].walletId, tab[y].items)'
              = shareOutByStall(y, r.id, w, ls)'
        BY <1>5, <2>3 DEF shareOutByStall, At, Total, Fee
      <4>2. shareOutByStall(y, r.id, w, ls)' = shareOutByStall(y, r.id, w, ls)
        BY <1>3, <1>4, LinesKept
      <4> QED BY <1>2, <2>3, <4>1, <4>2
    <3> QED BY <1>5, <2>3, <3>1, <3>2, <3>3, <3>4 DEF TabAddsUp
  <2> QED BY <2>2, <2>3
<1>8. /\ ledger \in [Accounts -> Int] /\ balance \in [Wallets -> Int] /\ MoneyAddsUp
  BY MInvParts
<1>9. /\ \A a \in Accounts : Posting(ls, w)[a] \in Int
      /\ \A v \in Wallets : Posting(ls, w)[WALLET(v)] = IF v = w THEN total ELSE 0
      /\ SumFunctionOnSet(Posting(ls, w), Accounts) = 0
  BY <1>1, <1>4, PostingBalanced DEF IInv
<1>10. total \in Int
  BY <1>1, <1>4, TotalShared DEF IInv
<1>11. ledger' \in [Accounts -> Int] /\ balance' \in [Wallets -> Int]
  BY <1>3, <1>4, <1>8, <1>9, <1>10
<1>12. SumFunctionOnSet(ledger', Accounts) = 0
  <2>1. PICK p : p = Posting(ls, w)
    OBVIOUS
  <2>2. \A a \in Accounts : ledger[a] \in Int /\ p[a] \in Int /\ ledger'[a] = ledger[a] + p[a]
    BY <1>3, <1>8, <1>9, <2>1
  <2>3. IsFiniteSet(Accounts)
    BY <2>2, LedgerSum
  <2>4. SumFunctionOnSet(ledger', Accounts)
          = SumFunctionOnSet(ledger, Accounts) + SumFunctionOnSet(p, Accounts)
    BY <2>2, <2>3, SumPlus
  <2> QED BY <1>8, <1>9, <2>1, <2>4 DEF MoneyAddsUp
<1>13. ASSUME NEW v \in Wallets PROVE balance'[v] >= 0 /\ ledger'[WALLET(v)] = -balance'[v]
  <2>1. /\ balance[v] >= 0 /\ ledger[WALLET(v)] = -balance[v] /\ balance[v] \in Int
        /\ WALLET(v) \in Accounts
    BY <1>8 DEF MoneyAddsUp, Accounts
  <2>2. ledger'[WALLET(v)] = ledger[WALLET(v)] + IF v = w THEN total ELSE 0
    BY <1>3, <1>9, <2>1
  <2>3. balance'[v] = IF v = w THEN balance[v] - total ELSE balance[v]
    BY <1>3, <1>8
  <2> QED BY <1>3, <1>10, <2>1, <2>2, <2>3
<1>14. MoneyAddsUp'
  BY <1>12, <1>13 DEF MoneyAddsUp
<1>15. ASSUME NEW g \in Handlers PROVE ReadOK(g)'
  <2>1. job' = [k \in Handlers |->
                 IF k = h THEN [job[k] EXCEPT !.at = "done", !.ans = "ok"]
                 ELSE IF job[k].at # "idle" /\ job[k].r.x = job[h].r.x /\ job[k].r.id = job[h].r.id
                 THEN [job[k] EXCEPT !.raced = TRUE] ELSE job[k]]
    BY DEF Settle
  <2>2. job[g] \in Job /\ (job[g].at # "idle" => job[g].r.x \in Tables) /\ ReadOK(g)
    BY MInvParts, TabsTyped
  <2>3. CASE g = h
    <3>1. job'[g].at = "done"
      BY <2>1, <2>2, <2>3 DEF Job
    <3> QED BY <3>1 DEF ReadOK
  <2>4. CASE g # h
    <3>1. job'[g].at = job[g].at /\ job'[g].r = job[g].r /\ job'[g].read = job[g].read
      BY <2>1, <2>2, <2>4 DEF Job
    <3>2. \A y \in Tables : tab'[y].revision = tab[y].revision /\ tab'[y].items = tab[y].items
      BY <1>4, <1>5
    <3> QED BY <2>2, <3>1, <3>2 DEF ReadOK
  <2> QED BY <2>3, <2>4
<1> QED BY <1>7, <1>11, <1>14, <1>15 DEF MInv, BooksAddUp, TabsAddUp, TabAddsUp

\* Every step keeps the books.
LEMMA NextMInv == IInv /\ MInv /\ [Next]_vars => MInv'
<1> SUFFICES ASSUME IInv, MInv, [Next]_vars PROVE MInv'
  OBVIOUS
<1>1. ASSUME UNCHANGED <<tab, line, moneyVars, job>> PROVE MInv'
  <2>1. \A h \in Handlers : ReadOK(h)'
    BY <1>1, MInvParts DEF ReadOK
  <2> QED BY <1>1, <2>1, StillMInv
<1>2. ASSUME NEW x \in Tables, Waiters(x) PROVE MInv'
  <2>1. ASSUME NEW s \in Stalls, handOut(x, s) \/ accept(x, s) PROVE MInv'
    <3>1. UNCHANGED <<tab, line, moneyVars, job>>
      BY <2>1 DEF handOut, accept, advanceFulfilment
    <3> QED BY <1>1, <3>1
  <2> QED BY <1>2, <2>1, StatusMInv, AddMInv, RemoveMInv DEF Waiters
<1>3. CASE UNCHANGED vars
  <2>1. UNCHANGED <<tab, line, moneyVars, job>>
    BY <1>3 DEF vars, floorVars
  <2> QED BY <1>1, <2>1
<1> QED BY <1>2, <1>3, SpendMInv, RebindMInv, AskMInv, ReturnMInv, ReadMInv, TapMInv, SettleMInv,
          AbortMInv DEF Next

\* In every state a settled tab is charged once, to one wallet, for its lines,
\* every stall for its own; an unsettled one has charged nobody; every entry is
\* balanced and the journal tells every wallet, which is never below zero: for
\* any tables, stalls, commission rates, tags and settlements at the same time.
THEOREM BooksKept == Spec => []BooksAddUp
<1>1. Init => MInv
  BY InitMInv
<1>2. IInv /\ MInv /\ [Next]_vars => MInv'
  BY NextMInv
<1>3. MInv => BooksAddUp
  BY DEF MInv
<1> QED BY <1>1, <1>2, <1>3, Invariance, PTL DEF Spec
-----------------------------------------------------------------------------
(* Types.  What IInv and MInv leave out of TypeOK: the handover, the rows  *)
(* of the charges, and the bounds.                                         *)

TInv ==
    /\ handover \in [Tables -> [Stalls -> Rows]]
    /\ charges \subseteq Charge
    /\ asked \in 0..MaxAsks /\ moved \in 0..MaxMoves

\* The share of a stall is a charge, and its fee is not negative.
LEMMA SharesTyped ==
    ASSUME Shapes, NEW ls, ls \subseteq Lines,
           NEW x \in Tables, NEW id \in Ids, NEW w \in Wallets
    PROVE  shareOutByStall(x, id, w, ls) \subseteq Charge
<1> SUFFICES ASSUME NEW s \in Stalls, Total(At(ls, s)) > 0
             PROVE  [x |-> x, s |-> s, id |-> id, w |-> w, gross |-> Total(At(ls, s)),
                     fee |-> Fee(s, Total(At(ls, s)))] \in Charge
  BY DEF shareOutByStall
<1>1. PICK n \in Nat : n = Total(At(ls, s))
  <2>1. Total(At(ls, s)) \in Int
    BY TotalShared
  <2> QED BY <2>1
<1>2. PICK p \in Nat : p = Pct[s]
  BY PctAssumption
<1>3. n * p \in Nat
  OBVIOUS
<1>4. Fee(s, n) \in Nat
  BY <1>2, <1>3 DEF Fee
<1> QED BY <1>1, <1>4 DEF Charge

LEMMA NextTInv == IInv /\ TInv /\ [Next]_vars => TInv'
<1> SUFFICES ASSUME IInv, TInv, [Next]_vars PROVE TInv'
  OBVIOUS
<1> USE BoundsAssumption
<1>1. ASSUME NEW x \in Tables, Waiters(x) PROVE TInv'
  <2>1. CASE openTable(x) \/ voidTable(x)
    BY <2>1 DEF openTable, voidTable, moneyVars, TInv
  <2>2. ASSUME NEW l \in Lines, removeItem(x, l) PROVE TInv'
    BY <2>2, Zenon DEF removeItem, moneyVars, TInv
  <2>3. ASSUME NEW l \in Lines, NEW s \in Stalls, NEW q \in Prices, addItem(x, l, s, q)
        PROVE  TInv'
    BY <2>3, Zenon DEF addItem, moneyVars, TInv
  <2>4. ASSUME NEW s \in Stalls, handOut(x, s) \/ accept(x, s) PROVE TInv'
    <3>1. PICK to \in Rows : handover' = [handover EXCEPT ![x][s] = to]
      BY <2>4 DEF handOut, accept, advanceFulfilment, Rows
    <3>2. UNCHANGED <<charges, asked, moved>>
      BY <2>4 DEF handOut, accept, advanceFulfilment, moneyVars
    <3> QED BY <3>1, <3>2 DEF TInv
  <2> QED BY <1>1, <2>1, <2>2, <2>3, <2>4 DEF Waiters
<1>2. ASSUME NEW w \in Wallets, NEW s \in Stalls, Spend(w, s, 1) PROVE TInv'
  BY <1>2 DEF Spend, TInv, floorVars
<1>3. ASSUME NEW w \in Wallets, NEW u \in Tags \cup {None}, Rebind(w, u) PROVE TInv'
  BY <1>3 DEF Rebind, TInv, floorVars, moneyVars
<1>4. ASSUME NEW h \in Handlers, NEW r \in Requests, Ask(h, r) PROVE TInv'
  BY <1>4 DEF Ask, TInv, floorVars, moneyVars
<1>5. ASSUME NEW h \in Handlers, ReadTable(h) \/ TapTag(h) \/ Abort(h) \/ Return(h)
      PROVE  TInv'
  <2>1. UNCHANGED <<handover, charges, asked, moved>>
    BY <1>5 DEF ReadTable, TapTag, Abort, Return, floorVars, moneyVars
  <2> QED BY <2>1 DEF TInv
<1>6. ASSUME NEW h \in Handlers, Settle(h) PROVE TInv'
  <2>1. PICK r, w, ls : r = job[h].r /\ w = job[h].tapped /\ ls = job[h].read.items
    OBVIOUS
  <2>2. PICK shares : shares = shareOutByStall(r.x, r.id, w, ls)
    OBVIOUS
  <2>3. /\ handover' = [handover EXCEPT ![r.x] = [s \in Stalls |->
                          IF \E c \in shares : c.s = s THEN "paid" ELSE "none"]]
        /\ charges' = charges \cup shares
        /\ UNCHANGED <<asked, moved>>
    BY <1>6, <2>1, <2>2, Zenon DEF Settle
  <2>4. job[h].at = "tapped" /\ job[h] \in Job /\ JobOK(h)
    <3>1. job[h].at = "tapped"
      BY <1>6, Zenon DEF Settle
    <3> QED BY <3>1 DEF IInv, Shapes
  <2>5. /\ r \in Requests /\ r.x \in Tables /\ r.id \in Ids /\ w \in Wallets
        /\ ls \subseteq Lines
    BY <2>1, <2>4, RequestsAssumption DEF JobOK, Job, Tab, Ids
  <2>6. shares \subseteq Charge
    BY <2>2, <2>5, SharesTyped DEF IInv
  <2>7. handover' \in [Tables -> [Stalls -> Rows]]
    BY <2>3, <2>5 DEF TInv, Rows
  <2> QED BY <2>3, <2>6, <2>7 DEF TInv
<1>7. CASE UNCHANGED vars
  BY <1>7 DEF vars, floorVars, moneyVars, TInv
<1> QED BY <1>1, <1>2, <1>3, <1>4, <1>5, <1>6, <1>7 DEF Next

\* Every variable keeps its type: the rows of the charges name a table, a stall,
\* an id and a wallet that exist, and no fee is negative.
THEOREM TypeCorrect == Spec => []TypeOK
<1>1. Init => TInv
  BY BoundsAssumption DEF Init, TInv, Rows
<1>2. IInv /\ TInv /\ [Next]_vars => TInv'
  BY NextTInv
<1>3. IInv /\ MInv /\ TInv => TypeOK
  BY DEF IInv, Shapes, MInv, TInv, TypeOK
<1>4. Init => MInv
  BY InitMInv
<1>5. IInv /\ MInv /\ [Next]_vars => MInv'
  BY NextMInv
<1> QED BY <1>1, <1>2, <1>3, <1>4, <1>5, Invariance, PTL DEF Spec
===============================================================================
