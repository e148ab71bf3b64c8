-------------------------------- MODULE Bands --------------------------------
(***************************************************************************)
(* The tags of one event: the register that admits them, the wallet that   *)
(* wears one, the ticket a wallet belongs to, and the trail of bindings.   *)
(* No operation is a transaction: each is a sequence of single-document    *)
(* writes, ordered and compensated by hand, so the grain of the model is   *)
(* one write or one read that a later write depends on.                    *)
(***************************************************************************)
EXTENDS EventDesks, Sequences, FiniteSets

CONSTANTS Tags,       \* physical tags, by their canonical uid
          Wallets     \* wallets made in a behaviour

ASSUME NoneAssumption == None \notin Tags \cup Wallets \cup Tickets

VARIABLES
    tag,      \* EventTag.status, by uid: the index is unique
    made,     \* wallets that exist
    band,     \* Wallet.bandUid
    ticket,   \* Wallet.ticketId
    trail,    \* BandBinding rows of a wallet, oldest first
    job,      \* per handler: its request, where it stands, what it has read
    begun,    \* requests begun
    faults,   \* faults so far
    crossed,  \* tags bound while they were being retired
    tangled,  \* wallets rebound before the last binding was recorded
    doubled,  \* wallets that two requests were giving a ticket
    cut       \* wallets whose request was cut short

wallets == <<made, band, ticket>>
hist    == <<crossed, tangled, doubled>>
vars    == <<tag, wallets, trail, job, begun, faults, hist, cut>>

Kinds == {"none", "register", "issue", "bind", "unbind", "reissue", "restore", "retire"}

\* enrol, revive: the register was read, its row comes next.  seek, assert,
\* mint, row: a standalone wallet.  look, adopt, ensure: the ticket of a band.
\* assert, claim, audit, undo: a binding.  taken, release, stamp: an unbinding.
\* worn, flip: the retirement of a tag.
Steps == {"idle", "enrol", "revive", "seek", "mint", "row", "look", "adopt", "ensure",
          "assert", "claim", "audit", "undo", "taken", "release", "stamp", "worn", "flip"}

Row == [uid : Tags, open : BOOLEAN]

Job == [k : Kinds, at : Steps, u : Tags \cup {None}, w : Wallets \cup {None},
        t : Tickets \cup {None}, previous : Tags \cup {None}, money : BOOLEAN]

Idle == [k |-> "none", at |-> "idle", u |-> None, w |-> None, t |-> None,
         previous |-> None, money |-> FALSE]

Init ==
    /\ tag \in [Tags -> {"none", "active"}]
    /\ made = {}
    /\ band = [w \in Wallets |-> None]
    /\ ticket = [w \in Wallets |-> None]
    /\ trail = [w \in Wallets |-> <<>>]
    /\ job = [h \in Handlers |-> Idle]
    /\ begun = 0 /\ faults = 0
    /\ crossed = {} /\ tangled = {} /\ doubled = {} /\ cut = {}

-----------------------------------------------------------------------------
(* Steps of a request.                                                     *)

Begins(h, j) ==
    /\ job[h] = Idle /\ begun < MaxOps
    /\ begun' = begun + 1
    /\ job' = [job EXCEPT ![h] = j]
    /\ UNCHANGED <<tag, wallets, trail, faults, hist, cut>>

Goes(h, at) == job' = [job EXCEPT ![h].at = at]
Ends(h)     == job' = [job EXCEPT ![h] = Idle]

Wearers(u) == {w \in Wallets : band[w] = u}
WalletsOf(t) == {w \in Wallets : ticket[w] = t}

\* A binding of u that has passed the register.
Admitted(g, u) == job[g].u = u /\ job[g].at \in {"claim", "mint"}

Retiring(g, u) == job[g].k = "retire" /\ job[g].u = u /\ job[g].at # "idle"

\* g has changed the band of w and not yet the trail.
Owes(g, w) == job[g].w = w /\ job[g].at \in {"row", "audit", "undo", "stamp"}

Tangles(h, w) == IF \E g \in Handlers \ {h} : Owes(g, w) THEN tangled \cup {w} ELSE tangled
Crosses(u) == IF \E g \in Handlers : Retiring(g, u) THEN crossed \cup {u} ELSE crossed

-----------------------------------------------------------------------------
(* The register.                                                           *)

\* registerTag for one tap; money: the desk wants a wallet for it as well.
registerTag(h, u, money) ==
    LET at == CASE tag[u] = "none"    -> "enrol"
                [] tag[u] = "retired" -> "revive"
                [] OTHER              -> "seek"
    IN  /\ at = "seek" => money
        /\ Begins(h, [Idle EXCEPT !.k = "register", !.at = at, !.u = u, !.money = money])

\* The row is created, or saved as active; the loser of a creation re-reads it.
Enrol(h) ==
    LET u == job[h].u IN
    /\ job[h].at \in {"enrol", "revive"}
    /\ tag' = IF job[h].at = "enrol" /\ tag[u] # "none" THEN tag
              ELSE [tag EXCEPT ![u] = "active"]
    /\ IF job[h].money THEN Goes(h, "seek") ELSE Ends(h)
    /\ UNCHANGED <<wallets, trail, begun, faults, hist, cut>>

assertTagRegistered(u) == tag[u] = "active"

-----------------------------------------------------------------------------
(* A wallet of its own.                                                    *)

Issue(h, u) == Begins(h, [Idle EXCEPT !.k = "issue", !.at = "seek", !.u = u])

\* ensureStandaloneWalletForBand: a wallet that wears the tag answers at once.
ensureStandaloneWalletForBand(h) ==
    LET u == job[h].u IN
    /\ job[h].at = "seek"
    /\ IF Wearers(u) # {} THEN Ends(h) ELSE Goes(h, "assert")
    /\ UNCHANGED <<tag, wallets, trail, begun, faults, hist, cut>>

\* The unique index lets one creator through; the loser answers with its wallet.
MintWallet(h, w) ==
    LET u == job[h].u IN
    /\ job[h].at = "mint"
    /\ IF Wearers(u) # {}
       THEN Ends(h) /\ UNCHANGED <<wallets, crossed>>
       ELSE /\ w \notin made
            /\ made' = made \cup {w}
            /\ band' = [band EXCEPT ![w] = u]
            /\ crossed' = Crosses(u)
            /\ job' = [job EXCEPT ![h].at = "row", ![h].w = w]
            /\ UNCHANGED ticket
    /\ UNCHANGED <<tag, trail, begun, faults, tangled, doubled, cut>>

AppendRow(w, u) == trail' = [trail EXCEPT ![w] = Append(@, [uid |-> u, open |-> TRUE])]

WriteRow(h) ==
    /\ job[h].at = "row"
    /\ AppendRow(job[h].w, job[h].u) /\ Ends(h)
    /\ UNCHANGED <<tag, wallets, begun, faults, hist, cut>>

-----------------------------------------------------------------------------
(* Binding.                                                                *)

\* A bind that fails ends the request; inside a reissue the old tag is bound
\* again, the same way.
BindFails(h) ==
    IF job[h].k = "reissue" /\ job[h].previous # None
    THEN job' = [job EXCEPT ![h].k = "restore", ![h].at = "assert", ![h].u = job[h].previous]
    ELSE Ends(h)

\* Mutant: the register is asked about another state.
AskRegisterAnyRow(h) ==
    /\ job[h].at = "assert"
    /\ IF tag[job[h].u] = "none" THEN BindFails(h)
       ELSE Goes(h, IF job[h].k \in {"register", "issue"} THEN "mint" ELSE "claim")
    /\ UNCHANGED <<tag, wallets, trail, begun, faults, hist, cut>>

\* Both writers of a uid ask the register first.
AskRegister(h) ==
    /\ job[h].at = "assert"
    /\ IF ~assertTagRegistered(job[h].u) THEN BindFails(h)
       ELSE Goes(h, IF job[h].k \in {"register", "issue"} THEN "mint" ELSE "claim")
    /\ UNCHANGED <<tag, wallets, trail, begun, faults, hist, cut>>

\* The claim: the wallet wears nothing and no other one wears the tag.
bindBand(h) ==
    LET u == job[h].u
        w == job[h].w
    IN
    /\ job[h].at = "claim"
    /\ IF band[w] = None /\ Wearers(u) = {}
       THEN /\ band' = [band EXCEPT ![w] = u]
            /\ crossed' = Crosses(u)
            /\ tangled' = Tangles(h, w)
            /\ Goes(h, "audit")
       ELSE BindFails(h) /\ UNCHANGED <<band, crossed, tangled>>
    /\ UNCHANGED <<tag, made, ticket, trail, begun, faults, doubled, cut>>

Audit(h) ==
    /\ job[h].at = "audit"
    /\ AppendRow(job[h].w, job[h].u) /\ Ends(h)
    /\ UNCHANGED <<tag, wallets, begun, faults, hist, cut>>

AuditFails(h) ==
    /\ job[h].at = "audit" /\ faults < MaxFaults
    /\ faults' = faults + 1 /\ Goes(h, "undo")
    /\ UNCHANGED <<tag, wallets, trail, begun, hist, cut>>

\* The rollback takes off this claim's tag only.
UndoClaim(h) ==
    LET w == job[h].w IN
    /\ job[h].at = "undo"
    /\ band' = IF band[w] = job[h].u THEN [band EXCEPT ![w] = None] ELSE band
    /\ BindFails(h)
    /\ UNCHANGED <<tag, made, ticket, trail, begun, faults, hist, cut>>

-----------------------------------------------------------------------------
(* A band for a ticket.                                                    *)

\* Mutant: the tag's wallet is taken whoever it belongs to.
bindBandToTicketOfAnyone(h, t, u) ==
    LET j == [Idle EXCEPT !.k = "bind", !.u = u, !.t = t] IN
    IF Wearers(u) = {} THEN Begins(h, [j EXCEPT !.at = "ensure"])
    ELSE \E w \in Wearers(u) : Begins(h, [j EXCEPT !.at = "look", !.w = w])

\* bindBandToTicket: a wallet the tag already has takes the ticket on.
bindBandToTicket(h, t, u) ==
    LET free == {w \in Wearers(u) : ticket[w] = None}
        j == [Idle EXCEPT !.k = "bind", !.u = u, !.t = t]
    IN
    IF free = {} THEN Begins(h, [j EXCEPT !.at = "ensure"])
    ELSE \E w \in free : Begins(h, [j EXCEPT !.at = "look", !.w = w])

\* Two balances are never merged.
Look(h) ==
    /\ job[h].at = "look"
    /\ IF WalletsOf(job[h].t) \subseteq {job[h].w} THEN Goes(h, "adopt") ELSE Ends(h)
    /\ UNCHANGED <<tag, wallets, trail, begun, faults, hist, cut>>

\* The save of the copy that was read; the index keeps a ticket to one wallet.
Adopt(h) ==
    LET w == job[h].w
        t == job[h].t
    IN
    /\ job[h].at = "adopt"
    /\ ticket' = IF WalletsOf(t) = {} THEN [ticket EXCEPT ![w] = t] ELSE ticket
    /\ doubled' = IF \E g \in Handlers \ {h} : job[g].at \in {"look", "adopt"} /\ job[g].w = w
                  THEN doubled \cup {w} ELSE doubled
    /\ Ends(h)
    /\ UNCHANGED <<tag, made, band, trail, begun, faults, crossed, tangled, cut>>

\* The upsert, then the binding.
ensureWalletForTicket(h, w) ==
    LET t == job[h].t IN
    /\ job[h].at = "ensure"
    /\ IF WalletsOf(t) = {}
       THEN w \notin made /\ made' = made \cup {w} /\ ticket' = [ticket EXCEPT ![w] = t]
       ELSE w \in WalletsOf(t) /\ UNCHANGED <<made, ticket>>
    /\ job' = [job EXCEPT ![h].at = "assert", ![h].w = w]
    /\ UNCHANGED <<tag, band, trail, begun, faults, hist, cut>>

-----------------------------------------------------------------------------
(* Unbinding and reissue.                                                  *)

\* The office takes the tag off a wallet.
Unbind(h, w) == w \in made /\ Begins(h, [Idle EXCEPT !.k = "unbind", !.at = "release", !.w = w])

\* reissueBand: what can refuse is asked before anything is written.
reissueBand(h, w, u) ==
    /\ w \in made /\ assertTagRegistered(u)
    /\ Begins(h, [Idle EXCEPT !.k = "reissue", !.at = "taken", !.w = w, !.u = u,
                              !.previous = band[w]])

\* The gate swaps the band of a ticket's wallet.
reissueBandForTicket(h, t, u) ==
    \E w \in WalletsOf(t) : band[w] # None /\ reissueBand(h, w, u)

Preflight(h) ==
    /\ job[h].at = "taken"
    /\ IF Wearers(job[h].u) \subseteq {job[h].w}
       THEN Goes(h, IF job[h].previous = None THEN "assert" ELSE "release")
       ELSE Ends(h)
    /\ UNCHANGED <<tag, wallets, trail, begun, faults, hist, cut>>

\* unbindBand: whatever the wallet wears now; nothing worn is an error.
unbindBand(h) ==
    LET w == job[h].w IN
    /\ job[h].at = "release"
    /\ IF band[w] = None THEN Ends(h) /\ UNCHANGED <<band, tangled>>
       ELSE /\ band' = [band EXCEPT ![w] = None]
            /\ tangled' = Tangles(h, w)
            /\ Goes(h, "stamp")
    /\ UNCHANGED <<tag, made, ticket, trail, begun, faults, crossed, doubled, cut>>

\* Mutant: the earliest row of the wallet is stamped, open or not.
FirstRow(w) == {i \in DOMAIN trail[w] : i = 1}

\* The latest open row of the wallet.
LastOpen(w) ==
    LET open == {i \in DOMAIN trail[w] : trail[w][i].open}
    IN  {i \in open : \A k \in open : k <= i}

AfterStamp(h) ==
    CASE job[h].k = "reissue" -> Goes(h, "assert")
      [] job[h].k = "retire"  -> Goes(h, "flip")
      [] OTHER                -> Ends(h)

Stamp(h) ==
    LET w == job[h].w IN
    /\ job[h].at = "stamp"
    /\ trail' = [trail EXCEPT ![w] = [i \in DOMAIN @ |->
                    IF i \in LastOpen(w) THEN [@[i] EXCEPT !.open = FALSE] ELSE @[i]]]
    /\ AfterStamp(h)
    /\ UNCHANGED <<tag, wallets, begun, faults, hist, cut>>

-----------------------------------------------------------------------------
(* Retirement.                                                             *)

retireTag(h, u) ==
    /\ tag[u] # "none"
    /\ Begins(h, [Idle EXCEPT !.k = "retire", !.at = "worn", !.u = u])

\* Release first, then flip the row.
FindWearer(h) ==
    LET u == job[h].u IN
    /\ job[h].at = "worn"
    /\ IF Wearers(u) = {} THEN Goes(h, "flip")
       ELSE \E w \in Wearers(u) : job' = [job EXCEPT ![h].at = "release", ![h].w = w]
    /\ UNCHANGED <<tag, wallets, trail, begun, faults, hist, cut>>

Flip(h) ==
    LET u == job[h].u IN
    /\ job[h].at = "flip"
    /\ tag' = [tag EXCEPT ![u] = "retired"]
    /\ crossed' = IF \E g \in Handlers : Admitted(g, u) THEN crossed \cup {u} ELSE crossed
    /\ Ends(h)
    /\ UNCHANGED <<wallets, trail, begun, faults, tangled, doubled, cut>>

-----------------------------------------------------------------------------
\* The process dies, or a write fails that nothing compensates.
Cut(h) ==
    /\ job[h] # Idle /\ faults < MaxFaults
    /\ faults' = faults + 1
    /\ cut' = cut \cup ({job[h].w} \ {None})
    /\ Ends(h)
    /\ UNCHANGED <<tag, wallets, trail, begun, hist>>

Request(h) ==
    \/ \E u \in Tags : \/ \E money \in BOOLEAN : registerTag(h, u, money)
                       \/ Issue(h, u) \/ retireTag(h, u)
                       \/ \E t \in Tickets : bindBandToTicket(h, t, u) \/ reissueBandForTicket(h, t, u)
                       \/ \E w \in Wallets : reissueBand(h, w, u)
    \/ \E w \in Wallets : Unbind(h, w)

Step(h) ==
    \/ Enrol(h) \/ ensureStandaloneWalletForBand(h) \/ WriteRow(h)
    \/ \E w \in Wallets : MintWallet(h, w) \/ ensureWalletForTicket(h, w)
    \/ AskRegister(h) \/ bindBand(h) \/ Audit(h) \/ AuditFails(h) \/ UndoClaim(h)
    \/ Look(h) \/ Adopt(h) \/ Preflight(h) \/ unbindBand(h) \/ Stamp(h)
    \/ FindWearer(h) \/ Flip(h) \/ Cut(h)

Next == \E h \in Handlers : Request(h) \/ Step(h)

Spec == Init /\ [][Next]_vars

-----------------------------------------------------------------------------
(* Properties.                                                             *)

TypeOK ==
    /\ tag \in [Tags -> {"none", "active", "retired"}]
    /\ made \subseteq Wallets
    /\ band \in [Wallets -> Tags \cup {None}]
    /\ ticket \in [Wallets -> Tickets \cup {None}]
    /\ trail \in [Wallets -> Seq(Row)]
    /\ job \in [Handlers -> Job]
    /\ begun \in 0..MaxOps /\ faults \in 0..MaxFaults
    /\ crossed \subseteq Tags
    /\ tangled \subseteq Wallets /\ doubled \subseteq Wallets /\ cut \subseteq Wallets

\* "A retired tag must be dead everywhere": no wallet wears it, whatever was
\* cut short, restored or rolled back, unless it was being bound while it was
\* being retired.
RetiredIsDead ==
    \A u \in Tags \ crossed : tag[u] = "retired" => Wearers(u) = {}

\* The trail tells what every wallet wears: the last row is the open one and
\* names its tag, through reissues, restores and rollbacks, once nobody is
\* about to write it; except where a request was cut short or the wallet was
\* bound again before the trail had caught up.
TrailTellsTheBand ==
    \A w \in Wallets \ (tangled \cup cut) :
        (\A h \in Handlers : ~Owes(h, w)) =>
            \A i \in DOMAIN trail[w] \cup {0} :
               IF band[w] # None /\ i = Len(trail[w])
               THEN i > 0 /\ trail[w][i] = [uid |-> band[w], open |-> TRUE]
               ELSE i > 0 => ~trail[w][i].open

\* The money of a ticket stays reachable by it: once a ticket has a wallet it
\* keeps it, unless two requests were giving that wallet a ticket.
TicketKeepsWallet ==
    [][\A w \in Wallets \ doubled' : ticket[w] # None => ticket'[w] = ticket[w]]_vars
=============================================================================
