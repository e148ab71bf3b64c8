------------------------------ MODULE EventTiers ------------------------------
(***************************************************************************)
(* One event and its ticket types under the organizer's edits and the      *)
(* purchases' counters.  Every operation of EventService loads the whole   *)
(* event, changes the copy and saves it; the save writes only the paths    *)
(* the copy changed, and meets a version check when it touches the list of *)
(* tiers.  What happens to the money and to the tickets is in TicketSales; *)
(* here are the counters and the list they live in.                        *)
(***************************************************************************)
EXTENDS Integers, FiniteSets, FiniteSetsExt

CONSTANTS Tiers,       \* ids a tier may get; an id is never given twice
          FirstTiers,  \* the tiers the event is created with
          Handlers,    \* operations in progress at the same time
          Sizes,       \* quantities an organizer may ask for
          MaxOps       \* bound: operations begun in a behaviour

ASSUME TiersAssumption == FirstTiers \subseteq Tiers /\ IsFiniteSet(Tiers)
ASSUME SizesAssumption == Sizes \subseteq Nat \ {0} /\ Sizes # {}
ASSUME HandlersAssumption == IsFiniteSet(Handlers)
ASSUME MaxOpsAssumption == MaxOps \in Nat

VARIABLES
    ev,        \* the event document: status, version, ids, tier, totalTicketsSold
    pc,        \* per handler: idle, cleared (about to load) or loaded
    op,        \* what it does, and to which tier
    was,       \* the copy as loaded
    now,       \* the copy as changed, after the pre-save hook
    begun,     \* operations begun
    issued,    \* tickets of each tier that exist and are not refunded
    held,      \* reservations of each tier with status 'held'
    gone,      \* tiers that were in the list and no longer are
    dropped,   \* those of them an updateEvent took out
    raced      \* tiers with a purchase that another writer crossed

ledgerVars == <<issued, held>>
histVars   == <<gone, dropped, raced>>
jobVars    == <<pc, op, was, now>>
vars       == <<ev, jobVars, begun, ledgerVars, histVars>>

Live   == {"DRAFT", "PENDING_APPROVAL", "PUBLISHED"}
Status == Live \cup {"CANCELLED", "COMPLETED", "DELETED"}

Tier == [quantity : Nat, sold : Int, reserved : Nat, available : Nat, isSoldOut : BOOLEAN]

Event == [status : Status, version : Nat, ids : SUBSET Tiers,
          tier : [Tiers -> Tier], total : Int]

\* Counters of a purchase, and the edits that change the list or its order.
Holds     == {"reserve", "release", "confirm"}
Sales     == {"count", "sell"}
Purchases == Holds \cup Sales
Reshapes  == {"drop", "extend", "remove", "reorder"}
Kinds     == Purchases \cup Reshapes \cup {"none", "add", "edit", "status", "delete"}

-----------------------------------------------------------------------------
(* The document.                                                           *)

computeAvailable(d) ==
    LET n == d.quantity - d.sold - d.reserved IN IF n > 0 THEN n ELSE 0

NewTier(q) == [quantity |-> q, sold |-> 0, reserved |-> 0, available |-> q,
               isSoldOut |-> FALSE]

\* An id that is not in the list carries no data.
NoTier == [quantity |-> 0, sold |-> 0, reserved |-> 0, available |-> 0,
           isSoldOut |-> FALSE]

TotalSold(e) == LET sold(t) == e.tier[t].sold IN MapThenSumSet(sold, e.ids)

\* The pre-save hook: every available figure, and the total when there are tiers.
Derived(e) ==
    [e EXCEPT !.tier = [t \in Tiers |->
                          IF t \in e.ids
                          THEN [e.tier[t] EXCEPT !.available = computeAvailable(e.tier[t])]
                          ELSE NoTier],
              !.total = IF e.ids = {} THEN e.total ELSE TotalSold(e)]

\* What save() sends for a path: the new value if the copy changed it.
Pick(loaded, changed, stored) == IF changed # loaded THEN changed ELSE stored

\* Mutant: the whole tier is written back, as an edit that rebuilds it would.
MergedTierWhole(a, b, d) == b

MergedTier(a, b, d) ==
    [quantity  |-> Pick(a.quantity, b.quantity, d.quantity),
     sold      |-> Pick(a.sold, b.sold, d.sold),
     reserved  |-> Pick(a.reserved, b.reserved, d.reserved),
     available |-> Pick(a.available, b.available, d.available),
     isSoldOut |-> Pick(a.isSoldOut, b.isSoldOut, d.isSoldOut)]

\* A changed membership or order sends the whole array; so does a push to a copy
\* of which the hook has corrected another tier.
SendsList(k, a, b) ==
    k \in Reshapes \/ (k = "add" /\ \E t \in a.ids : a.tier[t] # b.tier[t])

\* The list as saved: the whole array as loaded and changed, or the element
\* $push adds, or single paths.
MergedList(k, a, b, d) ==
    [t \in Tiers |->
       IF SendsList(k, a, b) \/ (k = "add" /\ t \in b.ids \ a.ids) THEN b.tier[t]
       ELSE IF t \in a.ids /\ t \in d.ids THEN MergedTier(a.tier[t], b.tier[t], d.tier[t])
       ELSE d.tier[t]]

MergedIds(k, a, b, d) ==
    IF SendsList(k, a, b) THEN b.ids
    ELSE IF k = "add" THEN d.ids \cup (b.ids \ a.ids)
    ELSE d.ids

Merged(k, a, b, d) ==
    [status  |-> Pick(a.status, b.status, d.status),
     version |-> IF k \in Reshapes \cup {"add"} THEN d.version + 1 ELSE d.version,
     ids     |-> MergedIds(k, a, b, d),
     tier    |-> MergedList(k, a, b, d),
     total   |-> Pick(a.total, b.total, d.total)]

\* Mutant: the version key is switched off.
SaveMatchesAny(k, a, b, d) == d.status # "DELETED"

\* The filter of the update: the document exists and, when the list is written
\* by position or as a whole, it still has the version that was loaded.
SaveMatches(k, a, b, d) ==
    /\ d.status # "DELETED"
    /\ SendsList(k, a, b) \/ (a.tier # b.tier /\ k # "add") => d.version = a.version

-----------------------------------------------------------------------------
(* Handlers.                                                               *)

FirstTier == CHOOSE t \in Tiers : TRUE
NoOp == [k |-> "none", t |-> FirstTier]

\* A handler that holds no copy.
NoCopy == [status |-> "DRAFT", version |-> 0, ids |-> {},
           tier |-> [t \in Tiers |-> NoTier], total |-> 0]

Init ==
    /\ \E f \in [FirstTiers -> Sizes] :
         ev = [status |-> "PUBLISHED", version |-> 0, ids |-> FirstTiers,
               tier |-> [t \in Tiers |-> IF t \in FirstTiers THEN NewTier(f[t]) ELSE NoTier],
               total |-> 0]
    /\ pc = [h \in Handlers |-> "idle"]
    /\ op = [h \in Handlers |-> NoOp]
    /\ was = [h \in Handlers |-> NoCopy]
    /\ now = [h \in Handlers |-> NoCopy]
    /\ begun = 0
    /\ issued = [t \in Tiers |-> 0]
    /\ held = [t \in Tiers |-> 0]
    /\ gone = {} /\ dropped = {} /\ raced = {}

\* A free handler takes up an operation, within the bound.
Takes(h) == pc[h] = "idle" /\ begun < MaxOps /\ begun' = begun + 1

To(h, state, k, t, a, b) ==
    /\ pc' = [pc EXCEPT ![h] = state]
    /\ op' = [op EXCEPT ![h] = [k |-> k, t |-> t]]
    /\ was' = [was EXCEPT ![h] = a]
    /\ now' = [now EXCEPT ![h] = b]

Ends(h)         == To(h, "idle", "none", FirstTier, NoCopy, NoCopy)
Clears(h, k, t) == To(h, "cleared", k, t, NoCopy, NoCopy)

\* The event is loaded and the copy changed in one turn of the event loop.
Loads(h, k, t, changed) == To(h, "loaded", k, t, ev, Derived(changed))

\* Organizer operations load the event first of all.
Edits(h, k, t, changed) ==
    /\ Takes(h)
    /\ ev.status # "DELETED"
    /\ Loads(h, k, t, changed)
    /\ UNCHANGED <<ev, ledgerVars, histVars>>

SetTier(t, d) == [ev EXCEPT !.tier[t] = d]

Fresh(t) == t \notin ev.ids \cup gone /\ \A h \in Handlers : t \notin now[h].ids

-----------------------------------------------------------------------------
(* The organizer's operations.                                             *)

Editable == ev.status \notin {"CANCELLED", "COMPLETED"}

\* updateEvent with the tiers it found, in their order: the quantity of one is
\* changed.
UpdateEvent(h, t, q) ==
    /\ Editable /\ t \in ev.ids
    /\ Edits(h, "edit", t, SetTier(t, [ev.tier[t] EXCEPT !.quantity = q]))

\* updateEvent with the tiers it found in another order, which ids does not keep.
ReorderTiers(h, t, q) ==
    /\ Editable /\ t \in ev.ids /\ ev.ids # {t}
    /\ Edits(h, "reorder", t, SetTier(t, [ev.tier[t] EXCEPT !.quantity = q]))

\* Mutant: only the tickets sold are looked at.
DropTierUnsold(h, t) ==
    /\ Editable /\ t \in ev.ids
    /\ ev.tier[t].sold <= 0
    /\ Edits(h, "drop", t, [ev EXCEPT !.ids = @ \ {t}])

\* updateEvent without one of them: refused when its counters are not zero.
DropTier(h, t) ==
    /\ Editable /\ t \in ev.ids
    /\ ev.tier[t].sold <= 0 /\ ev.tier[t].reserved = 0
    /\ Edits(h, "drop", t, [ev EXCEPT !.ids = @ \ {t}])

\* updateEvent with one more.
ExtendTiers(h, t, q) ==
    /\ Editable /\ Fresh(t)
    /\ Edits(h, "extend", t, [SetTier(t, NewTier(q)) EXCEPT !.ids = @ \cup {t}])

addTicketType(h, t, q) ==
    /\ Fresh(t)
    /\ Edits(h, "add", t, [SetTier(t, NewTier(q)) EXCEPT !.ids = @ \cup {t}])

updateTicketType(h, t, q) ==
    /\ t \in ev.ids
    /\ ev.tier[t].sold > 0 => q >= ev.tier[t].sold
    /\ Edits(h, "edit", t, SetTier(t, [ev.tier[t] EXCEPT !.quantity = q]))

\* The validator of the schema refuses a quantity below one when it is saved.
adjustTicketQuantity(h, t, by) ==
    LET q == ev.tier[t].quantity + by IN
    /\ t \in ev.ids
    /\ q >= ev.tier[t].sold /\ q >= 1
    /\ q \in Sizes
    /\ Edits(h, "edit", t, SetTier(t, [ev.tier[t] EXCEPT !.quantity = q]))

markTicketSoldOut(h, t) ==
    /\ t \in ev.ids
    /\ Edits(h, "edit", t, SetTier(t, [ev.tier[t] EXCEPT !.isSoldOut = ~@]))

\* Reservations are not looked at.
deleteTicketType(h, t) ==
    /\ t \in ev.ids /\ ev.tier[t].sold <= 0
    /\ Edits(h, "remove", t, [ev EXCEPT !.ids = @ \ {t}])

SetStatus(h, s) == Edits(h, "status", FirstTier, [ev EXCEPT !.status = s])

\* An organizer submits, an administrator approves.
publishEvent(h, admin) ==
    IF admin
    THEN ev.status \in {"DRAFT", "PENDING_APPROVAL"} /\ SetStatus(h, "PUBLISHED")
    ELSE ev.status = "DRAFT" /\ SetStatus(h, "PENDING_APPROVAL")

unpublishEvent(h, admin) ==
    /\ ev.status \in {"PUBLISHED", "PENDING_APPROVAL"}
    /\ ev.total > 0 => admin
    /\ SetStatus(h, "DRAFT")

cancelEvent(h)   == ev.status \in Live /\ SetStatus(h, "CANCELLED")
completeEvent(h) == ev.status \in Live /\ SetStatus(h, "COMPLETED")

deleteEvent(h, admin) ==
    /\ ev.total > 0 => admin
    /\ Edits(h, "delete", FirstTier, ev)

-----------------------------------------------------------------------------
(* Purchases: one place each.                                              *)

checkTicketAvailability(t) ==
    /\ ev.status = "PUBLISHED" /\ t \in ev.ids
    /\ ~ev.tier[t].isSoldOut
    /\ computeAvailable(ev.tier[t]) >= 1

\* A purchase passes the check; the counter it moves is loaded later.
BuyAsync(h, t) ==
    /\ Takes(h) /\ checkTicketAvailability(t)
    /\ Clears(h, "reserve", t)
    /\ UNCHANGED <<ev, ledgerVars, histVars>>

BuySync(h, t) ==
    /\ Takes(h) /\ checkTicketAvailability(t)
    /\ Clears(h, "sell", t)
    /\ UNCHANGED <<ev, ledgerVars, histVars>>

\* A reservation that no handler is ending.
FreeHold(t) ==
    held[t] > Cardinality({h \in Handlers : op[h] \in [k : {"confirm", "release"}, t : {t}]})

\* A finalizer has minted the ticket of a paid sale and confirms its hold next.
Finalize(h, t) ==
    /\ Takes(h) /\ FreeHold(t)
    /\ issued' = [issued EXCEPT ![t] = @ + 1]
    /\ Clears(h, "confirm", t)
    /\ UNCHANGED <<ev, held, histVars>>

\* The payment failed or the hold lapsed.
Release(h, t) ==
    /\ Takes(h) /\ FreeHold(t)
    /\ Clears(h, "release", t)
    /\ UNCHANGED <<ev, ledgerVars, histVars>>

Reserved(t, by) ==
    LET n == ev.tier[t].reserved + by
    IN  [ev.tier[t] EXCEPT !.reserved = IF n > 0 THEN n ELSE 0]

Sold(t) == [ev.tier[t] EXCEPT !.sold = @ + 1]

\* adjustReserved throws when the event or the tier is missing.
LoadReserved(h) ==
    LET t == op[h].t IN
    /\ pc[h] = "cleared" /\ op[h].k \in {"reserve", "release", "confirm"}
    /\ ev.status # "DELETED" /\ t \in ev.ids
    /\ Loads(h, op[h].k, t,
             SetTier(t, Reserved(t, IF op[h].k = "reserve" THEN 1 ELSE -1)))
    /\ UNCHANGED <<ev, begun, ledgerVars, histVars>>

\* updateTicketsSold goes on without the tier; the hook then derives the total.
LoadSold(h) ==
    LET t == op[h].t IN
    /\ pc[h] = "cleared" /\ op[h].k \in {"count", "sell"}
    /\ ev.status # "DELETED"
    /\ Loads(h, op[h].k, t, [IF t \in ev.ids THEN SetTier(t, Sold(t)) ELSE ev
                               EXCEPT !.total = @ + 1])
    /\ UNCHANGED <<ev, begun, ledgerVars, histVars>>

\* The event or the tier is not there any more and the operation throws.
Missing(h) ==
    /\ pc[h] = "cleared"
    /\ ev.status = "DELETED" \/ (op[h].k \notin {"count", "sell"} /\ op[h].t \notin ev.ids)
    /\ Ends(h)
    /\ UNCHANGED <<ev, begun, ledgerVars, histVars>>

\* g holds a copy that will write the counter of k back, or be refused.
Crosses(g, k, t) ==
    /\ pc[g] = "loaded"
    /\ \/ SendsList(op[g].k, was[g], now[g])
       \/ op[g].t = t /\ {k, op[g].k} \subseteq Holds
       \/ op[g].t = t /\ {k, op[g].k} \subseteq Sales

Minted(t) == Cardinality({h \in Handlers : op[h] \in [k : {"confirm", "count"}, t : {t}]})

\* refundTicket runs in a transaction: the counter is read and written in one
\* snapshot, or the refund is not made.
refundTicket(t) ==
    /\ begun < MaxOps /\ begun' = begun + 1
    /\ ev.status # "DELETED" /\ t \in ev.ids
    /\ issued[t] > Minted(t) /\ ev.tier[t].sold >= 1
    /\ ev' = Derived(SetTier(t, [ev.tier[t] EXCEPT !.sold = @ - 1]))
    /\ issued' = [issued EXCEPT ![t] = @ - 1]
    /\ raced' = raced \cup {u \in {t} : \E g \in Handlers : Crosses(g, "sell", t)}
    /\ UNCHANGED <<jobVars, held, gone, dropped>>

-----------------------------------------------------------------------------
(* The save.                                                               *)

Matches(h) == SaveMatches(op[h].k, was[h], now[h], ev)

\* A purchase may be lost to those who cross it; a tier that leaves the list
\* takes the purchases under way with it.
Lost(h, leaving) ==
    LET k == op[h].k IN
    {t \in {op[h].t} : k \in Purchases /\ \E g \in Handlers \ {h} : Crosses(g, k, t)}
      \cup {t \in leaving : \E g \in Handlers : op[g].t = t /\ op[g].k \in Purchases}

Save(h) ==
    LET k == op[h].k
        t == op[h].t
        e == Merged(k, was[h], now[h], ev)
        leaving == ev.ids \ e.ids
    IN
    /\ pc[h] = "loaded" /\ k # "delete" /\ Matches(h)
    /\ ev' = e
    /\ issued' = IF k = "sell" THEN [issued EXCEPT ![t] = @ + 1] ELSE issued
    /\ held' = CASE k = "reserve"                -> [held EXCEPT ![t] = @ + 1]
                 [] k \in {"release", "confirm"} -> [held EXCEPT ![t] = @ - 1]
                 [] OTHER                        -> held
    /\ gone' = gone \cup leaving
    /\ dropped' = IF k = "drop" THEN dropped \cup leaving ELSE dropped
    /\ raced' = raced \cup Lost(h, leaving)
    /\ IF k = "confirm" THEN Clears(h, "count", t) ELSE Ends(h)
    /\ UNCHANGED begun

\* The version has moved on.  A sale that is already minted stays uncounted;
\* the sweep ends a hold that was not ended here.
VersionError(h) ==
    LET k == op[h].k
        t == op[h].t
    IN
    /\ pc[h] = "loaded" /\ k # "delete" /\ ~Matches(h)
    /\ raced' = IF k \in {"confirm", "count"} THEN raced \cup {t} ELSE raced
    /\ IF k \in {"confirm", "release"} THEN Clears(h, "release", t) ELSE Ends(h)
    /\ UNCHANGED <<ev, begun, ledgerVars, gone, dropped>>

\* deleteOne, whatever has happened since the event was loaded.
Delete(h) ==
    /\ pc[h] = "loaded" /\ op[h].k = "delete"
    /\ ev' = [NoCopy EXCEPT !.status = "DELETED", !.version = ev.version]
    /\ gone' = gone \cup ev.ids
    /\ Ends(h)
    /\ UNCHANGED <<begun, ledgerVars, dropped, raced>>

-----------------------------------------------------------------------------
Organize(h) ==
    \/ \E t \in Tiers :
         \/ \E q \in Sizes : \/ UpdateEvent(h, t, q) \/ updateTicketType(h, t, q)
                           \/ ExtendTiers(h, t, q) \/ addTicketType(h, t, q)
                           \/ ReorderTiers(h, t, q)
         \/ \E by \in {-1, 1} : adjustTicketQuantity(h, t, by)
         \/ DropTier(h, t) \/ deleteTicketType(h, t) \/ markTicketSoldOut(h, t)
    \/ \E admin \in BOOLEAN :
         publishEvent(h, admin) \/ unpublishEvent(h, admin) \/ deleteEvent(h, admin)
    \/ cancelEvent(h) \/ completeEvent(h)

Purchase(h) ==
    \/ \E t \in Tiers : BuyAsync(h, t) \/ BuySync(h, t) \/ Finalize(h, t) \/ Release(h, t)
    \/ LoadReserved(h) \/ LoadSold(h) \/ Missing(h)

Next ==
    \/ \E h \in Handlers :
         Organize(h) \/ Purchase(h) \/ Save(h) \/ VersionError(h) \/ Delete(h)
    \/ \E t \in Tiers : refundTicket(t)

Spec == Init /\ [][Next]_vars

-----------------------------------------------------------------------------
(* Properties.                                                             *)

TypeOK ==
    /\ ev \in Event
    /\ pc \in [Handlers -> {"idle", "cleared", "loaded"}]
    /\ op \in [Handlers -> [k : Kinds, t : Tiers]]
    /\ was \in [Handlers -> Event]
    /\ now \in [Handlers -> Event]
    /\ begun \in 0..MaxOps
    /\ issued \in [Tiers -> Int]
    /\ held \in [Tiers -> Int]
    /\ gone \subseteq Tiers /\ dropped \subseteq Tiers /\ raced \subseteq Tiers

\* "sold/reserved are ledger state owned by the purchase paths": no edit of a
\* quantity, a flag or the status, however it overlaps a purchase, takes a
\* ticket or a reservation off the counters.  They can only be wrong for a tier
\* whose purchase was crossed by another on the same counter or by an edit that
\* writes the whole list.
OnlyRacesLoseCounts ==
    \A t \in ev.ids \ raced :
        /\ ev.tier[t].sold = issued[t] - Minted(t)
        /\ ev.tier[t].reserved = held[t]

\* A tier taken out by updateEvent strands nobody: without such a crossing no
\* ticket and no reservation of it exists.
DroppedIsEmpty ==
    \A t \in dropped \ raced : issued[t] = 0 /\ held[t] = 0

\* No stale copy brings back a tier that was deleted while it was being edited.
GoneStaysGone == ev.ids \cap gone = {}

\* "Delete a ticket type (only if no tickets sold)".
DeletedIsUnsold == \A t \in gone \ dropped : issued[t] = 0
=============================================================================
