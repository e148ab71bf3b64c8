--------------------------- MODULE EventTiersProofs ---------------------------
(***************************************************************************)
(* Proofs about EventTiers, for any tiers, quantities, handlers and number *)
(* of operations: the version of the document keeps a stale copy of the    *)
(* list from bringing a deleted tier back, and no save but one that was    *)
(* crossed takes a sale or a reservation off the counters.                 *)
(***************************************************************************)
EXTENDS EventTiers, FiniteSetTheorems, TLAPS

-----------------------------------------------------------------------------
(* The inductive invariant.  Nothing is said of the counters: the argument *)
(* is about the list, its version and the copies of it.                    *)

\* The fields of a document.
IsEvent(e) ==
    /\ e = [status |-> e.status, version |-> e.version, ids |-> e.ids,
            tier |-> e.tier, total |-> e.total]
    /\ e.version \in Nat

Shapes ==
    /\ IsEvent(ev)
    /\ pc \in [Handlers -> {"idle", "cleared", "loaded"}]
    /\ DOMAIN op = Handlers /\ DOMAIN was = Handlers /\ DOMAIN now = Handlers
    /\ \A h \in Handlers : op[h] = [k |-> op[h].k, t |-> op[h].t]
    /\ \A h \in Handlers : IsEvent(was[h]) /\ IsEvent(now[h])
    /\ gone \subseteq Tiers /\ ev.ids \subseteq Tiers

\* The tiers a handler is about to add to the list.
News(h) == now[h].ids \ was[h].ids

\* A copy under the current version has the current list.
CopyOK(h) ==
    pc[h] = "loaded" =>
        /\ was[h].version <= ev.version
        /\ was[h].version = ev.version /\ ev.status # "DELETED" => was[h].ids = ev.ids
        /\ now[h].ids \subseteq Tiers

\* A new tier is nobody else's, and was never in the list.
NewsOK(h) ==
    /\ News(h) \cap (ev.ids \cup gone) = {}
    /\ \A g \in Handlers \ {h} : News(h) \cap now[g].ids = {}

IInv ==
    /\ Shapes
    /\ GoneStaysGone
    /\ \A h \in Handlers : CopyOK(h) /\ NewsOK(h)

-----------------------------------------------------------------------------
(* The operators.                                                          *)

\* The hook keeps the list, the status and the version.
LEMMA DerivedKeeps ==
    ASSUME NEW e, IsEvent(e)
    PROVE  /\ IsEvent(Derived(e))
           /\ Derived(e).ids = e.ids /\ Derived(e).status = e.status
           /\ Derived(e).version = e.version
<1>1. PICK tier, total : Derived(e) = [e EXCEPT !.tier = tier, !.total = total]
  BY DEF Derived
<1>2. Derived(e) = [status |-> e.status, version |-> e.version, ids |-> e.ids,
                    tier |-> tier, total |-> total]
  BY <1>1 DEF IsEvent
<1> QED BY <1>2 DEF IsEvent

\* No field but the list of tiers and their data is touched by an edit of one.
LEMMA SetTierKeeps ==
    ASSUME IsEvent(ev), NEW t, NEW d
    PROVE  /\ IsEvent(SetTier(t, d))
           /\ SetTier(t, d).ids = ev.ids /\ SetTier(t, d).status = ev.status
           /\ SetTier(t, d).version = ev.version
BY DEF SetTier, IsEvent

LEMMA SetTierSets ==
    ASSUME IsEvent(ev), NEW t, NEW d
    PROVE  SetTier(t, d).tier = [ev.tier EXCEPT ![t] = d]
BY DEF SetTier, IsEvent

\* What a save stores.
LEMMA MergedKeeps ==
    ASSUME NEW k, NEW a, NEW b, NEW d, IsEvent(d)
    PROVE  /\ IsEvent(Merged(k, a, b, d))
           /\ Merged(k, a, b, d).ids = MergedIds(k, a, b, d)
           /\ Merged(k, a, b, d).version =
                 IF k \in Reshapes \cup {"add"} THEN d.version + 1 ELSE d.version
BY DEF Merged, IsEvent

\* Only an operation that moves the version on sends the whole list.
LEMMA SendersMoveOn ==
    ASSUME NEW k, NEW a, NEW b
    PROVE  /\ SendsList(k, a, b) => k \in Reshapes \cup {"add"}
           /\ k \in Reshapes => SendsList(k, a, b)
BY DEF SendsList

-----------------------------------------------------------------------------
(* Initial states.                                                         *)

LEMMA InitIInv == Init => IInv
<1> SUFFICES ASSUME Init PROVE IInv
  OBVIOUS
<1>1. IsEvent(ev) /\ ev.ids = FirstTiers
  BY DEF Init, IsEvent
<1>2. IsEvent(NoCopy) /\ NoCopy.ids = {}
  BY DEF IsEvent, NoCopy
<1>3. Shapes
  BY <1>1, <1>2, TiersAssumption DEF Init, Shapes, NoOp
<1>4. GoneStaysGone
  BY DEF Init, GoneStaysGone
<1>5. \A h \in Handlers : CopyOK(h) /\ NewsOK(h)
  BY <1>2 DEF Init, CopyOK, NewsOK, News
<1> QED BY <1>3, <1>4, <1>5 DEF IInv

-----------------------------------------------------------------------------
(* A handler takes a copy, or has none.                                    *)

\* A copy e as loaded or none, and what is changed in it: the list is kept,
\* shortened, or gets tiers nobody has seen.
LEMMA CopyTaken ==
    ASSUME IInv, NEW h \in Handlers, NEW l \in {"idle", "cleared", "loaded"},
           NEW k, NEW t, NEW a, NEW b,
           IsEvent(a), IsEvent(b),
           l = "loaded" => a = ev /\ b.ids \subseteq Tiers,
           (b.ids \ a.ids) \cap (ev.ids \cup gone) = {},
           \A g \in Handlers : (b.ids \ a.ids) \cap now[g].ids = {},
           b.ids \subseteq ev.ids \cup (b.ids \ a.ids),
           To(h, l, k, t, a, b),
           UNCHANGED <<ev, gone>>
    PROVE  IInv'
<1>1. /\ \A g \in Handlers \ {h} : /\ pc'[g] = pc[g] /\ op'[g] = op[g]
                                   /\ was'[g] = was[g] /\ now'[g] = now[g]
      /\ pc'[h] = l /\ op'[h] = [k |-> k, t |-> t] /\ was'[h] = a /\ now'[h] = b
  BY DEF IInv, Shapes, To
<1>2. Shapes'
  <2>1. IsEvent(ev)'
    BY DEF IInv, Shapes, IsEvent
  <2>2. /\ pc' \in [Handlers -> {"idle", "cleared", "loaded"}]
        /\ DOMAIN op' = Handlers /\ DOMAIN was' = Handlers /\ DOMAIN now' = Handlers
    BY DEF IInv, Shapes, To
  <2>3. ASSUME NEW g \in Handlers
        PROVE  /\ op'[g] = [k |-> op'[g].k, t |-> op'[g].t]
               /\ IsEvent(was[g])' /\ IsEvent(now[g])'
    <3>1. CASE g = h
      <4>1. /\ op'[h] = [k |-> op'[h].k, t |-> op'[h].t]
        BY <1>1
      <4>2. IsEvent(was'[h]) /\ IsEvent(now'[h])
        BY <1>1
      <4> QED BY <3>1, <4>1, <4>2 DEF IsEvent
    <3>2. CASE g # h
      BY <1>1, <3>2 DEF IInv, Shapes, IsEvent
    <3> QED BY <3>1, <3>2
  <2>4. (gone \subseteq Tiers /\ ev.ids \subseteq Tiers)'
    BY DEF IInv, Shapes
  <2> QED BY <2>1, <2>2, <2>3, <2>4 DEF Shapes
<1>3. GoneStaysGone'
  BY DEF IInv, GoneStaysGone
<1>4. ASSUME NEW g \in Handlers PROVE CopyOK(g)' /\ NewsOK(g)'
  <2>1. CopyOK(g)'
    <3>1. CASE g = h
      BY <1>1, <3>1 DEF IInv, Shapes, CopyOK, IsEvent
    <3>2. CASE g # h
      BY <1>1, <3>2 DEF IInv, CopyOK
    <3> QED BY <3>1, <3>2
  <2>2. NewsOK(g)'
    <3>1. CASE g = h
      BY <1>1, <3>1 DEF NewsOK, News
    <3>2. CASE g # h
      <4>1. News(g)' = News(g) /\ News(g) \cap (ev.ids \cup gone) = {}
        BY <1>1, <3>2 DEF IInv, NewsOK, News
      <4>2. News(g) \subseteq now[g].ids
        BY DEF News
      <4>3. News(g) \cap b.ids = {}
        BY <4>1, <4>2
      <4>4. \A f \in Handlers \ {g} : News(g) \cap now'[f].ids = {}
        <5> TAKE f \in Handlers \ {g}
        <5>1. CASE f = h
          BY <1>1, <4>3, <5>1
        <5>2. CASE f # h
          BY <1>1, <5>2 DEF IInv, NewsOK
        <5> QED BY <5>1, <5>2
      <4> QED BY <4>1, <4>4 DEF NewsOK
    <3> QED BY <3>1, <3>2
  <2> QED BY <2>1, <2>2
<1> QED BY <1>2, <1>3, <1>4 DEF IInv

\* A handler that drops its copy, or goes on without one.
LEMMA NoCopyTaken ==
    ASSUME IInv, NEW h \in Handlers, NEW l \in {"idle", "cleared"}, NEW k, NEW t,
           To(h, l, k, t, NoCopy, NoCopy),
           UNCHANGED <<ev, gone>>
    PROVE  IInv'
<1>1. IsEvent(NoCopy) /\ NoCopy.ids = {}
  BY DEF IsEvent, NoCopy
<1> QED BY <1>1, CopyTaken

\* An organizer's operation: the copy of the event, changed in its list.
LEMMA EditTaken ==
    ASSUME IInv, NEW h \in Handlers, NEW k, NEW t, NEW changed,
           IsEvent(changed), changed.ids \subseteq ev.ids \/ \E u \in Tiers :
              Fresh(u) /\ changed.ids = ev.ids \cup {u},
           Edits(h, k, t, changed)
    PROVE  IInv'
<1>1. IsEvent(Derived(changed)) /\ Derived(changed).ids = changed.ids
  BY DerivedKeeps
<1>2. IsEvent(ev) /\ ev.ids \subseteq Tiers
  BY DEF IInv, Shapes
<1>3. To(h, "loaded", k, t, ev, Derived(changed)) /\ UNCHANGED <<ev, gone>>
  BY DEF Edits, Loads, histVars
<1>4. /\ changed.ids \subseteq Tiers
      /\ (changed.ids \ ev.ids) \cap (ev.ids \cup gone) = {}
      /\ \A g \in Handlers : (changed.ids \ ev.ids) \cap now[g].ids = {}
      /\ changed.ids \subseteq ev.ids \cup (changed.ids \ ev.ids)
  BY <1>2 DEF Fresh
<1> QED BY <1>1, <1>2, <1>3, <1>4, CopyTaken

-----------------------------------------------------------------------------
(* The steps.                                                              *)

\* The organizer's operations.
LEMMA OrganizeIInv ==
    ASSUME IInv, NEW h \in Handlers, Organize(h)
    PROVE  IInv'
<1> IsEvent(ev)
  BY DEF IInv, Shapes
<1>1. ASSUME NEW t \in Tiers, NEW q \in Sizes,
             UpdateEvent(h, t, q) \/ ReorderTiers(h, t, q) \/ updateTicketType(h, t, q)
      PROVE  IInv'
  <2>1. \E k : Edits(h, k, t, SetTier(t, [ev.tier[t] EXCEPT !.quantity = q]))
    BY <1>1 DEF UpdateEvent, ReorderTiers, updateTicketType
  <2> QED BY <2>1, SetTierKeeps, EditTaken
<1>2. ASSUME NEW t \in Tiers, NEW q \in Sizes, ExtendTiers(h, t, q) \/ addTicketType(h, t, q)
      PROVE  IInv'
  <2> DEFINE changed == [SetTier(t, NewTier(q)) EXCEPT !.ids = @ \cup {t}]
  <2>1. IsEvent(changed) /\ changed.ids = ev.ids \cup {t}
    BY SetTierKeeps DEF IsEvent
  <2>2. Fresh(t) /\ \E k \in {"extend", "add"} : Edits(h, k, t, changed)
    BY <1>2 DEF ExtendTiers, addTicketType
  <2> HIDE DEF changed
  <2> QED BY <2>1, <2>2, EditTaken
<1>3. ASSUME NEW t \in Tiers, NEW by \in {-1, 1}, adjustTicketQuantity(h, t, by)
      PROVE  IInv'
  <2>1. \E q : Edits(h, "edit", t, SetTier(t, [ev.tier[t] EXCEPT !.quantity = q]))
    BY <1>3 DEF adjustTicketQuantity
  <2> QED BY <2>1, SetTierKeeps, EditTaken
<1>4. ASSUME NEW t \in Tiers, DropTier(h, t) \/ deleteTicketType(h, t)
      PROVE  IInv'
  <2> DEFINE changed == [ev EXCEPT !.ids = @ \ {t}]
  <2>1. IsEvent(changed) /\ changed.ids = ev.ids \ {t}
    BY DEF IsEvent
  <2>2. \E k \in {"drop", "remove"} : Edits(h, k, t, changed)
    BY <1>4 DEF DropTier, deleteTicketType
  <2> HIDE DEF changed
  <2> QED BY <2>1, <2>2, EditTaken
<1>5. ASSUME NEW t \in Tiers, markTicketSoldOut(h, t)
      PROVE  IInv'
  <2>1. Edits(h, "edit", t, SetTier(t, [ev.tier[t] EXCEPT !.isSoldOut = ~@]))
    BY <1>5 DEF markTicketSoldOut
  <2> QED BY <2>1, SetTierKeeps, EditTaken
<1>6. ASSUME NEW s, SetStatus(h, s)
      PROVE  IInv'
  <2> DEFINE changed == [ev EXCEPT !.status = s]
  <2>1. IsEvent(changed) /\ changed.ids = ev.ids
    BY DEF IsEvent
  <2>2. Edits(h, "status", FirstTier, changed)
    BY <1>6 DEF SetStatus
  <2> HIDE DEF changed
  <2> QED BY <2>1, <2>2, EditTaken
<1>7. ASSUME NEW admin \in BOOLEAN, deleteEvent(h, admin)
      PROVE  IInv'
  BY <1>7, EditTaken DEF deleteEvent
<1>8. ASSUME NEW admin \in BOOLEAN, publishEvent(h, admin) \/ unpublishEvent(h, admin)
      PROVE  IInv'
  BY <1>6, <1>8 DEF publishEvent, unpublishEvent
<1>9. ASSUME cancelEvent(h) \/ completeEvent(h)
      PROVE  IInv'
  BY <1>6, <1>9 DEF cancelEvent, completeEvent
<1> QED BY <1>1, <1>2, <1>3, <1>4, <1>5, <1>7, <1>8, <1>9 DEF Organize

\* The purchases: a counter changes in the copy, the list does not.
LEMMA PurchaseIInv ==
    ASSUME IInv, NEW h \in Handlers, Purchase(h)
    PROVE  IInv'
<1>1. ASSUME NEW t \in Tiers, BuyAsync(h, t) \/ BuySync(h, t) \/ Finalize(h, t) \/ Release(h, t)
      PROVE  IInv'
  <2>1. \E k : To(h, "cleared", k, t, NoCopy, NoCopy)
    BY <1>1 DEF BuyAsync, BuySync, Finalize, Release, Clears
  <2>2. UNCHANGED <<ev, gone>>
    BY <1>1 DEF BuyAsync, BuySync, Finalize, Release, histVars
  <2> QED BY <2>1, <2>2, NoCopyTaken
<1>2. ASSUME NEW t, NEW changed, IsEvent(changed), changed.ids = ev.ids,
             Loads(h, op[h].k, t, changed), UNCHANGED <<ev, gone>>
      PROVE  IInv'
  <2>1. IsEvent(Derived(changed)) /\ Derived(changed).ids = ev.ids
    BY <1>2, DerivedKeeps
  <2>2. IsEvent(ev) /\ ev.ids \subseteq Tiers
    BY DEF IInv, Shapes
  <2>3. To(h, "loaded", op[h].k, t, ev, Derived(changed))
    BY <1>2 DEF Loads
  <2>4. /\ (ev.ids \ ev.ids) \cap (ev.ids \cup gone) = {}
        /\ \A g \in Handlers : (ev.ids \ ev.ids) \cap now[g].ids = {}
        /\ ev.ids \subseteq ev.ids \cup (ev.ids \ ev.ids)
    OBVIOUS
  <2> QED BY <1>2, <2>1, <2>2, <2>3, <2>4, CopyTaken
<1>3. CASE LoadReserved(h)
  <2>1. \E d : Loads(h, op[h].k, op[h].t, SetTier(op[h].t, d))
    BY <1>3 DEF LoadReserved
  <2>2. UNCHANGED <<ev, gone>>
    BY <1>3 DEF LoadReserved, histVars
  <2> QED BY <1>2, <2>1, <2>2, SetTierKeeps DEF IInv, Shapes
<1>4. CASE LoadSold(h)
  <2> DEFINE changed == [IF op[h].t \in ev.ids THEN SetTier(op[h].t, Sold(op[h].t)) ELSE ev
                           EXCEPT !.total = @ + 1]
  <2>1. IsEvent(changed) /\ changed.ids = ev.ids
    BY SetTierKeeps DEF IInv, Shapes, IsEvent
  <2>2. Loads(h, op[h].k, op[h].t, changed) /\ UNCHANGED <<ev, gone>>
    BY <1>4 DEF LoadSold, histVars
  <2> HIDE DEF changed
  <2> QED BY <1>2, <2>1, <2>2
<1>5. CASE Missing(h)
  <2>1. To(h, "idle", "none", FirstTier, NoCopy, NoCopy) /\ UNCHANGED <<ev, gone>>
    BY <1>5 DEF Missing, Ends, histVars
  <2> QED BY <2>1, NoCopyTaken
<1> QED BY <1>1, <1>3, <1>4, <1>5 DEF Purchase

-----------------------------------------------------------------------------
(* The saves.                                                              *)

\* The document is written and the handler drops its copy.  The list may lose
\* tiers, and win those that are new to this handler; unless it is as before,
\* the version moves on or the event is deleted for good.
LEMMA DocWritten ==
    ASSUME IInv, NEW h \in Handlers, NEW l \in {"idle", "cleared"}, NEW k, NEW t,
           pc[h] = "loaded",
           To(h, l, k, t, NoCopy, NoCopy),
           IsEvent(ev'),
           ev'.ids \subseteq ev.ids \cup News(h),
           ev'.version >= ev.version,
           ev'.version = ev.version => ev'.ids = ev.ids \/ ev'.status = "DELETED",
           ev.status = "DELETED" => ev'.status = "DELETED",
           gone' = gone \cup (ev.ids \ ev'.ids)
    PROVE  IInv'
<1>1. /\ \A g \in Handlers \ {h} : /\ pc'[g] = pc[g] /\ op'[g] = op[g]
                                   /\ was'[g] = was[g] /\ now'[g] = now[g]
      /\ pc'[h] = l /\ op'[h] = [k |-> k, t |-> t] /\ was'[h] = NoCopy /\ now'[h] = NoCopy
  BY DEF IInv, Shapes, To
<1>2. IsEvent(NoCopy) /\ NoCopy.ids = {}
  BY DEF IsEvent, NoCopy
<1>3. /\ ev.ids \subseteq Tiers /\ ev.version \in Nat /\ ev'.version \in Nat
      /\ \A g \in Handlers : was[g].version \in Nat
      /\ News(h) \subseteq Tiers
  BY DEF IInv, Shapes, IsEvent, CopyOK, News
<1>4. News(h) \cap (ev.ids \cup gone) = {}
  BY DEF IInv, NewsOK
<1>5. Shapes'
  <2>1. IsEvent(ev)'
    BY DEF IsEvent
  <2>2. /\ pc' \in [Handlers -> {"idle", "cleared", "loaded"}]
        /\ DOMAIN op' = Handlers /\ DOMAIN was' = Handlers /\ DOMAIN now' = Handlers
    BY DEF IInv, Shapes, To
  <2>3. ASSUME NEW g \in Handlers
        PROVE  /\ op'[g] = [k |-> op'[g].k, t |-> op'[g].t]
               /\ IsEvent(was[g])' /\ IsEvent(now[g])'
    <3>1. CASE g = h
      <4>1. op'[h] = [k |-> op'[h].k, t |-> op'[h].t]
        BY <1>1
      <4>2. IsEvent(was'[h]) /\ IsEvent(now'[h])
        BY <1>1, <1>2
      <4> QED BY <3>1, <4>1, <4>2 DEF IsEvent
    <3>2. CASE g # h
      BY <1>1, <3>2 DEF IInv, Shapes, IsEvent
    <3> QED BY <3>1, <3>2
  <2>4. (gone \subseteq Tiers /\ ev.ids \subseteq Tiers)'
    BY <1>3 DEF IInv, Shapes
  <2> QED BY <2>1, <2>2, <2>3, <2>4 DEF Shapes
<1>6. GoneStaysGone'
  BY <1>4 DEF IInv, GoneStaysGone
<1>7. ASSUME NEW g \in Handlers PROVE CopyOK(g)' /\ NewsOK(g)'
  <2>1. CASE g = h
    <3>1. CopyOK(g)'
      BY <1>1, <2>1 DEF CopyOK
    <3>2. News(g)' = {}
      BY <1>1, <1>2, <2>1 DEF News
    <3> QED BY <3>1, <3>2 DEF NewsOK
  <2>2. CASE g # h
    <3>1. CopyOK(g)'
      BY <1>1, <1>3, <2>2 DEF IInv, CopyOK
    <3>2. News(g)' = News(g) /\ News(g) \cap (ev.ids \cup gone) = {}
      BY <1>1, <2>2 DEF IInv, NewsOK, News
    <3>3. News(g) \cap News(h) = {}
      BY <2>2 DEF IInv, NewsOK, News
    <3>4. News(g) \cap (ev'.ids \cup gone') = {}
      BY <3>2, <3>3
    <3>5. \A f \in Handlers \ {g} : News(g) \cap now'[f].ids = {}
      <4> TAKE f \in Handlers \ {g}
      <4>1. CASE f = h
        BY <1>1, <1>2, <4>1
      <4>2. CASE f # h
        BY <1>1, <4>2 DEF IInv, NewsOK
      <4> QED BY <4>1, <4>2
    <3> QED BY <3>1, <3>2, <3>4, <3>5 DEF NewsOK
  <2> QED BY <2>1, <2>2
<1> QED BY <1>5, <1>6, <1>7 DEF IInv

\* A save of the whole list meets the list it has loaded.
LEMMA SaveIInv ==
    ASSUME IInv, NEW h \in Handlers, Save(h)
    PROVE  IInv'
<1> DEFINE k == op[h].k
           e == Merged(k, was[h], now[h], ev)
<1>1. /\ pc[h] = "loaded" /\ SaveMatches(k, was[h], now[h], ev)
      /\ ev' = e /\ gone' = gone \cup (ev.ids \ e.ids)
  BY DEF Save, Matches
<1>2. \E l \in {"idle", "cleared"} : \E j, t : To(h, l, j, t, NoCopy, NoCopy)
  BY DEF Save, Clears, Ends
<1>3. ev.status # "DELETED" /\ ev.version \in Nat /\ IsEvent(ev)
  BY <1>1 DEF SaveMatches, IInv, Shapes, IsEvent
<1>4. /\ IsEvent(e) /\ e.ids = MergedIds(k, was[h], now[h], ev)
      /\ e.version = IF k \in Reshapes \cup {"add"} THEN ev.version + 1 ELSE ev.version
  BY <1>3, MergedKeeps
<1>5. e.ids \subseteq ev.ids \cup News(h)
  <2>1. CASE SendsList(k, was[h], now[h])
    <3>1. was[h].ids = ev.ids
      BY <1>1, <1>3, <2>1 DEF SaveMatches, IInv, CopyOK
    <3> QED BY <1>4, <2>1, <3>1 DEF MergedIds, News
  <2>2. CASE ~SendsList(k, was[h], now[h])
    BY <1>4, <2>2 DEF MergedIds, News
  <2> QED BY <2>1, <2>2
<1>6. e.version >= ev.version /\ (e.version = ev.version => e.ids = ev.ids)
  BY <1>3, <1>4, SendersMoveOn DEF MergedIds
<1> HIDE DEF e, k
<1> QED BY <1>1, <1>2, <1>3, <1>4, <1>5, <1>6, DocWritten

\* Every step keeps the invariant.
LEMMA NextIInv == IInv /\ [Next]_vars => IInv'
<1> SUFFICES ASSUME IInv, [Next]_vars PROVE IInv'
  OBVIOUS
<1>1. ASSUME NEW h \in Handlers, VersionError(h)
      PROVE  IInv'
  <2>1. \E l \in {"idle", "cleared"} : \E j, t : To(h, l, j, t, NoCopy, NoCopy)
    BY <1>1 DEF VersionError, Clears, Ends
  <2>2. UNCHANGED <<ev, gone>>
    BY <1>1 DEF VersionError
  <2> QED BY <2>1, <2>2, NoCopyTaken
<1>2. ASSUME NEW h \in Handlers, Delete(h)
      PROVE  IInv'
  <2>1. /\ pc[h] = "loaded" /\ To(h, "idle", "none", FirstTier, NoCopy, NoCopy)
        /\ ev' = [NoCopy EXCEPT !.status = "DELETED", !.version = ev.version]
        /\ gone' = gone \cup ev.ids
    BY <1>2 DEF Delete, Ends
  <2>2. /\ IsEvent(ev') /\ ev'.ids = {} /\ ev'.status = "DELETED"
        /\ ev'.version = ev.version /\ ev.version \in Nat
    BY <2>1 DEF IInv, Shapes, IsEvent, NoCopy
  <2> QED BY <2>1, <2>2, DocWritten
<1>3. ASSUME NEW t \in Tiers, refundTicket(t)
      PROVE  IInv'
  <2>1. \E d : ev' = Derived(SetTier(t, d))
    BY <1>3 DEF refundTicket
  <2>2. IsEvent(ev') /\ ev'.ids = ev.ids /\ ev'.status = ev.status /\ ev'.version = ev.version
    BY <2>1, SetTierKeeps, DerivedKeeps DEF IInv, Shapes
  <2>3. UNCHANGED <<pc, op, was, now, gone>>
    BY <1>3 DEF refundTicket, jobVars
  <2>4. Shapes'
    BY <2>2, <2>3 DEF IInv, Shapes, IsEvent
  <2>5. GoneStaysGone'
    BY <2>2, <2>3 DEF IInv, GoneStaysGone
  <2>6. \A g \in Handlers : CopyOK(g)' /\ NewsOK(g)'
    BY <2>2, <2>3 DEF IInv, CopyOK, NewsOK, News
  <2> QED BY <2>4, <2>5, <2>6 DEF IInv
<1>4. CASE UNCHANGED vars
  BY <1>4 DEF vars, jobVars, ledgerVars, histVars, IInv, Shapes, IsEvent, GoneStaysGone,
              CopyOK, NewsOK, News
<1> QED BY <1>1, <1>2, <1>3, <1>4, OrganizeIInv, PurchaseIInv, SaveIInv DEF Next

-----------------------------------------------------------------------------
(* The counters.  What is stored, what the copies hold, and what exists.   *)

\* The handlers whose operation is of one of these kinds and about tier t.
Busy(K, t) == {h \in Handlers : op[h] \in [k : K, t : {t}]}

Counting == {"confirm", "count"}
Ending   == {"confirm", "release"}

\* What the operation of a handler makes of the counters of tier u.
SoldBy(h, u) == IF op[h].k \in Sales /\ u = op[h].t THEN 1 ELSE 0

ReservedBy(h, u) ==
    IF op[h].k \in Holds /\ u = op[h].t THEN IF op[h].k = "reserve" THEN 1 ELSE -1 ELSE 0

\* The save of the copy will write the whole list.
Sends(h) == SendsList(op[h].k, was[h], now[h])

\* The copy differs from what was loaded in what the operation changes.
Changed(h) ==
    LET a == was[h]
        b == now[h]
        k == op[h].k
        t == op[h].t
    IN  /\ a.status # "DELETED" /\ b.status # "DELETED"
        /\ \A u \in a.ids \cap b.ids :
             /\ b.tier[u].sold = a.tier[u].sold + SoldBy(h, u)
             /\ LET n == a.tier[u].reserved + ReservedBy(h, u)
                IN  b.tier[u].reserved = IF n > 0 THEN n ELSE 0
        /\ \A u \in b.ids \ a.ids : b.tier[u].sold = 0 /\ b.tier[u].reserved = 0
        /\ k \notin Reshapes => a.ids \subseteq b.ids
        /\ k = "drop" => /\ b.ids = a.ids \ {t}
                         /\ t \in a.ids => a.tier[t].sold <= 0 /\ a.tier[t].reserved = 0

\* Unless it was crossed, the counter that the copy will write is as loaded,
\* and a copy of the whole list that will be accepted has every counter so.
Current(h) ==
    LET a == was[h]
        k == op[h].k
        t == op[h].t
    IN  /\ k \in Sales /\ t \in ev.ids \ raced =>
             t \in a.ids /\ a.tier[t].sold = ev.tier[t].sold
        /\ k \in Holds /\ t \in ev.ids \ raced =>
             t \in a.ids /\ a.tier[t].reserved = ev.tier[t].reserved
        /\ Sends(h) /\ a.version = ev.version /\ ev.status # "DELETED" =>
             \A u \in ev.ids \ raced : /\ a.tier[u].sold = ev.tier[u].sold
                                       /\ a.tier[u].reserved = ev.tier[u].reserved

CountsTyped ==
    /\ ev.tier \in [Tiers -> Tier]
    /\ \A h \in Handlers : was[h].tier \in [Tiers -> Tier] /\ now[h].tier \in [Tiers -> Tier]
    /\ issued \in [Tiers -> Nat] /\ held \in [Tiers -> Nat]
    /\ dropped \subseteq gone
    /\ ev.status = "DELETED" => ev.ids = {}

\* A purchase is about a tier that was in the list.
JobOK(h) ==
    /\ pc[h] = "idle" => op[h].k = "none"
    /\ op[h].k \in Purchases => op[h].t \in ev.ids \cup gone
    /\ pc[h] = "loaded" => Changed(h) /\ Current(h)

\* Every reservation that is being ended exists; a tier nobody has seen has
\* nothing; nobody buys what an updateEvent took out.
TierOK(t) ==
    /\ held[t] >= Cardinality(Busy(Ending, t))
    /\ t \notin ev.ids \cup gone => issued[t] = 0 /\ held[t] = 0
    /\ t \in dropped \ raced => Busy(Purchases, t) = {}

CInv ==
    /\ CountsTyped
    /\ \A h \in Handlers : JobOK(h)
    /\ \A t \in Tiers : TierOK(t)
    /\ OnlyRacesLoseCounts
    /\ DroppedIsEmpty

-----------------------------------------------------------------------------
(* Counting handlers.                                                      *)

LEMMA MintedBusy == \A t : Minted(t) = Cardinality(Busy(Counting, t))
BY DEF Minted, Busy, Counting

\* A handler is busy with a tier if its kind and its tier say so.
LEMMA BusyMember ==
    ASSUME NEW h \in Handlers, NEW K, NEW t, op[h] = [k |-> op[h].k, t |-> op[h].t]
    PROVE  h \in Busy(K, t) <=> op[h].k \in K /\ op[h].t = t
BY DEF Busy

\* One handler turns to something else.
LEMMA BusyMoves ==
    ASSUME NEW h \in Handlers, NEW K, NEW t,
           \A g \in Handlers \ {h} : op'[g] = op[g]
    PROVE  /\ Cardinality(Busy(K, t)) \in Nat /\ Cardinality(Busy(K, t)') \in Nat
           /\ h \in Busy(K, t) => Cardinality(Busy(K, t)) >= 1
           /\ Cardinality(Busy(K, t)') =
                Cardinality(Busy(K, t)) - (IF h \in Busy(K, t) THEN 1 ELSE 0)
                                        + (IF h \in Busy(K, t)' THEN 1 ELSE 0)
<1> DEFINE B == Busy(K, t)
           rest == B \ {h}
<1>1. IsFiniteSet(B)
  BY HandlersAssumption, FS_Subset DEF Busy
<1>2. /\ IsFiniteSet(rest) /\ Cardinality(B) \in Nat /\ Cardinality(rest) \in Nat
      /\ Cardinality(rest) = IF h \in B THEN Cardinality(B) - 1 ELSE Cardinality(B)
  <2> HIDE DEF B
  <2> QED BY <1>1, FS_RemoveElement, FS_CardinalityType
<1>3. Busy(K, t)' = IF h \in Busy(K, t)' THEN rest \cup {h} ELSE rest
  BY DEF Busy
<1>4. Cardinality(rest \cup {h}) = Cardinality(rest) + 1
  <2>1. h \notin rest
    OBVIOUS
  <2> HIDE DEF rest
  <2> QED BY <1>2, <2>1, FS_AddElement
<1>5. B = Busy(K, t)
  OBVIOUS
<1>6. h \in B => Cardinality(B) >= 1
  <2> HIDE DEF B, rest
  <2> QED BY <1>2
<1>7. CASE h \in Busy(K, t)'
  <2> HIDE DEF B, rest
  <2>1. Cardinality(Busy(K, t)') = Cardinality(rest) + 1
    BY <1>3, <1>4, <1>7
  <2> QED BY <1>2, <1>5, <1>6, <1>7, <2>1
<1>8. CASE h \notin Busy(K, t)'
  <2> HIDE DEF B, rest
  <2>1. Cardinality(Busy(K, t)') = Cardinality(rest)
    BY <1>3, <1>8
  <2> QED BY <1>2, <1>5, <1>6, <1>8, <2>1
<1> QED BY <1>7, <1>8

\* A tier in the list and not crossed: its counters are what exists.
LEMMA CountsHold ==
    ASSUME CInv, NEW t \in ev.ids \ raced
    PROVE  /\ ev.tier[t].sold = issued[t] - Cardinality(Busy(Counting, t))
           /\ ev.tier[t].reserved = held[t]
BY MintedBusy DEF CInv, OnlyRacesLoseCounts

-----------------------------------------------------------------------------
(* A handler takes a copy, or has none: the document stays as it is.       *)

LEMMA TurnTaken ==
    ASSUME IInv, CInv, NEW h \in Handlers, NEW l \in {"idle", "cleared", "loaded"},
           NEW k, NEW t, NEW a, NEW b,
           To(h, l, k, t, a, b),
           UNCHANGED <<ev, held, gone, dropped>>,
           raced \subseteq raced',
           a.tier \in [Tiers -> Tier], b.tier \in [Tiers -> Tier],
           issued' \in [Tiers -> Nat],
           l = "idle" => k = "none",
           k \in Purchases => t \in (ev.ids \cup gone) \ (dropped \ raced'),
           l = "loaded" => Changed(h)' /\ Current(h)',
           \A u \in Tiers : Cardinality(Busy(Ending, u)') <= held[u],
           \A u \in ev.ids \ raced' :
              issued'[u] - Cardinality(Busy(Counting, u)') =
                 issued[u] - Cardinality(Busy(Counting, u)),
           \A u \in Tiers : issued'[u] # issued[u] => u \in (ev.ids \cup gone) \ (dropped \ raced')
    PROVE  CInv'
<1>1. /\ \A g \in Handlers \ {h} : /\ pc'[g] = pc[g] /\ op'[g] = op[g]
                                   /\ was'[g] = was[g] /\ now'[g] = now[g]
      /\ pc'[h] = l /\ op'[h] = [k |-> k, t |-> t] /\ was'[h] = a /\ now'[h] = b
  BY DEF IInv, Shapes, To
<1>2. CountsTyped'
  <2>1. \A g \in Handlers : was'[g].tier \in [Tiers -> Tier] /\ now'[g].tier \in [Tiers -> Tier]
    BY <1>1 DEF CInv, CountsTyped
  <2> QED BY <2>1 DEF CInv, CountsTyped
<1>3. ASSUME NEW g \in Handlers PROVE JobOK(g)'
  <2>1. CASE g = h
    BY <1>1, <2>1 DEF JobOK
  <2>2. CASE g # h
    <3>1. JobOK(g)
      BY DEF CInv
    <3>2. pc[g] = "loaded" => Changed(g)'
      BY <1>1, <2>2, <3>1 DEF JobOK, Changed, SoldBy, ReservedBy
    <3>3. pc[g] = "loaded" => Current(g)'
      BY <1>1, <2>2, <3>1, SMTT(30) DEF JobOK, Current, Sends
    <3> QED BY <1>1, <2>2, <3>1, <3>2, <3>3 DEF JobOK
  <2> QED BY <2>1, <2>2
<1>4. ASSUME NEW u \in Tiers PROVE TierOK(u)'
  <2>1. TierOK(u)
    BY DEF CInv
  <2>2. u \in dropped' \ raced' => Busy(Purchases, u)' = {}
    BY <1>1, <2>1 DEF TierOK, Busy
  <2>3. Cardinality(Busy(Ending, u))' <= held'[u]
    OBVIOUS
  <2>4. held[u] \in Nat /\ Cardinality(Busy(Ending, u)') \in Nat
    BY <1>1, BusyMoves DEF CInv, CountsTyped
  <2> QED BY <2>1, <2>2, <2>3, <2>4 DEF TierOK
<1>5. OnlyRacesLoseCounts'
  <2> SUFFICES ASSUME NEW u \in ev.ids \ raced'
               PROVE  /\ ev.tier[u].sold = issued'[u] - Minted(u)'
                      /\ ev.tier[u].reserved = held[u]
    BY DEF OnlyRacesLoseCounts
  <2>1. /\ ev.tier[u].sold = issued[u] - Cardinality(Busy(Counting, u))
        /\ ev.tier[u].reserved = held[u]
    BY CountsHold
  <2>2. Minted(u)' = Cardinality(Busy(Counting, u)')
    BY DEF Minted, Busy, Counting
  <2> QED BY <2>1, <2>2
<1>6. DroppedIsEmpty'
  BY DEF CInv, CountsTyped, DroppedIsEmpty, IInv, Shapes
<1> QED BY <1>2, <1>3, <1>4, <1>5, <1>6 DEF CInv

\* The same when nothing that exists changes, and no mint or hold is at hand.
LEMMA PlainTurn ==
    ASSUME IInv, CInv, NEW h \in Handlers, NEW l \in {"idle", "cleared", "loaded"},
           NEW k, NEW t, NEW a, NEW b,
           To(h, l, k, t, a, b),
           UNCHANGED <<ev, held, issued, gone, dropped, raced>>,
           a.tier \in [Tiers -> Tier], b.tier \in [Tiers -> Tier],
           l = "idle" => k = "none",
           k \in Purchases => t \in (ev.ids \cup gone) \ (dropped \ raced),
           l = "loaded" => Changed(h)' /\ Current(h)',
           \/ k \notin Counting \cup Ending /\ op[h].k \notin Counting
           \/ k = op[h].k /\ t = op[h].t
    PROVE  CInv'
<1>1. /\ \A g \in Handlers \ {h} : op'[g] = op[g]
      /\ op'[h] = [k |-> k, t |-> t] /\ op[h] = [k |-> op[h].k, t |-> op[h].t]
  BY DEF IInv, Shapes, To
<1>2. ASSUME NEW u \in Tiers
      PROVE  /\ Cardinality(Busy(Ending, u)') <= Cardinality(Busy(Ending, u))
             /\ Cardinality(Busy(Counting, u)') = Cardinality(Busy(Counting, u))
  <2>1. h \in Busy(Counting, u)' <=> h \in Busy(Counting, u)
    BY <1>1 DEF Busy
  <2>2. h \in Busy(Ending, u)' => h \in Busy(Ending, u)
    BY <1>1 DEF Busy
  <2> QED BY <1>1, <2>1, <2>2, BusyMoves
<1>3. \A u \in Tiers : Cardinality(Busy(Ending, u)') <= held[u]
  <2> TAKE u \in Tiers
  <2>1. /\ Cardinality(Busy(Ending, u)) \in Nat /\ Cardinality(Busy(Ending, u)') \in Nat
        /\ held[u] \in Nat
    BY <1>1, BusyMoves DEF CInv, CountsTyped
  <2> QED BY <1>2, <2>1 DEF CInv, TierOK
<1>4. ev.ids \subseteq Tiers /\ issued \in [Tiers -> Nat]
  BY DEF CInv, CountsTyped, IInv, Shapes
<1> QED BY <1>2, <1>3, <1>4, TurnTaken

-----------------------------------------------------------------------------
(* The counters under each step.                                           *)

LEMMA InitCInv == Init => CInv
<1> SUFFICES ASSUME Init PROVE CInv
  OBVIOUS
<1>1. /\ ev.ids = FirstTiers /\ ev.status = "PUBLISHED" /\ ev.tier \in [Tiers -> Tier]
      /\ \A t \in FirstTiers : ev.tier[t].sold = 0 /\ ev.tier[t].reserved = 0
  <2>1. PICK f \in [FirstTiers -> Sizes] :
          ev = [status |-> "PUBLISHED", version |-> 0, ids |-> FirstTiers,
                tier |-> [t \in Tiers |-> IF t \in FirstTiers THEN NewTier(f[t]) ELSE NoTier],
                total |-> 0]
    BY DEF Init
  <2>2. \A q \in Sizes : /\ NewTier(q) \in Tier
                         /\ NewTier(q).sold = 0 /\ NewTier(q).reserved = 0
    BY SizesAssumption DEF Tier, NewTier
  <2>3. NoTier \in Tier
    BY DEF Tier, NoTier
  <2> QED BY <2>1, <2>2, <2>3, TiersAssumption
<1>2. NoCopy.tier \in [Tiers -> Tier]
  BY DEF NoCopy, NoTier, Tier
<1>3. \A K, t : "none" \notin K => Busy(K, t) = {}
  BY DEF Init, Busy, NoOp
<1>4. CountsTyped
  BY <1>1, <1>2 DEF Init, CountsTyped
<1>5. \A h \in Handlers : JobOK(h)
  BY DEF Init, JobOK, NoOp, Purchases, Holds, Sales
<1>6. \A t \in Tiers : TierOK(t)
  BY <1>3, FS_EmptySet DEF Init, TierOK, Ending
<1>7. OnlyRacesLoseCounts
  BY <1>1, <1>3, FS_EmptySet, MintedBusy, TiersAssumption, SMTT(30) DEF Init, OnlyRacesLoseCounts, Counting
<1>8. DroppedIsEmpty
  BY DEF Init, DroppedIsEmpty
<1> QED BY <1>4, <1>5, <1>6, <1>7, <1>8 DEF CInv

\* The hook derives what is available; what is sold and reserved it keeps.
LEMMA DerivedCounts ==
    ASSUME NEW e, IsEvent(e), e.tier \in [Tiers -> Tier]
    PROVE  /\ Derived(e).tier \in [Tiers -> Tier]
           /\ \A t \in e.ids \cap Tiers : /\ Derived(e).tier[t].sold = e.tier[t].sold
                                 /\ Derived(e).tier[t].reserved = e.tier[t].reserved
<1> DEFINE tier == [t \in Tiers |-> IF t \in e.ids
                                    THEN [e.tier[t] EXCEPT !.available = computeAvailable(e.tier[t])]
                                    ELSE NoTier]
<1>1. Derived(e).tier = tier
  <2>1. PICK total : Derived(e) = [e EXCEPT !.tier = tier, !.total = total]
    BY DEF Derived
  <2> HIDE DEF tier
  <2> QED BY <2>1 DEF IsEvent
<1>2. ASSUME NEW d \in Tier PROVE computeAvailable(d) \in Nat
  BY DEF computeAvailable, Tier
<1>3. ASSUME NEW d \in Tier
      PROVE  /\ [d EXCEPT !.available = computeAvailable(d)] \in Tier
             /\ [d EXCEPT !.available = computeAvailable(d)].sold = d.sold
             /\ [d EXCEPT !.available = computeAvailable(d)].reserved = d.reserved
  BY <1>2 DEF Tier
<1>4. NoTier \in Tier
  BY DEF NoTier, Tier
<1> QED BY <1>1, <1>3, <1>4

\* An organizer's operation: the counters in the copy are those loaded, and
\* those of a new tier are zero.
LEMMA EditCounts ==
    ASSUME IInv, CInv, NEW h \in Handlers, NEW k \in Kinds \ (Purchases \cup {"none"}),
           NEW t, NEW changed,
           IsEvent(changed), changed.tier \in [Tiers -> Tier], changed.ids \subseteq Tiers,
           changed.status # "DELETED",
           \A u \in changed.ids \cap ev.ids : /\ changed.tier[u].sold = ev.tier[u].sold
                                              /\ changed.tier[u].reserved = ev.tier[u].reserved,
           \A u \in changed.ids \ ev.ids : /\ changed.tier[u].sold = 0
                                           /\ changed.tier[u].reserved = 0,
           k \notin Reshapes => ev.ids \subseteq changed.ids,
           k = "drop" => /\ changed.ids = ev.ids \ {t}
                         /\ t \in ev.ids => ev.tier[t].sold <= 0 /\ ev.tier[t].reserved = 0,
           Edits(h, k, t, changed)
    PROVE  CInv'
<1> DEFINE b == Derived(changed)
<1>1. /\ pc[h] = "idle" /\ ev.status # "DELETED"
      /\ To(h, "loaded", k, t, ev, b)
      /\ UNCHANGED <<ev, held, issued, gone, dropped, raced>>
  BY DEF Edits, Takes, Loads, ledgerVars, histVars
<1>2. /\ b.ids = changed.ids /\ b.status = changed.status
      /\ b.tier \in [Tiers -> Tier]
      /\ \A u \in b.ids : /\ b.tier[u].sold = changed.tier[u].sold
                          /\ b.tier[u].reserved = changed.tier[u].reserved
  BY DerivedKeeps, DerivedCounts
<1> HIDE DEF b
<1>3. op'[h] = [k |-> k, t |-> t] /\ was'[h] = ev /\ now'[h] = b
  BY <1>1 DEF IInv, Shapes, To
<1>4. ev.tier \in [Tiers -> Tier] /\ ev.ids \subseteq Tiers
  BY DEF CInv, CountsTyped, IInv, Shapes
<1>5. \A u \in Tiers : ev.tier[u].sold \in Int /\ ev.tier[u].reserved \in Nat
  BY <1>4 DEF Tier
<1>6. k \notin Purchases /\ k \notin Counting /\ k \notin Ending /\ op[h].k \notin Counting
  BY <1>1 DEF CInv, JobOK, Counting, Ending, Purchases, Holds, Sales
<1>7. Changed(h)'
  BY <1>1, <1>2, <1>3, <1>4, <1>5, <1>6 DEF Changed, SoldBy, ReservedBy, Purchases
<1>8. Current(h)'
  BY <1>1, <1>3, <1>6 DEF Current, Purchases
<1> QED BY <1>1, <1>2, <1>4, <1>6, <1>7, <1>8, PlainTurn

\* The organizer's operations.
LEMMA OrganizeCInv ==
    ASSUME IInv, CInv, NEW h \in Handlers, Organize(h)
    PROVE  CInv'
<1>1. /\ IsEvent(ev) /\ ev.ids \subseteq Tiers /\ ev.tier \in [Tiers -> Tier]
      /\ \A k \in {"edit", "reorder", "drop", "extend", "add", "remove", "status", "delete"} :
           k \in Kinds \ (Purchases \cup {"none"})
  BY DEF IInv, Shapes, CInv, CountsTyped, Kinds, Purchases, Holds, Sales, Reshapes
<1>2. ASSUME NEW k \in {"edit", "reorder"}, NEW t, NEW d \in Tier, t \in ev.ids,
             d.sold = ev.tier[t].sold, d.reserved = ev.tier[t].reserved,
             Edits(h, k, t, SetTier(t, d))
      PROVE  CInv'
  <2> DEFINE changed == SetTier(t, d)
  <2>1. /\ IsEvent(changed) /\ changed.ids = ev.ids /\ changed.status = ev.status
        /\ changed.tier = [ev.tier EXCEPT ![t] = d]
    BY <1>1, SetTierKeeps, SetTierSets
  <2>2. ev.status # "DELETED" /\ Edits(h, k, t, changed)
    BY <1>2 DEF Edits
  <2> HIDE DEF changed
  <2>3. changed.tier \in [Tiers -> Tier]
    BY <1>1, <1>2, <2>1
  <2>4. \A u \in ev.ids : /\ changed.tier[u].sold = ev.tier[u].sold
                          /\ changed.tier[u].reserved = ev.tier[u].reserved
    BY <1>1, <1>2, <2>1
  <2> QED BY <1>1, <2>1, <2>2, <2>3, <2>4, EditCounts
<1>3. ASSUME NEW k \in {"edit", "reorder"}, NEW t \in ev.ids, NEW q \in Sizes,
             Edits(h, k, t, SetTier(t, [ev.tier[t] EXCEPT !.quantity = q]))
      PROVE  CInv'
  <2>1. /\ [ev.tier[t] EXCEPT !.quantity = q] \in Tier
        /\ [ev.tier[t] EXCEPT !.quantity = q].sold = ev.tier[t].sold
        /\ [ev.tier[t] EXCEPT !.quantity = q].reserved = ev.tier[t].reserved
    BY <1>1, SizesAssumption DEF Tier
  <2> QED BY <1>2, <1>3, <2>1
<1>4. ASSUME NEW t \in Tiers, NEW q \in Sizes,
             UpdateEvent(h, t, q) \/ ReorderTiers(h, t, q) \/ updateTicketType(h, t, q)
      PROVE  CInv'
  BY <1>3, <1>4 DEF UpdateEvent, ReorderTiers, updateTicketType
<1>5. ASSUME NEW t \in Tiers, NEW by \in {-1, 1}, adjustTicketQuantity(h, t, by)
      PROVE  CInv'
  BY <1>3, <1>5 DEF adjustTicketQuantity
<1>6. ASSUME NEW t \in Tiers, markTicketSoldOut(h, t)
      PROVE  CInv'
  <2>1. /\ t \in ev.ids
        /\ Edits(h, "edit", t, SetTier(t, [ev.tier[t] EXCEPT !.isSoldOut = ~@]))
    BY <1>6 DEF markTicketSoldOut
  <2>2. /\ [ev.tier[t] EXCEPT !.isSoldOut = ~@] \in Tier
        /\ [ev.tier[t] EXCEPT !.isSoldOut = ~@].sold = ev.tier[t].sold
        /\ [ev.tier[t] EXCEPT !.isSoldOut = ~@].reserved = ev.tier[t].reserved
    BY <1>1, <2>1 DEF Tier
  <2> QED BY <1>2, <2>1, <2>2
<1>7. ASSUME NEW t \in Tiers, NEW q \in Sizes, ExtendTiers(h, t, q) \/ addTicketType(h, t, q)
      PROVE  CInv'
  <2> DEFINE changed == [SetTier(t, NewTier(q)) EXCEPT !.ids = @ \cup {t}]
  <2>1. /\ IsEvent(changed) /\ changed.ids = ev.ids \cup {t} /\ changed.status = ev.status
        /\ changed.tier = [ev.tier EXCEPT ![t] = NewTier(q)]
    <3>1. IsEvent(SetTier(t, NewTier(q)))
      BY <1>1, SetTierKeeps
    <3>2. /\ IsEvent(changed) /\ changed.ids = SetTier(t, NewTier(q)).ids \cup {t}
          /\ changed.status = SetTier(t, NewTier(q)).status
          /\ changed.tier = SetTier(t, NewTier(q)).tier
      BY <3>1 DEF IsEvent
    <3> HIDE DEF changed
    <3> QED BY <1>1, <3>2, SetTierKeeps, SetTierSets
  <2>2. t \notin ev.ids /\ \E k \in {"extend", "add"} : Edits(h, k, t, changed)
    BY <1>7 DEF ExtendTiers, addTicketType, Fresh
  <2> HIDE DEF changed
  <2>3. NewTier(q) \in Tier /\ NewTier(q).sold = 0 /\ NewTier(q).reserved = 0
    BY SizesAssumption DEF NewTier, Tier
  <2>4. changed.tier \in [Tiers -> Tier] /\ changed.ids \subseteq Tiers
    BY <1>1, <2>1, <2>3
  <2>5. /\ \A u \in changed.ids \cap ev.ids : /\ changed.tier[u].sold = ev.tier[u].sold
                                              /\ changed.tier[u].reserved = ev.tier[u].reserved
        /\ \A u \in changed.ids \ ev.ids : changed.tier[u].sold = 0 /\ changed.tier[u].reserved = 0
    BY <1>1, <2>1, <2>2, <2>3
  <2>6. ev.status # "DELETED"
    BY <2>2 DEF Edits
  <2> QED BY <1>1, <2>1, <2>2, <2>4, <2>5, <2>6, EditCounts
<1>8. ASSUME NEW t \in Tiers, DropTier(h, t) \/ deleteTicketType(h, t)
      PROVE  CInv'
  <2> DEFINE changed == [ev EXCEPT !.ids = @ \ {t}]
  <2>1. /\ IsEvent(changed) /\ changed.ids = ev.ids \ {t} /\ changed.status = ev.status
        /\ changed.tier = ev.tier
    BY <1>1 DEF IsEvent
  <2>2. PICK k \in {"drop", "remove"} :
          /\ k \in Reshapes
          /\ Edits(h, k, t, changed) /\ ev.status # "DELETED"
          /\ k = "drop" => ev.tier[t].sold <= 0 /\ ev.tier[t].reserved = 0
    BY <1>8 DEF DropTier, deleteTicketType, Edits, Reshapes
  <2> HIDE DEF changed
  <2> QED BY <1>1, <2>1, <2>2, EditCounts
<1>9. ASSUME NEW s \in Status \ {"DELETED"}, SetStatus(h, s)
      PROVE  CInv'
  <2> DEFINE changed == [ev EXCEPT !.status = s]
  <2>1. /\ IsEvent(changed) /\ changed.ids = ev.ids /\ changed.status = s
        /\ changed.tier = ev.tier
    BY <1>1 DEF IsEvent
  <2>2. Edits(h, "status", FirstTier, changed)
    BY <1>9 DEF SetStatus
  <2> HIDE DEF changed
  <2> QED BY <1>1, <2>1, <2>2, EditCounts
<1>10. ASSUME NEW admin \in BOOLEAN, publishEvent(h, admin) \/ unpublishEvent(h, admin)
       PROVE  CInv'
  BY <1>9, <1>10 DEF publishEvent, unpublishEvent, Status, Live
<1>11. ASSUME cancelEvent(h) \/ completeEvent(h)
       PROVE  CInv'
  BY <1>9, <1>11 DEF cancelEvent, completeEvent, Status
<1>12. ASSUME NEW admin \in BOOLEAN, deleteEvent(h, admin)
       PROVE  CInv'
  <2>1. Edits(h, "delete", FirstTier, ev) /\ ev.status # "DELETED"
    BY <1>12 DEF deleteEvent, Edits
  <2> QED BY <1>1, <2>1, EditCounts
<1> QED BY <1>4, <1>5, <1>6, <1>7, <1>8, <1>10, <1>11, <1>12 DEF Organize

\* A purchase is about a tier of the list, past or present, that nothing but a
\* crossed updateEvent took out.
LEMMA PurchaseTier ==
    ASSUME IInv, CInv, NEW h \in Handlers, op[h].k \in Purchases
    PROVE  op[h].t \in (ev.ids \cup gone) \ (dropped \ raced) /\ op[h].t \in Tiers
<1>1. op[h].t \in ev.ids \cup gone /\ op[h].t \in Tiers
  BY DEF IInv, Shapes, CInv, JobOK
<1>2. h \in Busy(Purchases, op[h].t)
  BY BusyMember DEF IInv, Shapes
<1> QED BY <1>1, <1>2 DEF CInv, TierOK

\* A reservation that nobody is ending is of such a tier.
LEMMA FreeHoldTier ==
    ASSUME IInv, CInv, NEW t \in Tiers, FreeHold(t)
    PROVE  /\ t \in (ev.ids \cup gone) \ (dropped \ raced)
           /\ held[t] >= Cardinality(Busy(Ending, t)) + 1
<1>1. IsFiniteSet(Busy(Ending, t))
  BY HandlersAssumption, FS_Subset DEF Busy
<1>2. Cardinality(Busy(Ending, t)) \in Nat /\ held[t] \in Nat
  BY <1>1, FS_CardinalityType DEF CInv, CountsTyped
<1>3. held[t] > Cardinality(Busy(Ending, t))
  BY DEF FreeHold, Busy, Ending
<1>4. held[t] # 0
  BY <1>2, <1>3
<1> QED BY <1>2, <1>3, <1>4 DEF CInv, TierOK, DroppedIsEmpty

\* A purchase loads the event; of the counters its own is changed.
LEMMA LoadCounts ==
    ASSUME IInv, CInv, NEW h \in Handlers, NEW changed,
           op[h].k \in Purchases, ev.status # "DELETED",
           IsEvent(changed), changed.ids = ev.ids, changed.status = ev.status,
           changed.tier \in [Tiers -> Tier],
           \A u \in ev.ids :
              /\ changed.tier[u].sold = ev.tier[u].sold + SoldBy(h, u)
              /\ LET n == ev.tier[u].reserved + ReservedBy(h, u)
                 IN  changed.tier[u].reserved = IF n > 0 THEN n ELSE 0,
           op[h].k \in Holds => op[h].t \in ev.ids,
           Loads(h, op[h].k, op[h].t, changed),
           UNCHANGED <<ev, held, issued, gone, dropped, raced>>
    PROVE  CInv'
<1> DEFINE b == Derived(changed)
<1>1. To(h, "loaded", op[h].k, op[h].t, ev, b)
  BY DEF Loads
<1>2. ev.tier \in [Tiers -> Tier] /\ ev.ids \subseteq Tiers
  BY DEF CInv, CountsTyped, IInv, Shapes
<1>3. /\ b.ids = ev.ids /\ b.status = ev.status /\ b.tier \in [Tiers -> Tier]
      /\ \A u \in ev.ids : /\ b.tier[u].sold = changed.tier[u].sold
                           /\ b.tier[u].reserved = changed.tier[u].reserved
  BY <1>2, DerivedKeeps, DerivedCounts
<1> HIDE DEF b
<1>4. op'[h] = op[h] /\ was'[h] = ev /\ now'[h] = b
  BY <1>1 DEF IInv, Shapes, To
<1>5. \A u : SoldBy(h, u)' = SoldBy(h, u) /\ ReservedBy(h, u)' = ReservedBy(h, u)
  BY <1>4 DEF SoldBy, ReservedBy
<1>6. op[h].k # "drop"
  BY DEF Purchases, Holds, Sales
<1>7. Changed(h)'
  BY <1>3, <1>4, <1>5, <1>6 DEF Changed
<1>8. Current(h)'
  BY <1>4 DEF Current
<1> QED BY <1>1, <1>2, <1>3, <1>7, <1>8, PurchaseTier, PlainTurn

\* The purchases.
LEMMA PurchaseCInv ==
    ASSUME IInv, CInv, NEW h \in Handlers, Purchase(h)
    PROVE  CInv'
<1>1. NoCopy.tier \in [Tiers -> Tier]
  BY DEF NoCopy, NoTier, Tier
<1>2. pc[h] = "idle" => \A K, u : "none" \notin K => h \notin Busy(K, u)
  BY DEF CInv, JobOK, Busy
<1>3. ev.tier \in [Tiers -> Tier] /\ ev.ids \subseteq Tiers /\ IsEvent(ev)
  BY DEF CInv, CountsTyped, IInv, Shapes
<1>4. issued \in [Tiers -> Nat] /\ held \in [Tiers -> Nat]
  BY DEF CInv, CountsTyped
<1>5. ASSUME NEW t \in Tiers, BuyAsync(h, t) \/ BuySync(h, t)
      PROVE  CInv'
  <2>1. PICK k \in {"reserve", "sell"} : To(h, "cleared", k, t, NoCopy, NoCopy)
    BY <1>5 DEF BuyAsync, BuySync, Clears
  <2>2. /\ t \in ev.ids /\ UNCHANGED <<ev, held, issued, gone, dropped, raced>>
        /\ pc[h] = "idle"
    BY <1>5 DEF BuyAsync, BuySync, Takes, checkTicketAvailability, ledgerVars, histVars
  <2>3. t \notin gone /\ dropped \subseteq gone
    BY <2>2 DEF IInv, GoneStaysGone, CInv, CountsTyped
  <2>4. k \notin Counting \cup Ending /\ op[h].k \notin Counting
    BY <2>2 DEF CInv, JobOK, Counting, Ending
  <2> QED BY <1>1, <2>1, <2>2, <2>3, <2>4, PlainTurn
<1>6. ASSUME NEW t \in Tiers, Finalize(h, t) \/ Release(h, t)
      PROVE  CInv'
  <2>1. PICK k \in {"confirm", "release"} :
          /\ To(h, "cleared", k, t, NoCopy, NoCopy)
          /\ issued' = IF k = "confirm" THEN [issued EXCEPT ![t] = @ + 1] ELSE issued
    BY <1>6 DEF Finalize, Release, Clears, ledgerVars
  <2>2. /\ UNCHANGED <<ev, held, gone, dropped, raced>>
        /\ pc[h] = "idle" /\ FreeHold(t)
    BY <1>6 DEF Finalize, Release, Takes, ledgerVars, histVars
  <2>3. /\ \A g \in Handlers \ {h} : op'[g] = op[g]
        /\ op'[h] = [k |-> k, t |-> t]
    BY <2>1 DEF IInv, Shapes, To
  <2>4. /\ h \notin Busy(Ending, t) /\ h \notin Busy(Counting, t)
        /\ \A u \in Tiers : h \notin Busy(Ending, u) /\ h \notin Busy(Counting, u)
    BY <1>2, <2>2 DEF Ending, Counting
  <2>5. /\ \A u : h \in Busy(Ending, u)' <=> u = t
        /\ \A u : h \in Busy(Counting, u)' <=> u = t /\ k = "confirm"
    BY <2>3 DEF Busy, Ending, Counting
  <2>6. ASSUME NEW u \in Tiers
        PROVE  /\ Cardinality(Busy(Ending, u)') <= held[u]
               /\ issued'[u] - Cardinality(Busy(Counting, u)') =
                    issued[u] - Cardinality(Busy(Counting, u))
    <3>1. /\ Cardinality(Busy(Ending, u)) \in Nat /\ Cardinality(Busy(Counting, u)) \in Nat
          /\ Cardinality(Busy(Ending, u)') = Cardinality(Busy(Ending, u)) + IF u = t THEN 1 ELSE 0
          /\ Cardinality(Busy(Counting, u)') =
               Cardinality(Busy(Counting, u)) + IF u = t /\ k = "confirm" THEN 1 ELSE 0
      BY <2>3, <2>4, <2>5, BusyMoves
    <3>2. held[u] >= Cardinality(Busy(Ending, u)) + IF u = t THEN 1 ELSE 0
      BY <1>4, <2>2, <3>1, FreeHoldTier DEF CInv, TierOK
    <3>3. issued'[u] = issued[u] + IF u = t /\ k = "confirm" THEN 1 ELSE 0
      BY <1>4, <2>1
    <3> QED BY <1>4, <3>1, <3>2, <3>3
  <2>7. /\ issued' \in [Tiers -> Nat]
        /\ \A u \in Tiers : issued'[u] # issued[u] => u = t
    BY <1>4, <2>1
  <2>8. t \in (ev.ids \cup gone) \ (dropped \ raced')
    BY <2>2, FreeHoldTier
  <2> QED BY <1>1, <1>3, <2>1, <2>2, <2>6, <2>7, <2>8, TurnTaken
<1>7. CASE LoadReserved(h)
  <2> DEFINE t == op[h].t
             d == Reserved(t, IF op[h].k = "reserve" THEN 1 ELSE -1)
             changed == SetTier(t, d)
  <2>1. /\ op[h].k \in Holds /\ t \in ev.ids /\ ev.status # "DELETED"
        /\ Loads(h, op[h].k, t, changed)
        /\ UNCHANGED <<ev, held, issued, gone, dropped, raced>>
    BY <1>7 DEF LoadReserved, Holds, ledgerVars, histVars
  <2>2. /\ IsEvent(changed) /\ changed.ids = ev.ids /\ changed.status = ev.status
        /\ changed.tier = [ev.tier EXCEPT ![t] = d]
    <3> HIDE DEF d
    <3>1. changed = SetTier(t, d)
      OBVIOUS
    <3> HIDE DEF changed
    <3> QED BY <1>3, <3>1, SetTierKeeps, SetTierSets
  <2>3. /\ d \in Tier /\ d.sold = ev.tier[t].sold
        /\ LET n == ev.tier[t].reserved + ReservedBy(h, t)
           IN  d.reserved = IF n > 0 THEN n ELSE 0
    <3>1. ev.tier[t] \in Tier
      BY <1>3, <2>1
    <3>2. ReservedBy(h, t) = IF op[h].k = "reserve" THEN 1 ELSE -1
      BY <2>1 DEF ReservedBy
    <3>3. ASSUME NEW b \in Tier, NEW m \in Int
          PROVE  LET c == [b EXCEPT !.reserved = IF m > 0 THEN m ELSE 0]
                 IN  c \in Tier /\ c.sold = b.sold /\ c.reserved = IF m > 0 THEN m ELSE 0
      BY DEF Tier
    <3>4. ev.tier[t].reserved + ReservedBy(h, t) \in Int
      BY <3>1, <3>2 DEF Tier
    <3> QED BY <3>1, <3>2, <3>3, <3>4 DEF Reserved
  <2>4. op[h].k \in Purchases /\ op[h].k \notin Sales
    BY <2>1 DEF Purchases, Holds, Sales
  <2> HIDE DEF changed, d
  <2>5. changed.tier \in [Tiers -> Tier]
    BY <1>3, <2>2, <2>3
  <2>6. ASSUME NEW u \in ev.ids
        PROVE  /\ changed.tier[u].sold = ev.tier[u].sold + SoldBy(h, u)
               /\ LET n == ev.tier[u].reserved + ReservedBy(h, u)
                  IN  changed.tier[u].reserved = IF n > 0 THEN n ELSE 0
    <3>1. ev.tier[u].sold \in Int /\ ev.tier[u].reserved \in Nat
      BY <1>3 DEF Tier
    <3>2. SoldBy(h, u) = 0
      BY <2>4 DEF SoldBy
    <3>3. CASE u = t
      BY <1>3, <2>2, <2>3, <3>1, <3>2, <3>3
    <3>4. CASE u # t
      <4>1. ReservedBy(h, u) = 0
        BY <3>4 DEF ReservedBy
      <4> QED BY <1>3, <2>2, <3>1, <3>2, <3>4, <4>1
    <3> QED BY <3>3, <3>4
  <2> QED BY <2>1, <2>2, <2>4, <2>5, <2>6, LoadCounts
<1>8. CASE LoadSold(h)
  <2> DEFINE t == op[h].t
             base == IF t \in ev.ids THEN SetTier(t, Sold(t)) ELSE ev
             changed == [base EXCEPT !.total = @ + 1]
  <2>1. /\ op[h].k \in Sales /\ ev.status # "DELETED"
        /\ Loads(h, op[h].k, t, changed)
        /\ UNCHANGED <<ev, held, issued, gone, dropped, raced>>
    BY <1>8 DEF LoadSold, Sales, ledgerVars, histVars
  <2>2. /\ IsEvent(base) /\ base.ids = ev.ids /\ base.status = ev.status
        /\ base.tier = IF t \in ev.ids THEN [ev.tier EXCEPT ![t] = Sold(t)] ELSE ev.tier
    <3>1. CASE t \in ev.ids
      <4>1. base = SetTier(t, Sold(t))
        BY <3>1
      <4>2. /\ IsEvent(SetTier(t, Sold(t))) /\ SetTier(t, Sold(t)).ids = ev.ids
            /\ SetTier(t, Sold(t)).status = ev.status
        BY <1>3, SetTierKeeps
      <4>3. SetTier(t, Sold(t)).tier = [ev.tier EXCEPT ![t] = Sold(t)]
        BY <1>3, SetTierSets
      <4> HIDE DEF base
      <4> QED BY <3>1, <4>1, <4>2, <4>3
    <3>2. CASE t \notin ev.ids
      BY <1>3, <3>2
    <3> QED BY <3>1, <3>2
  <2>3. t \in ev.ids => /\ Sold(t) \in Tier /\ Sold(t).sold = ev.tier[t].sold + 1
                        /\ Sold(t).reserved = ev.tier[t].reserved
    BY <1>3 DEF Sold, Tier
  <2> HIDE DEF base
  <2>4. /\ IsEvent(changed) /\ changed.ids = ev.ids /\ changed.status = ev.status
        /\ changed.tier = base.tier
    BY <2>2 DEF IsEvent
  <2>5. op[h].k \in Purchases /\ op[h].k \notin Holds
    BY <2>1 DEF Purchases, Holds, Sales
  <2> HIDE DEF changed
  <2>6. changed.tier \in [Tiers -> Tier]
    BY <1>3, <2>2, <2>3, <2>4
  <2>7. ASSUME NEW u \in ev.ids
        PROVE  /\ changed.tier[u].sold = ev.tier[u].sold + SoldBy(h, u)
               /\ LET n == ev.tier[u].reserved + ReservedBy(h, u)
                  IN  changed.tier[u].reserved = IF n > 0 THEN n ELSE 0
    <3>1. ev.tier[u].sold \in Int /\ ev.tier[u].reserved \in Nat
      BY <1>3 DEF Tier
    <3>2. ReservedBy(h, u) = 0
      BY <2>5 DEF ReservedBy
    <3>3. SoldBy(h, u) = IF u = t THEN 1 ELSE 0
      BY <2>1 DEF SoldBy
    <3> QED BY <1>3, <2>2, <2>3, <2>4, <3>1, <3>2, <3>3
  <2> QED BY <2>1, <2>4, <2>5, <2>6, <2>7, LoadCounts
<1>9. CASE Missing(h)
  <2>1. /\ To(h, "idle", "none", FirstTier, NoCopy, NoCopy)
        /\ UNCHANGED <<ev, held, issued, gone, dropped, raced>>
        /\ ev.status = "DELETED" \/ (op[h].k \notin {"count", "sell"} /\ op[h].t \notin ev.ids)
    BY <1>9 DEF Missing, Ends, ledgerVars, histVars
  <2>2. /\ \A g \in Handlers \ {h} : op'[g] = op[g]
        /\ op'[h] = [k |-> "none", t |-> FirstTier]
    BY <2>1 DEF IInv, Shapes, To
  <2>3. \A u : h \notin Busy(Ending, u)' /\ h \notin Busy(Counting, u)'
    BY <2>2 DEF Busy, Ending, Counting
  <2>4. \A u \in ev.ids : h \notin Busy(Counting, u)
    BY <2>1 DEF Busy, CInv, CountsTyped
  <2>5. \A u \in Tiers : Cardinality(Busy(Ending, u)') <= held[u]
    <3> TAKE u \in Tiers
    <3>1. /\ Cardinality(Busy(Ending, u)) \in Nat /\ Cardinality(Busy(Ending, u)') \in Nat
          /\ Cardinality(Busy(Ending, u)') <= Cardinality(Busy(Ending, u))
      BY <2>2, <2>3, BusyMoves
    <3> QED BY <1>4, <3>1 DEF CInv, TierOK
  <2>6. \A u \in ev.ids \ raced' :
          issued'[u] - Cardinality(Busy(Counting, u)') = issued[u] - Cardinality(Busy(Counting, u))
    <3> TAKE u \in ev.ids \ raced'
    <3>1. Cardinality(Busy(Counting, u)') = Cardinality(Busy(Counting, u))
      BY <2>2, <2>3, <2>4, BusyMoves
    <3> QED BY <2>1, <3>1
  <2>7. "none" \notin Purchases
    BY DEF Purchases, Holds, Sales
  <2> QED BY <1>1, <1>4, <2>1, <2>5, <2>6, <2>7, TurnTaken
<1> QED BY <1>5, <1>6, <1>7, <1>8, <1>9 DEF Purchase

-----------------------------------------------------------------------------
(* The counters under a save.                                              *)

\* What the save of one handler stores for a tier that is not crossed.
LEMMA SavedTier ==
    ASSUME IInv, CInv, NEW h \in Handlers, pc[h] = "loaded", Matches(h),
           NEW e, e = Merged(op[h].k, was[h], now[h], ev)
    PROVE  /\ e.tier \in [Tiers -> Tier] /\ e.status # "DELETED"
           /\ \A u \in e.ids \ raced :
                IF u \in ev.ids
                THEN /\ e.tier[u].sold = ev.tier[u].sold + SoldBy(h, u)
                     /\ e.tier[u].reserved = ev.tier[u].reserved + ReservedBy(h, u)
                ELSE e.tier[u].sold = 0 /\ e.tier[u].reserved = 0
<1> DEFINE k == op[h].k
           t == op[h].t
           a == was[h]
           b == now[h]
<1>1. /\ e.ids = MergedIds(k, a, b, ev) /\ e.tier = MergedList(k, a, b, ev)
      /\ e.status = Pick(a.status, b.status, ev.status)
  BY DEF Merged
<1>2. ev.tier \in [Tiers -> Tier] /\ a.tier \in [Tiers -> Tier] /\ b.tier \in [Tiers -> Tier]
  BY DEF CInv, CountsTyped
<1>3. Changed(h) /\ Current(h) /\ CopyOK(h) /\ NewsOK(h)
  BY DEF CInv, JobOK, IInv
<1>4. /\ ev.status # "DELETED"
      /\ Sends(h) => ev.version = a.version /\ a.ids = ev.ids
  BY <1>3 DEF Matches, SaveMatches, CopyOK, Sends
<1>5. e.status # "DELETED"
  BY <1>1, <1>3, <1>4 DEF Pick, Changed
<1>6. \A x, y, z \in Tier : MergedTier(x, y, z) \in Tier
  BY DEF MergedTier, Pick, Tier
<1>7. e.tier \in [Tiers -> Tier]
  <2>1. ASSUME NEW u \in Tiers PROVE MergedList(k, a, b, ev)[u] \in Tier
    BY <1>2, <1>6 DEF MergedList
  <2>2. MergedList(k, a, b, ev) = [u \in Tiers |-> MergedList(k, a, b, ev)[u]]
    BY DEF MergedList
  <2> QED BY <1>1, <2>1, <2>2
<1>8. ev.ids \subseteq Tiers /\ b.ids \subseteq Tiers
  BY <1>3 DEF IInv, Shapes, CopyOK
<1>9. ASSUME NEW u \in e.ids \ raced, Sends(h)
      PROVE  IF u \in ev.ids
             THEN /\ e.tier[u].sold = ev.tier[u].sold + SoldBy(h, u)
                  /\ e.tier[u].reserved = ev.tier[u].reserved + ReservedBy(h, u)
             ELSE e.tier[u].sold = 0 /\ e.tier[u].reserved = 0
  <2>1. u \in b.ids /\ e.tier[u] = b.tier[u]
    BY <1>1, <1>8, <1>9 DEF MergedIds, MergedList, Sends
  <2>2. SoldBy(h, u) = 0 /\ ReservedBy(h, u) = 0
    <3>1. k \in Reshapes \cup {"add"}
      BY <1>9, SendersMoveOn DEF Sends
    <3> QED BY <3>1 DEF SoldBy, ReservedBy, Reshapes, Holds, Sales
  <2>3. CASE u \in ev.ids
    <3>1. /\ b.tier[u].sold = a.tier[u].sold + SoldBy(h, u)
          /\ LET n == a.tier[u].reserved + ReservedBy(h, u)
             IN  b.tier[u].reserved = IF n > 0 THEN n ELSE 0
      BY <1>3, <1>4, <1>9, <2>1, <2>3 DEF Changed
    <3>2. a.tier[u].sold = ev.tier[u].sold /\ a.tier[u].reserved = ev.tier[u].reserved
      BY <1>3, <1>4, <1>9, <2>3 DEF Current
    <3>3. ev.tier[u].sold \in Int /\ ev.tier[u].reserved \in Nat
      BY <1>2, <1>8, <2>3 DEF Tier
    <3> QED BY <2>1, <2>2, <2>3, <3>1, <3>2, <3>3
  <2>4. CASE u \notin ev.ids
    BY <1>3, <1>4, <1>9, <2>1, <2>4 DEF Changed
  <2> QED BY <2>3, <2>4
<1>10. ASSUME NEW u \in e.ids \ raced, ~Sends(h), u \in ev.ids
       PROVE  /\ e.tier[u].sold = ev.tier[u].sold + SoldBy(h, u)
              /\ e.tier[u].reserved = ev.tier[u].reserved + ReservedBy(h, u)
  <2>1. /\ u \notin b.ids \ a.ids /\ u \in Tiers
        /\ ~SendsList(k, a, b) /\ k \notin Reshapes
    BY <1>3, <1>8, <1>10, SendersMoveOn DEF NewsOK, News, Sends
  <2>2. ev.tier[u].sold \in Int /\ ev.tier[u].reserved \in Nat
    BY <1>2, <2>1 DEF Tier
  <2>3. CASE u \in a.ids
    <3>1. e.tier[u] = MergedTier(a.tier[u], b.tier[u], ev.tier[u])
      BY <1>1, <1>10, <2>1, <2>3 DEF MergedList
    <3>2. /\ e.tier[u].sold = Pick(a.tier[u].sold, b.tier[u].sold, ev.tier[u].sold)
          /\ e.tier[u].reserved = Pick(a.tier[u].reserved, b.tier[u].reserved, ev.tier[u].reserved)
      BY <3>1 DEF MergedTier
    <3>3. /\ b.tier[u].sold = a.tier[u].sold + SoldBy(h, u)
          /\ LET n == a.tier[u].reserved + ReservedBy(h, u)
             IN  b.tier[u].reserved = IF n > 0 THEN n ELSE 0
      BY <1>3, <1>10, <2>1, <2>3 DEF Changed
    <3>4. a.tier[u].sold \in Int /\ a.tier[u].reserved \in Nat
      BY <1>2, <2>1 DEF Tier
    <3>5. e.tier[u].sold = ev.tier[u].sold + SoldBy(h, u)
      <4>1. CASE k \in Sales /\ u = t
        <5>1. SoldBy(h, u) = 1 /\ a.tier[u].sold = ev.tier[u].sold
          BY <1>3, <1>10, <4>1 DEF SoldBy, Current
        <5> QED BY <3>2, <3>3, <3>4, <5>1 DEF Pick
      <4>2. CASE ~(k \in Sales /\ u = t)
        <5>1. SoldBy(h, u) = 0
          BY <4>2 DEF SoldBy
        <5> QED BY <2>2, <3>2, <3>3, <3>4, <5>1 DEF Pick
      <4> QED BY <4>1, <4>2
    <3>6. e.tier[u].reserved = ev.tier[u].reserved + ReservedBy(h, u)
      <4>1. CASE k = "reserve" /\ u = t
        <5>1. ReservedBy(h, u) = 1 /\ a.tier[u].reserved = ev.tier[u].reserved
          BY <1>3, <1>10, <4>1 DEF ReservedBy, Current, Holds
        <5> QED BY <3>2, <3>3, <3>4, <5>1 DEF Pick
      <4>2. CASE k \in Ending /\ u = t
        <5>1. ReservedBy(h, u) = -1 /\ a.tier[u].reserved = ev.tier[u].reserved
          BY <1>3, <1>10, <4>2 DEF ReservedBy, Current, Holds, Ending
        <5>2. h \in Busy(Ending, u)
          BY <4>2, BusyMember DEF IInv, Shapes
        <5>3. Cardinality(Busy(Ending, u)) >= 1 /\ Cardinality(Busy(Ending, u)) \in Nat
          <6>1. IsFiniteSet(Busy(Ending, u))
            BY HandlersAssumption, FS_Subset DEF Busy
          <6>2. Cardinality(Busy(Ending, u)) # 0 /\ Cardinality(Busy(Ending, u)) \in Nat
            BY <5>2, <6>1, FS_CardinalityType, FS_EmptySet
          <6> QED BY <6>2
        <5>4. held[u] >= Cardinality(Busy(Ending, u)) /\ ev.tier[u].reserved = held[u]
          BY <1>10, <2>1, CountsHold DEF CInv, TierOK
        <5>5. ev.tier[u].reserved >= 1
          BY <2>2, <5>3, <5>4
        <5> QED BY <2>2, <3>2, <3>3, <5>1, <5>5 DEF Pick
      <4>3. CASE ~(k \in Holds /\ u = t)
        <5>1. ReservedBy(h, u) = 0
          BY <4>3 DEF ReservedBy
        <5> QED BY <2>2, <3>2, <3>3, <3>4, <5>1 DEF Pick
      <4> QED BY <4>1, <4>2, <4>3 DEF Holds, Ending
    <3> QED BY <3>5, <3>6
  <2>4. CASE u \notin a.ids
    <3>1. e.tier[u] = ev.tier[u]
      BY <1>1, <1>10, <2>1, <2>4 DEF MergedList
    <3>2. SoldBy(h, u) = 0 /\ ReservedBy(h, u) = 0
      BY <1>3, <1>10, <2>4 DEF SoldBy, ReservedBy, Current
    <3> QED BY <2>2, <3>1, <3>2
  <2> QED BY <2>3, <2>4
<1>11. ASSUME NEW u \in e.ids \ raced, ~Sends(h), u \notin ev.ids
       PROVE  e.tier[u].sold = 0 /\ e.tier[u].reserved = 0
  <2>1. k = "add" /\ u \in b.ids \ a.ids /\ ~SendsList(k, a, b)
    BY <1>1, <1>11 DEF MergedIds, Sends
  <2>2. e.tier[u] = b.tier[u]
    BY <1>1, <1>8, <1>11, <2>1 DEF MergedList
  <2> QED BY <1>3, <2>1, <2>2 DEF Changed
<1> HIDE DEF k, a, b, t
<1> QED BY <1>5, <1>7, <1>9, <1>10, <1>11

\* The document, what exists and what is told of it after a save.
LEMMA SaveCInv ==
    ASSUME IInv, CInv, IInv', NEW h \in Handlers, Save(h)
    PROVE  CInv'
<1> DEFINE k == op[h].k
           t == op[h].t
           e == Merged(k, was[h], now[h], ev)
           leaving == ev.ids \ e.ids
<1>1. /\ pc[h] = "loaded" /\ k # "delete" /\ Matches(h)
      /\ ev' = e
      /\ issued' = IF k = "sell" THEN [issued EXCEPT ![t] = @ + 1] ELSE issued
      /\ held' = CASE k = "reserve"                -> [held EXCEPT ![t] = @ + 1]
                   [] k \in {"release", "confirm"} -> [held EXCEPT ![t] = @ - 1]
                   [] OTHER                        -> held
      /\ gone' = gone \cup leaving
      /\ dropped' = IF k = "drop" THEN dropped \cup leaving ELSE dropped
      /\ raced' = raced \cup Lost(h, leaving)
      /\ IF k = "confirm" THEN Clears(h, "count", t) ELSE Ends(h)
  BY DEF Save
<1>2. /\ \A g \in Handlers \ {h} : /\ pc'[g] = pc[g] /\ op'[g] = op[g]
                                   /\ was'[g] = was[g] /\ now'[g] = now[g]
      /\ pc'[h] = (IF k = "confirm" THEN "cleared" ELSE "idle")
      /\ op'[h] = (IF k = "confirm" THEN [k |-> "count", t |-> t]
                                    ELSE [k |-> "none", t |-> FirstTier])
      /\ was'[h] = NoCopy /\ now'[h] = NoCopy
  BY <1>1 DEF IInv, Shapes, To, Clears, Ends
<1>3. /\ e.tier \in [Tiers -> Tier] /\ e.status # "DELETED"
      /\ \A u \in e.ids \ raced :
           IF u \in ev.ids
           THEN /\ e.tier[u].sold = ev.tier[u].sold + SoldBy(h, u)
                /\ e.tier[u].reserved = ev.tier[u].reserved + ReservedBy(h, u)
           ELSE e.tier[u].sold = 0 /\ e.tier[u].reserved = 0
  BY <1>1, SavedTier
<1>4. /\ e.version = IF k \in Reshapes \cup {"add"} THEN ev.version + 1 ELSE ev.version
      /\ e.ids = MergedIds(k, was[h], now[h], ev)
  BY MergedKeeps DEF IInv, Shapes
<1>5. ev.version \in Nat /\ \A g \in Handlers : was[g].version \in Nat
  BY DEF IInv, Shapes, IsEvent
<1>6. /\ issued \in [Tiers -> Nat] /\ held \in [Tiers -> Nat] /\ dropped \subseteq gone
      /\ ev.tier \in [Tiers -> Tier] /\ ev.ids \subseteq Tiers
  BY DEF CInv, CountsTyped, IInv, Shapes
<1>7. ev.status # "DELETED"
  BY <1>1 DEF Matches, SaveMatches
<1>8. e.ids \cap gone' = {} /\ gone \subseteq gone' /\ e.ids \subseteq Tiers
  BY <1>1 DEF IInv, GoneStaysGone, Shapes
<1> HIDE DEF e
<1>9. k \in Purchases => t \in (ev.ids \cup gone) \ (dropped \ raced) /\ t \in Tiers
  BY PurchaseTier
\* Who crosses this save has no claim on the counter any more.
<1>10. ASSUME NEW g \in Handlers \ {h}, k \in Purchases, Crosses(g, k, t)
       PROVE  t \in raced'
  BY <1>1, <1>10 DEF Lost
<1>11. /\ k \notin Purchases => \A u : SoldBy(h, u) = 0 /\ ReservedBy(h, u) = 0
       /\ \A u : u # t => SoldBy(h, u) = 0 /\ ReservedBy(h, u) = 0
       /\ k \notin Sales => SoldBy(h, t) = 0
       /\ k \notin Holds => ReservedBy(h, t) = 0
  BY DEF SoldBy, ReservedBy, Purchases
<1>12. \A u \in Tiers : ev.tier[u].sold \in Int /\ ev.tier[u].reserved \in Nat
  BY <1>6 DEF Tier
<1>13. \A u \in Tiers : /\ held'[u] = held[u] + ReservedBy(h, u)
                        /\ issued'[u] = issued[u] + IF k = "sell" /\ u = t THEN 1 ELSE 0
  <2> TAKE u \in Tiers
  <2>1. ReservedBy(h, u) = CASE k = "reserve" /\ u = t            -> 1
                             [] k \in {"release", "confirm"} /\ u = t -> -1
                             [] OTHER                             -> 0
    BY DEF ReservedBy, Holds
  <2>2. held'[u] = held[u] + ReservedBy(h, u)
    BY <1>1, <1>6, <2>1
  <2> QED BY <1>1, <1>6, <2>2
<1>14. ASSUME NEW u \in Tiers
       PROVE  /\ Cardinality(Busy(Ending, u)) \in Nat
              /\ Cardinality(Busy(Counting, u)) \in Nat
              /\ Cardinality(Busy(Ending, u)') =
                   Cardinality(Busy(Ending, u)) - IF k \in Ending /\ u = t THEN 1 ELSE 0
              /\ k \in Ending /\ u = t => Cardinality(Busy(Ending, u)) >= 1
              /\ Cardinality(Busy(Counting, u)') =
                   Cardinality(Busy(Counting, u)) - IF k = "count" /\ u = t THEN 1 ELSE 0
  <2>1. /\ h \in Busy(Ending, u) <=> k \in Ending /\ t = u
        /\ h \in Busy(Counting, u) <=> k \in Counting /\ t = u
    BY BusyMember DEF IInv, Shapes
  <2>2. /\ h \notin Busy(Ending, u)'
        /\ h \in Busy(Counting, u)' <=> k = "confirm" /\ t = u
    BY <1>2 DEF Busy, Ending, Counting
  <2>3. /\ Cardinality(Busy(Ending, u)) \in Nat
        /\ h \in Busy(Ending, u) => Cardinality(Busy(Ending, u)) >= 1
        /\ Cardinality(Busy(Ending, u)') =
             Cardinality(Busy(Ending, u)) - (IF h \in Busy(Ending, u) THEN 1 ELSE 0)
                                          + (IF h \in Busy(Ending, u)' THEN 1 ELSE 0)
    BY <1>2, BusyMoves
  <2>4. /\ Cardinality(Busy(Counting, u)) \in Nat
        /\ Cardinality(Busy(Counting, u)') =
             Cardinality(Busy(Counting, u)) - (IF h \in Busy(Counting, u) THEN 1 ELSE 0)
                                            + (IF h \in Busy(Counting, u)' THEN 1 ELSE 0)
    BY <1>2, BusyMoves
  <2>5. k \in Counting <=> k = "confirm" \/ k = "count"
    BY DEF Counting
  <2> QED BY <2>1, <2>2, <2>3, <2>4, <2>5
<1>15. ReservedBy(h, t) >= 0 \/ k \in Ending
  BY DEF ReservedBy, Holds, Ending
<1>16. CountsTyped'
  <2>1. \A g \in Handlers : was'[g].tier \in [Tiers -> Tier] /\ now'[g].tier \in [Tiers -> Tier]
    <3>1. NoCopy.tier \in [Tiers -> Tier]
      BY DEF NoCopy, NoTier, Tier
    <3> QED BY <1>2, <3>1 DEF CInv, CountsTyped
  <2>2. \A u \in Tiers : held'[u] \in Nat /\ issued'[u] \in Nat
    <3> TAKE u \in Tiers
    <3>1. ReservedBy(h, u) \in {-1, 0, 1} /\ (ReservedBy(h, u) = -1 => k \in Ending /\ u = t)
      BY DEF ReservedBy, Holds, Ending
    <3>2. held[u] \in Nat /\ held[u] >= Cardinality(Busy(Ending, u))
      BY <1>6 DEF CInv, TierOK
    <3> QED BY <1>6, <1>13, <1>14, <3>1, <3>2
  <2>3. DOMAIN held' = Tiers /\ DOMAIN issued' = Tiers
    BY <1>1, <1>6
  <2>4. held' \in [Tiers -> Nat] /\ issued' \in [Tiers -> Nat]
    <3>1. /\ held' = [u \in Tiers |-> held'[u]]
          /\ issued' = [u \in Tiers |-> issued'[u]]
      BY <1>1, <1>6
    <3> QED BY <2>2, <3>1
  <2>5. dropped' \subseteq gone'
    BY <1>1, <1>6
  <2> QED BY <1>1, <1>3, <2>1, <2>4, <2>5 DEF CountsTyped
<1>17. ASSUME NEW g \in Handlers PROVE JobOK(g)'
  <2>1. CASE g = h
    BY <1>1, <1>2, <1>9, <2>1 DEF JobOK, Purchases, Holds, Sales
  <2>2. CASE g # h
    <3>1. JobOK(g)
      BY DEF CInv
    <3>2. pc[g] = "loaded" => Changed(g)'
      BY <1>2, <2>2, <3>1 DEF JobOK, Changed, SoldBy, ReservedBy
    <3>3. op[g].k \in Purchases => op[g].t \in e.ids \cup gone'
      BY <1>1, <3>1 DEF JobOK
    <3>4. ASSUME pc[g] = "loaded" PROVE Current(g)'
      <4>1. Current(g) /\ CopyOK(g)
        BY <3>1, <3>4 DEF JobOK, IInv
      <4>2. ASSUME op[g].k \in Purchases, op[g].t \in e.ids \ raced'
            PROVE  op[g].t \in ev.ids \ raced
        BY <1>1, <1>8, <3>1, <4>2 DEF JobOK
      <4>3. ASSUME op[g].k \in Sales, op[g].t \in e.ids \ raced'
            PROVE  op[g].t \in was[g].ids /\ was[g].tier[op[g].t].sold = e.tier[op[g].t].sold
        <5>1. op[g].t \in ev.ids \ raced
          BY <4>2, <4>3 DEF Purchases
        <5>2. SoldBy(h, op[g].t) = 0
          <6>1. ~(k \in Sales /\ t = op[g].t)
            BY <1>10, <2>2, <3>4, <4>3 DEF Crosses, Purchases
          <6> QED BY <6>1 DEF SoldBy
        <5>3. e.tier[op[g].t].sold = ev.tier[op[g].t].sold
          BY <1>3, <1>6, <1>12, <4>3, <5>1, <5>2
        <5> QED BY <4>1, <4>3, <5>1, <5>3 DEF Current
      <4>4. ASSUME op[g].k \in Holds, op[g].t \in e.ids \ raced'
            PROVE  op[g].t \in was[g].ids /\ was[g].tier[op[g].t].reserved = e.tier[op[g].t].reserved
        <5>1. op[g].t \in ev.ids \ raced
          BY <4>2, <4>4 DEF Purchases
        <5>2. ReservedBy(h, op[g].t) = 0
          <6>1. ~(k \in Holds /\ t = op[g].t)
            BY <1>10, <2>2, <3>4, <4>4 DEF Crosses, Purchases
          <6> QED BY <6>1 DEF ReservedBy
        <5>3. e.tier[op[g].t].reserved = ev.tier[op[g].t].reserved
          BY <1>3, <1>6, <1>12, <4>4, <5>1, <5>2
        <5> QED BY <4>1, <4>4, <5>1, <5>3 DEF Current
      <4>5. ASSUME Sends(g), was[g].version = e.version, NEW u \in e.ids \ raced'
            PROVE  /\ was[g].tier[u].sold = e.tier[u].sold
                   /\ was[g].tier[u].reserved = e.tier[u].reserved
        <5>1. k \notin Reshapes \cup {"add"} /\ was[g].version = ev.version
          BY <1>4, <1>5, <3>4, <4>1, <4>5 DEF CopyOK
        <5>2. u \in ev.ids \ raced
          BY <1>1, <1>4, <4>5, <5>1, SendersMoveOn DEF MergedIds
        <5>3. SoldBy(h, u) = 0 /\ ReservedBy(h, u) = 0
          <6>1. ~(k \in Purchases /\ t = u)
            BY <1>10, <2>2, <3>4, <4>5 DEF Crosses, Sends
          <6> QED BY <1>11, <6>1
        <5>4. e.tier[u].sold = ev.tier[u].sold /\ e.tier[u].reserved = ev.tier[u].reserved
          BY <1>3, <1>6, <1>12, <4>5, <5>2, <5>3
        <5> QED BY <1>7, <4>1, <4>5, <5>1, <5>2, <5>4 DEF Current
      <4>6. /\ was'[g] = was[g] /\ op'[g] = op[g] /\ ev' = e
            /\ Sends(g)' = Sends(g)
        BY <1>1, <1>2, <2>2 DEF Sends
      <4> QED BY <4>3, <4>4, <4>5, <4>6 DEF Current
    <3> QED BY <1>1, <1>2, <2>2, <3>1, <3>2, <3>3, <3>4 DEF JobOK
  <2> QED BY <2>1, <2>2
<1>18. \A u \in Tiers : u \notin e.ids \cup gone' => u \notin ev.ids \cup gone
  BY <1>1
<1>19. k \in Purchases => h \in Busy(Purchases, t)
  BY BusyMember DEF IInv, Shapes
<1>20. ASSUME NEW u \in Tiers, u \notin ev.ids \cup gone \/ u \in dropped \ raced'
       PROVE  /\ issued'[u] = issued[u] /\ held'[u] = held[u]
              /\ k \in Purchases => u # t
  <2>1. k \in Purchases => u # t
    BY <1>1, <1>9, <1>20
  <2>2. ReservedBy(h, u) = 0 /\ ~(k = "sell" /\ u = t)
    BY <1>11, <2>1 DEF Purchases, Sales
  <2> QED BY <1>6, <1>13, <2>1, <2>2
<1>21. ASSUME NEW u \in dropped' \ raced', u \notin dropped
       PROVE  /\ k = "drop" /\ u \in ev.ids /\ u \notin e.ids
              /\ Busy(Purchases, u) = {}
  <2>1. k = "drop" /\ u \in leaving
    BY <1>1, <1>21
  <2>2. \A g \in Handlers : ~(op[g].t = u /\ op[g].k \in Purchases)
    BY <1>1, <1>21, <2>1 DEF Lost
  <2>3. Busy(Purchases, u) = {}
    BY <2>2 DEF Busy
  <2> QED BY <2>1, <2>3
<1>22. ASSUME NEW u \in Tiers PROVE TierOK(u)'
  <2>1. TierOK(u)
    BY DEF CInv
  <2>2. held'[u] >= Cardinality(Busy(Ending, u)')
    <3>1. held[u] \in Nat /\ held[u] >= Cardinality(Busy(Ending, u))
      BY <1>6, <2>1 DEF TierOK
    <3>2. ReservedBy(h, u) \in {-1, 0, 1} /\ (ReservedBy(h, u) = -1 => k \in Ending /\ u = t)
      BY DEF ReservedBy, Holds, Ending
    <3>3. k \in Ending /\ u = t => ReservedBy(h, u) = -1
      BY DEF ReservedBy, Holds, Ending
    <3> QED BY <1>13, <1>14, <3>1, <3>2, <3>3
  <2>3. u \notin e.ids \cup gone' => issued'[u] = 0 /\ held'[u] = 0
    BY <1>18, <1>20, <2>1 DEF TierOK
  <2>4. ASSUME u \in dropped' \ raced' PROVE Busy(Purchases, u)' = {}
    <3>1. Busy(Purchases, u) = {}
      BY <1>1, <1>21, <2>1, <2>4 DEF TierOK
    <3>2. h \notin Busy(Purchases, u)'
      BY <1>2, <1>19, <3>1 DEF Busy, Purchases, Holds, Sales
    <3> QED BY <1>2, <3>1, <3>2 DEF Busy
  <2> QED BY <1>1, <2>2, <2>3, <2>4 DEF TierOK
<1>23. OnlyRacesLoseCounts'
  <2> SUFFICES ASSUME NEW u \in e.ids \ raced'
               PROVE  /\ e.tier[u].sold = issued'[u] - Cardinality(Busy(Counting, u)')
                      /\ e.tier[u].reserved = held'[u]
    BY <1>1 DEF OnlyRacesLoseCounts, Minted, Busy, Counting
  <2>0. u \in Tiers /\ u \notin raced
    BY <1>1, <1>8
  <2>1. CASE u \in ev.ids
    <3>1. /\ ev.tier[u].sold = issued[u] - Cardinality(Busy(Counting, u))
          /\ ev.tier[u].reserved = held[u]
      BY <2>0, <2>1, CountsHold
    <3>2. SoldBy(h, u) = (IF k = "sell" /\ u = t THEN 1 ELSE 0) + (IF k = "count" /\ u = t THEN 1 ELSE 0)
      BY DEF SoldBy, Sales
    <3>3. /\ e.tier[u].sold = ev.tier[u].sold + SoldBy(h, u)
          /\ e.tier[u].reserved = ev.tier[u].reserved + ReservedBy(h, u)
      BY <1>3, <2>0, <2>1
    <3>4. issued[u] \in Nat
      BY <1>6, <2>0
    <3> QED BY <1>13, <1>14, <2>0, <3>1, <3>2, <3>3, <3>4
  <2>2. CASE u \notin ev.ids
    <3>1. u \notin ev.ids \cup gone
      BY <1>8, <2>2
    <3>2. issued'[u] = 0 /\ held'[u] = 0 /\ (k \in Purchases => u # t)
      BY <1>20, <2>0, <3>1 DEF CInv, TierOK
    <3>3. Busy(Counting, u) = {}
      BY <3>1 DEF CInv, JobOK, Busy, Counting, Purchases, Holds, Sales
    <3>4. Busy(Counting, u)' = {}
      BY <1>2, <3>2, <3>3 DEF Busy, Counting, Purchases, Holds, Sales
    <3>5. e.tier[u].sold = 0 /\ e.tier[u].reserved = 0
      BY <1>3, <2>0, <2>2
    <3> QED BY <3>2, <3>4, <3>5, FS_EmptySet
  <2> QED BY <2>1, <2>2
<1>24. DroppedIsEmpty'
  <2> SUFFICES ASSUME NEW u \in dropped' \ raced'
               PROVE  issued'[u] = 0 /\ held'[u] = 0
    BY DEF DroppedIsEmpty
  <2>1. CASE u \in dropped
    <3>1. u \in Tiers /\ u \notin raced
      BY <1>1, <1>6, <2>1 DEF IInv, Shapes
    <3> QED BY <1>20, <2>1, <3>1 DEF CInv, DroppedIsEmpty
  <2>2. CASE u \notin dropped
    <3>1. k = "drop" /\ u \in ev.ids /\ u \notin e.ids /\ Busy(Purchases, u) = {}
      BY <1>21, <2>2
    <3>2. u \in Tiers /\ u \notin raced /\ k \notin Purchases /\ k \in Reshapes
      BY <1>1, <1>6, <3>1 DEF Purchases, Holds, Sales, Reshapes
    <3>3. Changed(h) /\ Current(h) /\ CopyOK(h)
      BY <1>1 DEF CInv, JobOK, IInv
    <3>4. was[h].version = ev.version /\ was[h].ids = ev.ids
      BY <1>1, <1>7, <3>2, <3>3, SendersMoveOn DEF Matches, SaveMatches, CopyOK
    <3>5. u = t
      BY <1>4, <3>1, <3>2, <3>3, <3>4, SendersMoveOn DEF Changed, MergedIds
    <3>6. was[h].tier[u].sold <= 0 /\ was[h].tier[u].reserved = 0
      BY <3>1, <3>3, <3>4, <3>5 DEF Changed
    <3>7. ev.tier[u].sold <= 0 /\ ev.tier[u].reserved = 0
      BY <1>7, <3>1, <3>2, <3>3, <3>4, <3>6, SendersMoveOn DEF Current, Sends
    <3>8. ev.tier[u].sold = issued[u] - Cardinality(Busy(Counting, u)) /\ ev.tier[u].reserved = held[u]
      BY <3>1, <3>2, CountsHold
    <3>9. Cardinality(Busy(Counting, u)) = 0
      <4>1. Busy(Counting, u) \subseteq Busy(Purchases, u)
        BY DEF Busy, Counting, Purchases, Holds, Sales
      <4> QED BY <3>1, <4>1, FS_EmptySet
    <3>10. issued[u] = 0 /\ held[u] = 0
      BY <1>6, <3>2, <3>7, <3>8, <3>9
    <3>11. issued' = issued /\ held' = held
      BY <1>1, <3>1
    <3> QED BY <3>10, <3>11
  <2> QED BY <2>1, <2>2
<1> QED BY <1>16, <1>17, <1>22, <1>23, <1>24 DEF CInv

\* A save that is refused: what was minted and not counted is told.
LEMMA VersionErrorCInv ==
    ASSUME IInv, CInv, NEW h \in Handlers, VersionError(h)
    PROVE  CInv'
<1> DEFINE k == op[h].k
           t == op[h].t
<1>1. /\ raced' = IF k \in {"confirm", "count"} THEN raced \cup {t} ELSE raced
      /\ UNCHANGED <<ev, issued, held, gone, dropped>>
      /\ IF k \in {"confirm", "release"} THEN To(h, "cleared", "release", t, NoCopy, NoCopy)
                                         ELSE To(h, "idle", "none", FirstTier, NoCopy, NoCopy)
  BY DEF VersionError, Clears, Ends, ledgerVars
<1>2. PICK l, j, u :
        /\ l \in {"idle", "cleared"} /\ j \in {"release", "none"}
        /\ To(h, l, j, u, NoCopy, NoCopy)
        /\ IF k \in Ending THEN l = "cleared" /\ j = "release" /\ u = t
                           ELSE l = "idle" /\ j = "none"
  BY <1>1 DEF Ending
<1>3. /\ \A g \in Handlers \ {h} : op'[g] = op[g]
      /\ op'[h] = [k |-> j, t |-> u]
  BY <1>2 DEF IInv, Shapes, To
<1>4. NoCopy.tier \in [Tiers -> Tier] /\ issued \in [Tiers -> Nat] /\ held \in [Tiers -> Nat]
  BY DEF NoCopy, NoTier, Tier, CInv, CountsTyped
<1>5. \A x \in Tiers : Cardinality(Busy(Ending, x)') <= held[x]
  <2> TAKE x \in Tiers
  <2>1. h \in Busy(Ending, x)' => h \in Busy(Ending, x)
    <3>1. h \in Busy(Ending, x) <=> k \in Ending /\ t = x
      BY BusyMember DEF IInv, Shapes
    <3>2. h \in Busy(Ending, x)' => j \in Ending /\ u = x
      BY <1>3 DEF Busy
    <3> QED BY <1>2, <3>1, <3>2 DEF Ending
  <2>2. /\ Cardinality(Busy(Ending, x)) \in Nat /\ Cardinality(Busy(Ending, x)') \in Nat
        /\ Cardinality(Busy(Ending, x)') <= Cardinality(Busy(Ending, x))
    BY <1>3, <2>1, BusyMoves
  <2> QED BY <1>4, <2>2 DEF CInv, TierOK
<1>6. \A x \in ev.ids \ raced' : Cardinality(Busy(Counting, x)') = Cardinality(Busy(Counting, x))
  <2> TAKE x \in ev.ids \ raced'
  <2>1. h \notin Busy(Counting, x)
    <3>1. h \in Busy(Counting, x) => k \in Counting /\ t = x
      BY BusyMember DEF IInv, Shapes
    <3> QED BY <1>1, <3>1 DEF Counting
  <2>2. h \notin Busy(Counting, x)'
    BY <1>2, <1>3 DEF Busy, Counting
  <2> QED BY <1>3, <2>1, <2>2, BusyMoves
<1>7. j \in Purchases => u \in (ev.ids \cup gone) \ (dropped \ raced')
  <2>1. j \in Purchases => k \in Purchases /\ u = t
    BY <1>2 DEF Ending, Purchases, Holds, Sales
  <2> QED BY <1>1, <2>1, PurchaseTier
<1>8. l # "loaded" /\ (l = "idle" => j = "none") /\ raced \subseteq raced'
  BY <1>1, <1>2
<1> HIDE DEF k, t
<1> QED BY <1>1, <1>2, <1>4, <1>5, <1>6, <1>7, <1>8, TurnTaken

\* The event is deleted: there is no list left to be right about.
LEMMA DeleteCInv ==
    ASSUME IInv, CInv, NEW h \in Handlers, Delete(h)
    PROVE  CInv'
<1>1. /\ ev' = [NoCopy EXCEPT !.status = "DELETED", !.version = ev.version]
      /\ gone' = gone \cup ev.ids /\ UNCHANGED <<issued, held, dropped, raced>>
      /\ To(h, "idle", "none", FirstTier, NoCopy, NoCopy)
      /\ pc[h] = "loaded" /\ op[h].k = "delete"
  BY DEF Delete, Ends, ledgerVars
<1>2. /\ \A g \in Handlers \ {h} : /\ pc'[g] = pc[g] /\ op'[g] = op[g]
                                   /\ was'[g] = was[g] /\ now'[g] = now[g]
      /\ pc'[h] = "idle" /\ op'[h] = [k |-> "none", t |-> FirstTier]
      /\ was'[h] = NoCopy /\ now'[h] = NoCopy
  BY <1>1 DEF IInv, Shapes, To
<1>3. /\ ev'.ids = {} /\ ev'.status = "DELETED" /\ ev'.tier \in [Tiers -> Tier]
      /\ NoCopy.tier \in [Tiers -> Tier]
  BY <1>1 DEF NoCopy, NoTier, Tier
<1>4. CountsTyped'
  BY <1>1, <1>2, <1>3 DEF CInv, CountsTyped
<1>5. ASSUME NEW g \in Handlers PROVE JobOK(g)'
  <2>1. CASE g = h
    BY <1>2, <2>1 DEF JobOK, Purchases, Holds, Sales
  <2>2. CASE g # h
    <3>1. JobOK(g)
      BY DEF CInv
    <3>2. pc[g] = "loaded" => Changed(g)' /\ Current(g)'
      BY <1>2, <1>3, <2>2, <3>1, SMTT(30) DEF JobOK, Changed, SoldBy, ReservedBy, Current, Sends
    <3> QED BY <1>1, <1>2, <1>3, <2>2, <3>1, <3>2 DEF JobOK
  <2> QED BY <2>1, <2>2
<1>6. ASSUME NEW u \in Tiers PROVE TierOK(u)'
  <2>1. /\ h \notin Busy(Ending, u)' /\ h \notin Busy(Ending, u)
    BY <1>1, <1>2 DEF Busy, Ending
  <2>2. Cardinality(Busy(Ending, u)') = Cardinality(Busy(Ending, u))
    BY <1>2, <2>1, BusyMoves
  <2>3. Busy(Purchases, u) = {} => Busy(Purchases, u)' = {}
    BY <1>2 DEF Busy, Purchases, Holds, Sales
  <2> QED BY <1>1, <1>3, <2>2, <2>3 DEF CInv, TierOK
<1>7. OnlyRacesLoseCounts' /\ DroppedIsEmpty'
  BY <1>1, <1>3 DEF OnlyRacesLoseCounts, DroppedIsEmpty, CInv
<1> QED BY <1>4, <1>5, <1>6, <1>7 DEF CInv

\* A refund takes its ticket off the counter in one transaction.
LEMMA RefundCInv ==
    ASSUME IInv, CInv, NEW t \in Tiers, refundTicket(t)
    PROVE  CInv'
<1> DEFINE d == [ev.tier[t] EXCEPT !.sold = @ - 1]
           changed == SetTier(t, d)
<1>1. /\ ev' = Derived(changed) /\ t \in ev.ids /\ ev.status # "DELETED"
      /\ issued[t] > Minted(t)
      /\ issued' = [issued EXCEPT ![t] = @ - 1]
      /\ raced' = raced \cup {u \in {t} : \E g \in Handlers : Crosses(g, "sell", t)}
      /\ UNCHANGED <<pc, op, was, now, held, gone, dropped>>
  BY DEF refundTicket, jobVars
<1>2. /\ IsEvent(ev) /\ ev.ids \subseteq Tiers /\ ev.tier \in [Tiers -> Tier]
      /\ issued \in [Tiers -> Nat] /\ held \in [Tiers -> Nat]
  BY DEF IInv, Shapes, CInv, CountsTyped
<1>3. /\ d \in Tier /\ d.sold = ev.tier[t].sold - 1 /\ d.reserved = ev.tier[t].reserved
  BY <1>2 DEF Tier
<1> HIDE DEF d
<1>4. /\ IsEvent(changed) /\ changed.ids = ev.ids /\ changed.status = ev.status
      /\ changed.version = ev.version
      /\ changed.tier = [ev.tier EXCEPT ![t] = d]
  BY <1>2, SetTierKeeps, SetTierSets
<1> HIDE DEF changed
<1>5. changed.tier \in [Tiers -> Tier]
  BY <1>2, <1>3, <1>4
<1>6. /\ ev'.ids = ev.ids /\ ev'.status = ev.status /\ ev'.version = ev.version
      /\ ev'.tier \in [Tiers -> Tier]
      /\ \A u \in ev.ids : /\ ev'.tier[u].sold = ev.tier[u].sold - IF u = t THEN 1 ELSE 0
                           /\ ev'.tier[u].reserved = ev.tier[u].reserved
  <2>1. \A u \in ev.ids : /\ ev'.tier[u].sold = changed.tier[u].sold
                          /\ ev'.tier[u].reserved = changed.tier[u].reserved
    BY <1>1, <1>2, <1>4, <1>5, DerivedCounts
  <2>2. \A u \in ev.ids : ev.tier[u].sold \in Int
    BY <1>2 DEF Tier
  <2>3. \A u \in ev.ids : /\ changed.tier[u].sold = ev.tier[u].sold - IF u = t THEN 1 ELSE 0
                          /\ changed.tier[u].reserved = ev.tier[u].reserved
    BY <1>2, <1>3, <1>4, <2>2
  <2> QED BY <1>1, <1>2, <1>4, <1>5, <2>1, <2>3, DerivedKeeps, DerivedCounts
<1>7. Cardinality(Busy(Counting, t)) \in Nat
  <2>1. IsFiniteSet(Busy(Counting, t))
    BY HandlersAssumption, FS_Subset DEF Busy
  <2> QED BY <2>1, FS_CardinalityType
<1>8. issued[t] >= 1
  BY <1>1, <1>2, <1>7, MintedBusy
<1>9. /\ issued' \in [Tiers -> Nat]
      /\ \A u \in Tiers : issued'[u] = issued[u] - IF u = t THEN 1 ELSE 0
  BY <1>1, <1>2, <1>8
<1>10. CountsTyped'
  BY <1>1, <1>2, <1>6, <1>9 DEF CInv, CountsTyped
<1>11. \A K, u : Busy(K, u)' = Busy(K, u)
  BY <1>1 DEF Busy
<1>12. ASSUME NEW g \in Handlers PROVE JobOK(g)'
  <2>1. JobOK(g)
    BY DEF CInv
  <2>2. pc[g] = "loaded" => Changed(g)'
    BY <1>1, <2>1 DEF JobOK, Changed, SoldBy, ReservedBy
  <2>3. ASSUME pc[g] = "loaded" PROVE Current(g)'
    <3>1. Current(g)
      BY <2>1, <2>3 DEF JobOK
    <3>2. /\ (op[g].k \in Sales /\ op[g].t = t) \/ Sends(g) => t \in raced'
          /\ Sends(g)' = Sends(g)
      BY <1>1, <2>3 DEF Crosses, Sales, Sends
    <3>3. \A u \in ev.ids : u # t => ev'.tier[u].sold = ev.tier[u].sold
      BY <1>2, <1>6 DEF Tier
    <3>4. raced \subseteq raced'
      BY <1>1
    <3> QED BY <1>1, <1>6, <3>1, <3>2, <3>3, <3>4 DEF Current
  <2> QED BY <1>1, <1>6, <2>1, <2>2, <2>3 DEF JobOK
<1>13. ASSUME NEW u \in Tiers PROVE TierOK(u)'
  <2>1. u \notin ev.ids => issued'[u] = issued[u]
    BY <1>1, <1>2, <1>9
  <2> QED BY <1>1, <1>6, <1>11, <2>1 DEF CInv, TierOK
<1>14. OnlyRacesLoseCounts'
  <2> SUFFICES ASSUME NEW u \in ev.ids \ raced
               PROVE  /\ ev'.tier[u].sold = issued'[u] - Cardinality(Busy(Counting, u)')
                      /\ ev'.tier[u].reserved = held[u]
    BY <1>1, <1>6 DEF OnlyRacesLoseCounts, Minted, Busy, Counting
  <2>1. /\ ev.tier[u].sold = issued[u] - Cardinality(Busy(Counting, u))
        /\ ev.tier[u].reserved = held[u]
    BY CountsHold
  <2>2. issued[u] \in Nat /\ Cardinality(Busy(Counting, u)) \in Nat
    <3>1. IsFiniteSet(Busy(Counting, u))
      BY HandlersAssumption, FS_Subset DEF Busy
    <3> QED BY <1>2, <3>1, FS_CardinalityType
  <2>3. issued'[u] = issued[u] - IF u = t THEN 1 ELSE 0
    BY <1>2, <1>9
  <2> QED BY <1>6, <1>11, <2>1, <2>2, <2>3
<1>15. DroppedIsEmpty'
  <2>1. t \notin dropped
    BY <1>1 DEF IInv, GoneStaysGone, CInv, CountsTyped
  <2> QED BY <1>1, <1>2, <1>9, <2>1 DEF CInv, CountsTyped, IInv, Shapes, DroppedIsEmpty
<1> QED BY <1>10, <1>12, <1>13, <1>14, <1>15 DEF CInv

LEMMA NextCInv == IInv /\ CInv /\ [Next]_vars => CInv'
<1> SUFFICES ASSUME IInv, CInv, [Next]_vars PROVE CInv'
  OBVIOUS
<1>1. IInv'
  BY NextIInv
<1>2. CASE UNCHANGED vars
  <2>1. UNCHANGED <<ev, pc, op, was, now, issued, held, gone, dropped, raced>>
    BY <1>2 DEF vars, jobVars, ledgerVars, histVars
  <2>2. CountsTyped'
    BY <2>1 DEF CInv, CountsTyped
  <2>3. ASSUME NEW h \in Handlers PROVE JobOK(h)'
    <3>1. Changed(h)' = Changed(h)
      BY <2>1 DEF Changed, SoldBy, ReservedBy
    <3>2. Current(h)' = Current(h)
      BY <2>1 DEF Current, Sends
    <3> QED BY <2>1, <3>1, <3>2 DEF CInv, JobOK
  <2>4. ASSUME NEW t \in Tiers PROVE TierOK(t)'
    BY <2>1 DEF CInv, TierOK, Busy
  <2>5. OnlyRacesLoseCounts' /\ DroppedIsEmpty'
    BY <2>1 DEF CInv, OnlyRacesLoseCounts, Minted, DroppedIsEmpty
  <2> QED BY <2>2, <2>3, <2>4, <2>5 DEF CInv
<1> QED BY <1>1, <1>2, OrganizeCInv, PurchaseCInv, SaveCInv, VersionErrorCInv, DeleteCInv,
           RefundCInv DEF Next

-----------------------------------------------------------------------------
(* The theorems.                                                           *)

\* No copy that was loaded before a tier was deleted, and no edit that was
\* begun then, brings the tier back: for any number of handlers and edits.
THEOREM Vanished == Spec => []GoneStaysGone
<1>1. IInv => GoneStaysGone
  BY DEF IInv
<1> QED BY <1>1, InitIInv, NextIInv, PTL DEF Spec

\* No edit of a quantity, a flag or the status, however it overlaps purchases,
\* refunds and other edits, takes a ticket or a reservation off the counters:
\* a tier whose purchases were not crossed is counted exactly.
THEOREM CountsKept == Spec => []OnlyRacesLoseCounts
<1>1. IInv /\ CInv => OnlyRacesLoseCounts
  BY DEF CInv
<1> QED BY <1>1, InitIInv, NextIInv, InitCInv, NextCInv, PTL DEF Spec

\* A tier that updateEvent took out strands nobody: unless purchases crossed
\* it, no ticket and no reservation of it exists, then or later.
THEOREM DroppedEmpty == Spec => []DroppedIsEmpty
<1>1. IInv /\ CInv => DroppedIsEmpty
  BY DEF CInv
<1> QED BY <1>1, InitIInv, NextIInv, InitCInv, NextCInv, PTL DEF Spec
===============================================================================
