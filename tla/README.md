# A TLA+ development of the Carrot Tickets API

The repository is a TypeScript service (Express, MongoDB through Mongoose, socket.io) that sells tickets for
events and bus trips, runs a cashless wallet on wristbands at the event, and carries a small social network around
the events. Its state is documents in MongoDB; its concurrency is the event loop (many HTTP handlers interleave at
every `await`), the background jobs of `src/src/tasks/backgroundTasks.ts`, and the payment providers' webhooks.

This directory holds TLA+ models of the parts where money, inventory or identity can go wrong, TLC runs over small
instances, and TLAPS proofs for all instances.

| module | what it is |
| --- | --- |
| `TicketSales`, `TicketSalesProofs` | the sale of one ticket tier over every payment rail, with holds, jobs, webhooks, crashes |
| `SalePromise` | the abstract promise of a sale: one decision, tickets only for its payment |
| `EventTiers`, `EventTiersProofs` | the event document under the organizer's edits and the counters of the purchases |
| `GateScans` | check-ins and refunds of the tickets of an event, and the trail of the gate |
| `TicketFate` | the abstract promise of gate and refund desk: a ticket is let in or paid back, once, in one instant |
| `CashlessOps` | the data of the cashless wallet: requests, idempotency keys, balances, ledger legs |
| `CashlessService` | the abstract promise of the money endpoints: one effect, one instant, honest refusals |
| `CashlessWallet`, `CashlessProofs` | the MongoDB transactions that implement the promise; the books and the refinement |
| `Bands` | the tags of an event: register, wallets, bindings, reissues, adoption by a ticket |
| `EventDesks` | what `GateScans` and `Bands` have in common: the tickets of the event, its desks, the bounds |
| `BandsAndScansProofs` | the proofs about `Bands` and about `GateScans` |
| `TableTabs`, `TableTabsProofs` | the tabs of the tables, their settlement by one tap, the handover |
| `MenuOrders`, `MenuOrdersProofs` | menu preorders: two checkouts, the finalizer, the kitchen |
| `Payouts`, `PayoutsProofs` | commission withdrawals, reseller settlements, organizer payouts |
| `SeatMap` | the abstract promise of a seat-mapped bus trip: a seat is held, sold or given back |
| `BusBookings`, `BusBookingsProofs` | the bookings of one trip, and the refinement of `SeatMap` |
| `MC…` | instances for TLC |

`PROJECT.json` lists the components, the runs, the mutant of each property, the lines each definition stands for,
the hazards, the findings and the theorems.

## 1. Inventory

All paths below are under `src/src/`.

**Ticket sales** (`services/ticket.service.ts`, `models/ticketSale.model.ts`, `models/ticket.model.ts`).
State: a `TicketSale` per purchase (`paymentStatus` PENDING, COMPLETED or FAILED, the provider's reference, the
ticket ids) and a `Ticket` per place. Operations: `initiate*Purchase` and `finalize*Sale` for MTN MoMo, DeltaPay,
Peach cards, Yoco and YeboPay; `sellTickets` (synchronous, in a transaction); `refundTicket`; the reconcilers.
Correct when a sale is minted once, only for its exact payment, and ends COMPLETED or FAILED.

**Inventory** (`services/reservation.service.ts`, `services/event.service.ts`). State: `sold` and `reserved` on each
ticket type of the `Event` document and a `TicketReservation` with an expiry per pending sale. Operations:
`computeAvailable`, `create`, `confirm`, `release`, `sweepExpired`, `updateTicketsSold`. The counters are changed
by read, modify, save. Correct when counters equal holds and live tickets, and the tier is not oversold.

**Webhooks and jobs** (`controllers/*webhook*`, `controllers/yebopay.controller.ts`, `tasks/backgroundTasks.ts`).
Calls into the finalizers from outside: lost, repeated, late, concurrent with a poll and with a job.

**Event management** (`services/event.service.ts`). State: the event's status, its list of ticket types, the totals.
Operations: edit, add, adjust, mark sold out, delete a tier; submit, approve, unpublish, cancel, complete, delete the
event. Each loads the document, changes the copy and saves. Correct when no edit takes a ticket or a reservation off
the counters and a tier that is gone stays gone.

**Gate scanning** (`services/scan.service.ts`, `controllers/tickets.controller.ts`). State: `Ticket.status` and the
`TicketScan` rows. Operations: preview (read only), check in. Correct when a ticket lets one person in, never after its
refund, and the trail tells what happened.

**Cashless wallet** (`services/wallet.service.ts`, `services/merchant.service.ts`, `services/stock.service.ts`,
`services/ledger.service.ts`, `services/reconciliation.service.ts`). State: `Wallet` (`balance`,
`cashFundedBalance`), the rows `WalletTopup`, `WalletWithdrawal`, `MerchantCharge`, the `LedgerEntry` journal,
`ProductStock` with its `StockMovement` rows. Operations: `topUpCash`, `withdrawCash`, `charge`, stock movements.
Tills are offline-tolerant: they repeat a request under the same `clientTxnId` until they see an answer. Correct when
a repeat moves nothing twice and is never told a committed payment failed, when no wallet is overdrawn, and
balances, rows, journal and stock agree.

**Bands and the tag register** (`services/wallet.service.ts`, `services/eventTag.service.ts`,
`services/scan.service.ts`). State: `Wallet.bandUid`, `EventTag`, the audit rows `BandBinding`. Operations: register,
retire, issue, bind, unbind, reissue, adopt at the gate. No transaction: each is a series of single-document writes.
Correct when a tag is worn by one wallet, a retired tag is dead everywhere, and the audit rows explain the bindings.

**Table tabs** (`services/table.service.ts`). State: a `Table` with lines, a revision and a status, per-stall charges
and handover rows. Operations: open, add and remove lines, void, settle against a tapped tag, accept and hand out.
Correct when a settlement charges each stall its own lines once and the answer of a repeated settlement is honest.

**Menu preorders** (`services/menuOrder.service.ts`, `controllers/menuAdmin.controller.ts`). State: a `MenuOrder` with a
payment status, a reference and a preparation stage. Operations: two checkouts, the finalizer (poll, callback, job), the
moves of the kitchen. Correct when what is prepared was paid, what is paid is recorded, and no stage is skipped.

**Withdrawals and settlements** (`services/withdrawal.service.ts`, `services/settlement.service.ts`). State: requests and
closed periods with frozen amounts, and two stamps on the sales. Operations: request, approve, reject, pay; preview, close,
settle. Correct when no commission is paid twice and closed periods partition the sales.

**Bus bookings** (`services/transport/`). State: seats or a passenger count on a `Trip`, a `Booking`, its `BookingSale`.
Operations: book, finalize, fail, sweep, board, reserve for walk-ins. Correct when a seat is sold once, the sold
count equals the live bookings, and a paid booking can board.

**The rest** -- accounts and sessions, authorization, feed, messages, stories, notifications, moderation, reports,
provider clients, media, scripts -- keeps independent documents or only reads; section 15 gives the reason each is
left out, and `PROJECT.json` lists all of them.

How the parts meet: initiators, finalizers, jobs and the sweep share the `TicketSale`, the `TicketReservation` and the
counters on the `Event` and call nothing of each other but through those documents; the organizer's edits share the
`Event` with them; the refund desk shares the `Ticket` with the gates, the `TicketSale` with the payouts and the `Event`
with everyone. Gates and desks share the `Wallet` and the `Ticket` with the bands; tills share the wallet, the stock and
the journal with desks and tables. The menu preorders and the bus bookings copy the shape of the ticket sale and use
the same provider clients and the same kind of job.

Hard behaviours, with the line where each bites, are the `hazards` of `PROJECT.json`: check-then-act across an
`await`; read-modify-save counters; finalizers racing on one sale; a provider that charges although its call threw; a
crash between the claim of a sale and its tickets; repeats that overlap the original; write conflicts in
transactions, and writes made outside them; amounts frozen at one time and stamped at another; a sweep deciding on time
alone what a provider has not decided.

## 2. Plan

All of the plan's modules are on disk: the sales, their promise and their proofs first, then the cashless wallet with its abstract
service, the bus trip with `SeatMap`, and after these the modules that share documents with them: `EventTiers` (the event that
`TicketSales` takes as fixed), `Bands`, `TableTabs` (the same debit and legs as `CashlessOps`, in one step),
`Payouts`, `MenuOrders` and `GateScans` with `TicketFate`.

What would come next, in this order: the customer's wallet purchase,
the free claim and the wristband batches as further initiators of `TicketSales`; a clock for the expiry of holds and the
batch limits of the jobs.

## 3. `TicketSales`

*Grain.* One step of a process is one `await`: one read or write of one document, or one provider call. A process
is an HTTP handler (`Handlers`) or a background job (the sweeper and one reconciler per rail that has one). `job[p]`
holds where it stands (`pc`), its sale and what it has read; a step uses what was read earlier, not what is stored now.

| state | code |
| --- | --- |
| `rail`, `status`, `ref` | `TicketSale.paymentMethod`, `paymentStatus`, the provider's reference on it |
| `sent` | history: the sales whose initiator returned, so that the buyer was sent to pay |
| `hold`, `lapsed` | `TicketReservation.status`; its `expiresAt` is past |
| `tier` | `reserved` and `sold` of the ticket type on the `Event` |
| `minted`, `refunded` | `Ticket` documents of the sale, and those of them refunded |
| `checkout`, `posted` | the provider's own record of the payment; the webhooks it has sent |
| `job`, `todo` | the handler's local variables (`dirty`: the sale in hand carries a reference that is not saved); the list a job has read |

*Actions.* `Initiate`, `CreateSale`, `ReserveRead`/`ReserveWrite`, `CreateHold`, `CallProvider`, `StoreRef` are the
five initiators, which agree on this order. `StartPoll`, `StartWebhook`, `StartReturn`, `QueryCheckout`, `LoadSale`, `AskProvider`,
`Claim`, `MintTicket`, `FindHold`, `HoldRead`/`HoldWrite`/`HoldSave`, `SoldRead`/`SoldWrite`, `FailSale` are the five
finalizers; they differ in where the answer comes from (asked by the finalizer, carried by the webhook, asked by the
controller), which `Polled`, `NoAutoFail` and `Reconciled` express. `StartSweep`, `NextItem`, `SweepFail` are `sweepExpired`.
`SellTickets` to `CommitSale` is the synchronous sale: its tickets and its sale are in the transaction, the sold counter is not.
`Pay`, `Reject`, `DeclineAttempt` are the buyer and the provider; `HoldLapses` is the clock; `Abort` cuts a handler short at any
await, an exception outside its `try` or the death of the process, with what it has written so far left in place.

*The save of the reference.* An initiator sets the provider's reference on the sale and saves it. That save may throw, before or after it was written
(`StoreRef`); the catch then releases the hold and saves FAILED on the same document, with the reference if its save is still owed (`FailSale`, `dirty`). So a sale can
be FAILED with a reference and no event, and if the save was written a poll can complete the sale and mint its tickets before the catch overwrites it with FAILED. In both cases the
initiator has thrown and the buyer was not sent to pay; `sent` is what the properties tell them apart by.

*What the counters do.* `adjustReserved` reads the event, changes `reserved` in memory and saves. Mongoose saves only the path
it changed, so two handlers lose each other's update of the same counter but not of the other one. `HoldWrite` has both
details: the clamp at zero, and no write at all when the value read was already zero.

*Simplifications.* One server process; a job does not overlap itself (the interval is long against its run); one amount a sale,
confirmed exactly or not; a write whose `await` throws has written nothing, but for the save of the reference, above; the event is published; the synchronous charge completes in place (a wallet charge that
stays PENDING is left out); batch limits of the job queries are left out.

| run | instance | what it shows |
| --- | --- | --- |
| `TicketSales_races` | 1 sale of 2 tickets, 5 rails, 2 handlers, all jobs, 1 fault, fairness | 306 806 states; every mint is earned, whole when quiet, Yoco fails on evidence only, settled for good; `SalePromise` kept; a lapsed hold is released, a payment settles its sale |
| `TicketSales_serial` | 3 sales (2+1+1) on 3 places, refunds, no overlap | 1 483 590 states; counters exact, no oversell |
| `TicketSales_overlap` | 2 sales, 1 place, 2 handlers | violation: the last place is sold twice |

*Bounds.* In `races` one sale is enough: its documents are shared only with handlers of the same sale, apart from the counters, which
`serial` and `overlap` cover with several sales. Two handlers besides the sweeper and a reconciler give four concurrent
finalizers. Two tickets make a partly minted sale possible. One fault cuts a handler short anywhere, and others repeat its
work. DeltaPay is not among the rails, since its behaviours are those of Peach whose payment comes before the hold lapses. `RaceNext` takes the first handler when
both are free, which loses nothing. While it runs the second takes requests for a sale that is not settled, which loses only requests that return at once, and no browser's return from YeboPay, which loses only two overlapping returns. It cuts
short everything but the initiator in its catch after a save of the reference that threw: that leaves no document but those a job or a poll cut short there leaves. The proofs are about `Next`, without these restrictions. `serial` needs a sale of two places beside sales of one, so that a refund or an expiry of
part of the capacity is visible. `MaxFaults` and `MaxRefunds` are the only bounds on counters.

*Fairness.* `setInterval` starts each job again and again and the event loop resumes a job whose `await` returned: weak
fairness of the job's own steps. Nobody must pay, poll or deliver a webhook, and a request may stop for ever.
`PaidIsSettled` is claimed only for the rails with a reconciler; MTN MoMo has none for ticket sales.

`CHECK_DEADLOCK FALSE` because a sale that is over stays over: the number of sales is finite. (The same holds of
the bounded modules below.)

*What must be qualified.* `SettledIsFinal` and the last part of `QuietSalesAreWhole` speak of a polled rail's sales whose buyer was sent to pay: where the save of the reference threw
after it was written, COMPLETED is overwritten and the tickets stay. `YocoFailsOnEvidence` excepts the same initiators. `QuietSalesAreWhole` and `CountersExact` hold when no handler was cut short; a crash between the claim and the
last ticket does leave a COMPLETED sale short of tickets, which no job repairs (hazard at `ticket.service.ts:1866`). `NoOversell` and
`CountersExact` hold only while handlers do not overlap; `TicketSales_overlap` is what happens otherwise.

### Proofs (`TicketSalesProofs`)

For every set of sales and handlers, every quantity, capacity and choice of rails (`SalesAssumption`):

- `TypeCorrect` -- `[]TypeOK`; the part that is not obvious is that the counters stay natural numbers whatever is lost;
- `EveryMintIsEarned` -- `[]MintsAreEarned`: minted at most once (`NeverDoubleMinted`) and only for the payment asked for (`OnlyPaidIsMinted`);
- `SettledStays` -- `Spec => SettledIsFinal`, an action property from the same invariant.

None of these is inductive alone. `IInv` adds:

- `JobOK`: what a process at a given label knows (a process at `claim` carries a success the provider gave; one at `mint` has
  claimed and `n` counts its tickets; one about to fail a sale carries a rejection);
- `SaleOK`: relates a sale's status, tickets, checkout and posted events (a posted success implies the payment);
- `ListOK`: a job's list holds only sales of its rail that have a reference;
- `OneCreator`: at most one process is creating a sale, and only before any other knows of it;
- `OneMinter`: at most one process is minting a sale, which by then is no longer PENDING (`JobOK`).

The argument: the compare-and-set `Claim` takes PENDING to COMPLETED, and no step takes a sale back to PENDING, so `OneMinter`
is preserved; then `minted = n <= Qty` of that process. Each disjunct of `Next` has its lemma; most are
instances of `LocalStep` (only `job[p]` changes) or `QuietStep` (no sale changes).

Relative to `IInv`, `QInv` is inductive and gives, for handlers that overlap in any way:

- `QuietIsWhole` -- `[]QuietSalesAreWhole`. Nothing must be left undone once everyone is idle, so the invariant names who still has it to do:
  a settled sale whose hold is still held has a process at work on that hold (`HeldOK`), a COMPLETED sale short of tickets has one in the mint
  loop (`MintedOK`). `JobQ` and `SaleQ` say that a hold goes from none to held to given back and to nothing else;
- `YocoNeedsEvidence` -- `[]YocoFailsOnEvidence`: a handler of Yoco has its answer from a posted event, and events stay posted; an initiator whose save of the reference threw may fail the sale without one, but has not sent the buyer to pay;
- `PromiseImplemented` -- `Spec => PromiseIsKept`, the refinement of `SalePromise`.

*`SalePromise`* has no handlers, jobs, holds or events: a sale is opened, presented, paid or not, completed or given up, minted ticket by ticket, refunded. The refinement mapping is the identity on the six variables
of the promise, so every other step must be a stutter. `CreateSale`, `CallProvider`, `StoreRef`, `CommitSale`, `Claim`, `MintTicket`, `FailSale`, `SweepFail` and `World` are the steps that may not be, and each has a lemma saying which action of the
promise it is. Three clauses of the promise are weaker than one would like, and each is needed -- TLC refutes the promise without it: a payment page may open for a sale that the sweep has already failed (`Present`); a
completed sale may be overwritten by FAILED (`Fail`); and its tickets then go on being minted (`Mint`). The last two are confined (`Retracts`) to Yoco and YeboPay, whose events are taken at
their word, and on the other rails to sales whose buyer was never sent to pay. So a failed sale of a polled rail can have tickets: its reference was written by a save that threw, a poll completed it, and the initiator then failed it.
What holds, whatever is cut short, is that once the buyer was sent to pay such a sale is never taken back, and that it mints nothing after it failed.

`LiveTickets` and `HeldTickets` are cardinalities of sets of places (`LivePlaces`, `HeldPlaces`), so the counters are compared with sets and no
sum is needed. The last two theorems are about the counters and need a hypothesis each, because the properties are false without it:

- `CountersStayExact` -- `Spec => []CountersExact` if `Overlap = FALSE`. `SInv`: at most one process runs (`Solo`), the sweep's list stays a list of
  holds (`Swept`), and a counter is the number of its places plus or minus what that one process has counted and not yet shown (`Account`). With
  overlap a read-modify-save loses an update, which is why the run `TicketSales_overlap` ends in a violation;
- `NeverOversold` -- `Spec => []NoOversell` if `Overlap = FALSE`, `MaxFaults = 0` and `Rails` are among Peach, DeltaPay, MoMo and cash
  (`Polled \cup {"CASH"}`). `OInv`: what is sold and reserved leaves room for what the running process claims (`Fits`), and a PENDING sale
  has its hold or is on its way in or out (`PendingHeld`). The three hypotheses are those of `TicketSales_serial`, for any number of sales: an
  overlap sells a place twice (finding 1), a handler cut short leaves a counter wrong, and a Yoco or YeboPay sale outlives its hold (section 12).


## 4. `EventTiers`

`TicketSales` takes the event as fixed. Here it is the document that the organizer edits while purchases count on it.

*Grain.* Every operation of `EventService` loads the whole event, changes the copy in one turn of the event loop and saves it: one step loads
(`Loads`), one saves (`Save`, `VersionError`), and the others come in between. A purchase passes its availability check, then loads again for its counter
(`BuyAsync`/`BuySync`, `LoadReserved`/`LoadSold`).

| state | code |
| --- | --- |
| `ev` | `Event`: status, `__v`, ids and subdocuments of `ticketTypes`, `totalTicketsSold` |
| `was`, `now` | the document as loaded, and after the changes and the pre-save hook (`Derived`) |
| `issued`, `held` | tickets that are not refunded, reservations still held: what the counters should say |
| `gone`, `dropped`, `raced` | history: tiers that left the list, those `updateEvent` took out, those with a crossed purchase |

*The save.* Mongoose sends only the paths that changed (`Pick`, `MergedTier`). A change of the list's membership or order sends the whole array, and so does a tier pushed onto a copy in which the pre-save hook corrects
another tier's stale `available` (`SendsList`): Mongoose then has two changes of one array and sends it whole. That save, and every one that addresses an
element by position, matches the version it has loaded (`SaveMatches`) or throws. A push alone needs no match. Ids are fresh, as `ObjectId`s are.

*Actions.* `UpdateEvent`, `DropTier` and `ExtendTiers` are `updateEvent` (change a quantity, send the tiers in another order, leave one out, put one in). `ids` is a set, so that of a reorder only the write of the whole list is seen; `addTicketType`, `updateTicketType`, `adjustTicketQuantity`,
`markTicketSoldOut`, `deleteTicketType` and the status operations have the names of the code. `Finalize`, `Release` and `refundTicket` are the purchases as `TicketSales` has them, at
the grain of the event's load and save.

`EventTiers_edits`: 2 tiers (one there at first), 2 handlers, 4 operations, 219 661 states. Two handlers show every crossing of two copies; four operations are a
purchase with its count, an edit, and one to find the damage; the second tier shows that a rewrite of the list hits a tier the editor did not name.
`OnlyRacesLoseCounts` says who may lose a count: a purchase crossed by another purchase on the same counter or by an edit that sends the whole list, a tier added over a stale `available` included, and nobody else.
The stale figure is reached: two crossed saves leave one, and the next load corrects it.

*Observations.* `deleteTicketType` (unlike `updateEvent`) does not look at reservations: `DeletedIsUnsold`, which says of a deleted tier what the run checks of a
dropped one, is violated. `publishEvent` and `cancelEvent` judge the copy: an approval that loaded the event before a cancellation publishes it again.

### Proofs (`EventTiersProofs`)

`Vanished` -- `Spec => []GoneStaysGone` for any tiers, handlers and sizes. A stored list could regain a tier from an old copy that is saved as a whole; `CopyOK` excludes it: *a copy with the stored version
has the stored ids*, and one with an older version fails `SaveMatches`. `NewsOK` says that a tier about to be added is in nobody else's copy and was never in the list.
`IInv` is these, `Shapes` and `GoneStaysGone`.

Relative to it, `CInv` is inductive and gives `CountsKept` -- `[]OnlyRacesLoseCounts` -- and `DroppedEmpty` -- `[]DroppedIsEmpty`. It follows each counter through the copies of
the document: `Changed` says that a copy differs from what was loaded only in what its operation does; `Current` that, unless the purchase was crossed, *the counter a copy is going
to write is still as loaded*, and that a copy that will be sent whole (`Sends`), and whose save will be accepted, has every such counter so. `TierOK` bounds a tier's reservations from below by the handlers about to end one,
and says that a dropped tier without a crossed purchase has no purchase at all. The number of handlers is finite (`HandlersAssumption`), since reservations are counted against them.

## 5. `GateScans`

| state | code |
| --- | --- |
| `status`, `refunded`, `scans` | `Ticket.status`, `TicketSale.refundedQuantity`, `TicketScan` rows by result |
| `request`, `stale` | a transaction: its request, the next write, what it has read; the documents to write that others have changed since |
| `admitted`, `torn` | history: answers "checked in"; success rows whose check-in did not commit |

`checkInTicket` and `refundTicket` take their snapshot; then come the writes in the code's order: `SaveTicket`, `WriteScan` (a row written without the session, so it stays
when the transaction does not), or `SaveTicket`, `SaveSale`, `SaveEvent`; then `Commit`. `Abort` is the write conflict: unlike `withTransaction` at the cashless desk these transactions are never run again.
`Fail` is a write that fails or a process that dies, `CommitUnheard` a commit whose acknowledgement is lost; `Touch` stands for all other writers of the
same documents. The counters of the event that a refund lowers are in `EventTiers`. The retry without a session, for a MongoDB that is not a replica set, is left out.

`GateScans_gate`: 3 tickets of 2 sales, 2 handlers, 5 requests, 1 fault, 731 327 states. Two of the tickets share a sale, so that two refunds meet on it; five requests let two
tickets be fought over after a fault.

*Observations.* A lost acknowledgement lets nobody in: the guest of a ticket that was checked in is refused when it is scanned again. The row of an unknown code can never be written, since
`ticketScan.model.ts:6` requires a ticket and an event: the scan ends in an error and not in "Ticket not found" (`scan.service.ts:201`).

*`TicketFate`* has no transactions, snapshots or conflicts: `CheckIn` and `Refund` change a ticket, its sale and what the gate was told in one instant, and only a ticket that is still "sold".
The run checks `FateIsSettledOnce`, that `GateScans` implements it under the identity on `status`, `refunded` and `admitted`. Its mutant is a save without the session.

### Proofs (the second half of `BandsAndScansProofs`)

For any finite set of tickets (`TicketsAssumption`), any sales and any number of handlers: `GateTypeCorrect`, `LetInOnce` (`[]AdmittedOnce`), `GateBooksKept` (`[]GateBooksAddUp`) and `GateImplementsFate`.
`AdmittedOnce` is not inductive: a commit may let in a ticket only because what the transaction read is still true, and nothing in the status of the ticket says so. `GateInv` adds what the conflicts achieve:

- `Current`: what a transaction has read -- the ticket "sold", the figure of the sale -- is what is stored, once it has written that document and before that as long as the document is not in its `stale` set; and a refusal on its
  way to its row is still true.
- `Apart`: two transactions are never both past the save of the same ticket, nor of the same sale.
- `Shape`: a request stands only where its kind can stand, and one that was not refused carries a ticket it read as "sold".

A commit then finds `Current` true of the documents it writes, which makes it a `CheckIn` or a `Refund` of the abstract specification; `Dirty` keeps `Current` for everybody else, and `Apart` is why there is nobody else past that save. The
refunded tickets of a sale are counted by adding one element to `RefundedOf`, the pending rows of the trail by following `Entering` through each step.

The two modules share no variable. Their proofs stand in one module, over the tickets and handlers that both take from `EventDesks`.

## 6. The cashless wallet

*`CashlessOps`* has the requests (`topup`, `withdraw`, `charge`; itemised when `qty > 0`), the key of the unique indexes, the
effect on the balance and its cash part, the fee rounded down, and the ledger legs of `ledger.service.ts`.

*`CashlessWallet`* models the transactions. `PreCheck` is the read before the transaction. `Snapshot` is the first read in it: all
reads of the callback see that instant, and `Verdict` is what they lead to. From then on `stale[h]` collects the documents others commit.
`Retry` is the write conflict that `withTransaction` answers by running the callback anew; `Commit` writes wallet, stock, legs and row at
once; `Duplicate` is the unique index refusing the row (the whole transaction is undone and the committed row is read);
`Throw` is a decline, whose writes are undone. `Collect` and `Crash` free the handler: the device may or may not
have its answer and may send the same request again. Stock movements and `SetOpen` go on meanwhile.

| state | code |
| --- | --- |
| `balance`, `cash` | `Wallet.balance`, `Wallet.cashFundedBalance` |
| `rows` | `WalletTopup`, `WalletWithdrawal`, `MerchantCharge` |
| `ledger` | sum of `LedgerEntry` amounts per account |
| `stock`, `supplied` | `ProductStock.onHand`; sum of the movements that are not sales |
| `open` | merchant active and operator active |
| `pc`, `req`, `ans`, `stale` | the handler's position, request, outcome, and its snapshot's age |

*`CashlessService`* is what a till may rely on: a request takes effect in one instant and at most once; it is refused only on a ground that was true at some
instant while it was served; a repeat of a committed request is answered with the committed outcome. It has no snapshots, conflicts or
indexes. `Blind` names the operations that may be declined although committed: the code needs `{"withdraw"}` there, and
finding 2 is why. The refinement maps a handler in a transaction with a verdict to `decided`, and a retry to `Reconsider`.

*Simplifications.* One event; one product a stall; a fixed integer commission percent; wallets are active (no code under `src`
freezes or closes one); the till's operator and its stall are one flag. A suspension that commits after a charge took its
snapshot does not stop that charge: the merchant document is only read, and snapshot isolation does not notice.

| run | instance | what it shows |
| --- | --- | --- |
| `CashlessWallet_books` | 2 wallets, 2 stalls, 5 requests, 2 handlers | 315 968 states; no overdraft, journal = wallets, cash covers all, history explains balances and stock; refinement of `CashlessService` |
| `CashlessWallet_payout` | 1 wallet, a desk | violation: a committed withdrawal is answered "insufficient balance" |

*Bounds.* Transactions conflict in pairs, so two handlers show every conflict; the finished rows stand for all earlier handlers. The requests
contain one id for a plain charge of one guest and an itemised one of another, and amounts that fit a
balance alone but not together; a repeat is the same request sent again, by either handler. A percentage of 50 on the amount 2 splits a charge between stall and fees. A stock of at most one item makes
a sale compete with the stock room and the other stall for the last one. The requests are finite and each has its effect once, so balances are bounded without a guard. No deadlock: a free handler can always be sent a request again.

No liveness is claimed: stock movements can overtake an itemised charge for ever, and what ends its retries is the driver's limit of 120 seconds.

### Proofs (`CashlessProofs`)

For any wallets, stalls, handlers, requests and percentage (`RequestsAssumption`, `PctAssumption`, `MaxStockAssumption`): `TypeCorrect`,
`NeverOverdrawn` (no balance below zero or below its cash part), `MovedOnce`, `JournalAgrees`, and `Implementation` (`Spec => AnsweredOnce`).

`NoOverdraft` is not inductive: a commit checks nothing, it relies on the verdict reached on its snapshot. `TxnsOK` closes the gap: *a
transaction with verdict "go" whose documents no one has changed still has the funds and the stock; a verdict "replay" rests on a committed row*.
It survives every commit of another handler because that commit either leaves the documents alone or enters them into `stale`.
`IInv` is `TypeOK`, `TxnsOK`, `OneRowPerKey`, `JournalMatchesWallets` and the bound on the cash part, and the refinement uses it too: `Commit` is
`Perform` because the verdict still holds.

The books follow: `FloatCovers` -- `[]FloatCoversEverything`, the cash of the desks is what is owed to wallets and stalls plus the fees earned -- and `HistoryExplains` -- `[]HistoryExplainsState`, every balance and every stock is what its
committed rows amount to (and, for a stock, the stock room's movements). Both are sums, over wallets and over rows; `SInv` is the two of them with the finiteness of the rows. The library's sum is a recursive function on finite sets, and no prover here
takes the library's induction theorems. The laws the proofs use (`SumIsSolution`, `SumWith`, `SumWithout`, `SumChanged`: the sum with one element more, one less, one changed)
are therefore proved by a smallest counterexample: `<` is well-founded on the cardinalities, so that if a law failed, it would fail at a smallest set. Hence `WalletsAssumption`: there are finitely many wallets.

## 7. `Bands`

No operation of the bands is a transaction: each is a series of single-document writes, ordered and undone by hand. One step is one
write, or one read that a later write depends on.

| state | code |
| --- | --- |
| `tag` | `EventTag.status` by uid, `"none"` when the register has no row |
| `made`, `band`, `ticket` | `Wallet` documents, `bandUid`, `ticketId` (both under a unique index) |
| `trail` | `BandBinding` rows of a wallet, with `unboundAt` unset or not |
| `job` | where a request stands and what it has read (`previous`: the band a reissue restores) |
| `crossed`, `tangled`, `doubled`, `cut` | history: tags bound while being retired, wallets bound again before the trail was written, wallets given a ticket by two requests at once, requests cut short |

`registerTag`, `Issue` and `ensureStandaloneWalletForBand` with `MintWallet` and `WriteRow`, `bindBandToTicket` with `Look`, `Adopt` or `ensureWalletForTicket`, `AskRegister`, `bindBand`, `Audit`,
`AuditFails` and `UndoClaim` for the claim and its rollback, `Unbind`/`unbindBand`/`Stamp`, `reissueBand` with its preflight and the restore of the old tag, `retireTag` with `FindWearer` and `Flip`.
`Cut` ends a request anywhere. That retiring releases first and flips afterwards is the code's order (`eventTag.service.ts:160`), and why `crossed` is needed.

`Bands_desk`: 2 tags, 2 wallets, 2 tickets, 2 handlers, 4 requests, 1 fault, 601 552 states; symmetric in all of them. Four requests give a tag a wallet, a ticket
and a second life, with a request to race each.

### Proofs (the first half of `BandsAndScansProofs`)

`RetiredDead` and `TicketKept`, for any tags, wallets, tickets and handlers. `RetiredIsDead` alone says nothing of a request that has passed the register; `JobOK` adds
*a request between the register and its claim carries a tag that is not retired, or crossed* (`AdmittedOK`), and *a retirement about to flip its row carries a tag nobody wears, or a crossed one* (`RetireOK`). `OneWearer` (the index),
`WornIsMade` and `Typed` complete `IInv`. `TicketKept` needs that the wallet an adoption saves still has no ticket, unless two were adopting it (`AdoptOK`).

`TrailTold` -- `[]TrailTellsTheBand` -- and `TypeCorrect` rest on a second invariant, `TrailInv`. The trail is written after the band, so it is behind while a request still owes it a row; `TrailInv` says,
of a wallet that is neither `tangled` nor `cut`, that *at most one request owes it a row, that the trail is behind by exactly that row* (`Behind`), *and tells the band when nobody owes one* (`Tells`).

## 8. `TableTabs`

| state | code |
| --- | --- |
| `tab`, `line`, `handover` | `Table` (status, items, subtotal, revision, who settled it), its line items, its `fulfilment` rows |
| `stock`, `balance`, `ledger`, `charges` | `ProductStock.onHand`, `Wallet.balance`, sums of `LedgerEntry`, `MerchantCharge` rows of settlements |
| `band` | `Wallet.bandUid`; how it changes is in `Bands`, here `Rebind` |
| `job` | a settlement: the tab as priced, the wallet found, the answer; which wallets have worn the tag since, whether a copy committed meanwhile |

A settlement reads and prices the tab (`ReadTable`), finds the wallet and looks at its balance (`TapTag`), then runs its transaction (`Settle`, `Abort`). The
transaction is one step because every document it depends on is also written in it, under a filter: revision and totals of the tab, funds of the wallet. A repeat of a settled tab is answered by `replaySettlement`.

`TableTabs_floor`: 2 tables, 2 stalls (50 % and no commission), 2 lines, 2 guests, 4 requests that differ in the table, the id or the tag, 2 settlements sent, 3 edits, 1 move elsewhere,
1 532 776 states. Two settlements in service show every race of a settlement with its repeat or with another guest's; three edits can replace a line by another at the same price, which only the revision tells apart.

`RefusedIsUncharged` has the window the code leaves open: `ChargedIsNotRefused`, after the comment "a retry replays the committed charges", is violated. The look at the balance before the
transaction refuses a repeat whose first copy commits in between (hazard at `table.service.ts:634`).

### Proofs (`TableTabsProofs`)

For any tables, stalls, lines, wallets, tags and requests: `PaidTap`, `RefusedTap`, `ShelfKept`. `IInv` adds `TabOK` (a tab that is not settled has no wallet and no id),
`LinesApart` (a line is on one tab) and `JobOK` (a settlement that has priced its tab, and whose tab is settled under its id by now, has `raced`; the wallet it has found has worn the tag). `ShelfAddsUp` is proved by following each line: a set of lines grows or
shrinks by one element in every step.

`BooksKept` -- `[]BooksAddUp`: every amount debited from a wallet is posted to the stalls, net, and to the fees, whatever the rates and however the shares are rounded. `MInv` adds to `IInv` the types of the amounts and `ReadOK`:
*as long as the tab has the revision at which a settlement priced it, it has the lines it was priced from, and its revision never goes back*, which is why the sum charged is the sum of the lines posted. `PostingBalanced` is the arithmetic: the
total of the lines is the sum over the stalls of the stall's share (`SumShared`), each share is its net plus its fee, hence the entries of a settlement add up to zero. The laws of sums are proved here too, by the same argument as in
section 6. Lines, stalls, wallets and tags are finite (`PricesAssumption`, `PctAssumption`, `WalletsAssumption`).

`TypeCorrect` -- `[]TypeOK` -- puts `IInv`, `MInv` and the types of the rows of the charges (`TInv`) together.

## 9. `MenuOrders`

| state | code |
| --- | --- |
| `rail`, `status`, `ref`, `fulfillment` | `MenuOrder.paymentMethod`, `paymentStatus`, `momoReferenceId`, `fulfillmentStatus` |
| `checkout` | the provider's record of the payment |
| `job`, `todo` | where a handler or the reconcile job stands; the list the job has read |
| `stages`, `lost` | history: stages stored so far; orders whose checkout was cut short or got no answer |

`PlaceOrder` to `CatchFailure` are the two checkouts: the wallet pays first and saves the order once with its outcome; MoMo saves PENDING, asks MTN, stores the reference, and its catch block saves FAILED over whatever is there.
`Poll`, `Callback`, `StartReconcile`/`NextOrder` share `AskProvider`, `ClaimOrder` (the compare-and-set) and `FailOrder` (a save of the copy). `ReadOrder`/`SaveStage` are the kitchen: the move is judged on what was read.

`MenuOrders_counter`: 2 orders, both rails, 2 handlers, the job, 1 fault, 488 436 states. In the instance the second handler serves the first order only, and only that one reaches the kitchen: orders share nothing but handlers and the
job's list, so two handlers need to meet on one order. *Fairness*: weak, on the job's own steps, as for the ticket jobs.

*Observations.* `TerminalStays`, after "collected and cancelled are terminal" (`menuOrder.model.ts:106`), is violated: two members of staff who read the same stage store theirs one after the other. A catch block whose
reference was stored after all overwrites a COMPLETED order with FAILED; such an order counts as `lost`.

### Proofs (`MenuOrdersProofs`)

`TypeCorrect`, `MoneyMet`, `StagesKept`, for any orders, handlers, rails and any number of faults. `IInv` says of each process what its label knows: `Labelled` (who has an
order, and which one), `Checkout` (how far the payment of an order being placed has come), `Carried` (a process at `claim` has seen the exact payment; one that writes a stage may: the stage before was stored, and the order paid);
`OnePlacer`; and `Accounted`, which is what a paid order needs to be found again.

## 10. `Payouts`

An amount is the set of sales it sums, so that "counted twice" and "left out" are visible; the figures of a sale never change after it.

| state | code |
| --- | --- |
| `sale` | channel (hence custody), status, `soldAt`, `commissionWithdrawn`, `resellerRemitted` |
| `withdrawal`, `settlement`, `payout` | `ResellerCommissionWithdrawal`, `ResellerSettlement`, `OrganizerPayout` (one per period: unique index) |
| `job` | an operation between its writes: the sum it has taken |
| `late`, `crossed`, `tried`, `together` | history: sales completed after an amount that reaches them was summed; withdrawals requested together, or rejected after somebody began to pay; withdrawals somebody began to pay; periods closed at once |

`requestWithdrawal`/`CountCommission`/`CreateRequest`; `approve`, `reject`; `markPaid`/`StampWithdrawn`/`FlipPaid`; `closeResellerSettlement`, `closeOrganizerPayout` with `Preview`/`CreateClosed`;
`markResellerSettlementPaid`/`StampRemitted`/`FlipSettled`; `markOrganizerPayoutPaid`; `Sell`, `Complete`; `Crash` between the two writes of an operation.

`Payouts_books`: 2 sales, 2 requests, 2 periods (one within the other), cash, MoMo and door, 2 handlers, 4 operations, a clock of two ticks; 2.16 million states. Sales online differ from MoMo only in not earning
commission, and are in the proofs.

*Observations*, each the reason for one of the histories: two requests made at once both pass "none is open" and hold the same sales; a request rejected while it is being paid leaves its sales stamped, or is paid after all; a sale paid
after its period was closed is in no payout; a settlement stamps sales made after it was closed (`withdrawal.service.ts:74` and the hazards beside it).

### Proofs (`PayoutsProofs`)

For any sales, requests, periods, handlers and clock: `TypeCorrect`, `PaidOnce`, `StampsBacked`, `PeriodsAddUp`. `IInv` is `Typed` (what each step has read), `Commissions` and `Closings`. The heart of `Commissions`: *two requests that are not crossed
share a sale only if one of them is rejected, and a request being paid, or paid, has its sales stamped, so a later one does not sum them*. That of `Closings`: *two closings of one ledger that are not `together` were checked one after the
other, so their periods do not overlap*.

## 11. The bus trip

*`SeatMap`* is what a seat-mapped trip promises: a seat is held by one booking, a held seat is sold or given back, a sold seat stays
with its booking and can be neither taken nor set aside.

*`BusBookings`* models one trip of either scheme at the grain of one write or one provider call.

| state | code |
| --- | --- |
| `scheme` | `Trip.seatScheme` |
| `seat` | `Seat`: `isReserved`, or `isBooked` with its `bookingId` (always written together), or free |
| `soldCount`, `reservedCount` | the same fields of `Trip`; `$inc` is not bound by the schema's minimum, so `soldCount` may be negative |
| `place` | the seat a booking asked for; `"any"` where passengers are counted |
| `booking`, `sale`, `ref` | `Booking.status`, `BookingSale.paymentStatus`, the provider's reference on it |
| `sent` | history: the bookings whose initiator returned, so that the passenger was sent to pay |
| `lapsed`, `checkout` | `reservationExpiresAt` is past; the provider's record of the payment |
| `job`, `todo` | where a handler or job stands (`dirty`: the sale in hand carries a reference that is not saved); the list a job has read, with the references as they were then |

*Actions.* `ClaimCapacity` to `StoreRef` are the two asynchronous initiators, which agree; `UndoClaim`, `Unbook`, `Unsell` are their catch blocks,
in the order of the code: claim, booking, sale. Where the save of the reference threw, `Unsell` saves FAILED together with that reference. `Charge`, `SaveConfirmed`, `CreateCompleted` are `sellSeat`, which claims by the same update; cash and the Keshless wallet are one
rail, `CASH`. `StartFinalize` to `Confirm` are `finalizeMomoBooking` and `finalizeCardBooking`, whoever calls them. `FailSale`, `CancelBooking`, `ReleaseFailed` are
`failBookingSale`. `StartSweep`, `StartReconcile`, `NextItem` are the jobs; the sweep goes on from a pending answer to force the expiry. `Board` is the gate,
`ReserveSeat`, `ReleaseSeat`, `CheckReserved`, `SaveReserved` the operator.

*Simplifications.* A booking has one seat and is attempted once; a job does not overlap itself; a write whose `await` throws has written nothing, the save of the reference included, so no finalizer meets a sale whose initiator is still to fail it (the provider's call may
throw after it took effect); batch limits are left out; the status of the trip is never written under `src`, so the recheck after a claim is left out; `findById` and `save` in the finalizer
are one step, since nothing else writes a booking whose sale is COMPLETED but the gate, which waits for CONFIRMED. A hold outlasts every write; that it ends while the initiator waits for the provider counts as a fault.

`BusBookings_trip`: 2 bookings, the first by card, the other by MoMo or at the counter, 1 place, both schemes, a handler, both jobs, 1 fault, fairness; 380 046 states. Bookings end on evidence and once, the run refines `SeatMap` through
crashes, the count covers the passengers and adds up when nothing is cut short, a lapsed hold is settled, a paid card settles its booking.

*Bounds.* One place makes every claim compete and every wrong release visible; two bookings are the one that loses the place and the one that takes it. MoMo differs from the card only in
having no reconciler. With the handler, the sweep and the reconciler, three processes may settle the same sale. One fault reaches the crash of each of them; `SeatsHonoured`, `EndsOnEvidence` and `SettledIsFinal` are proved
for any number of handlers and faults. *Fairness* is that of the ticket jobs: weak, on the steps of the two jobs.

*What must be qualified.* `EndsOnEvidence` speaks of sales whose passenger was sent to pay: a sale may be FAILED with a reference, neither lapsed nor refused, where its initiator threw. `SeatsHonoured` holds through every fault because the release names the booking; the passenger count is an unconditional decrement, and the catch blocks release a place before they cancel the booking
(`booking.service.ts:169`, `:182`; card: `:255`, `:269`): cut short in between, they leave the sweep to release the same place again. Hence `CountCoversWithoutFaults`; `CountCovers`, the same for every trip, is violated. `QuietTripAddsUp` is for trips without a fault: a crash can strand a place or a paid booking, and no job looks for either (hazards at `booking.service.ts:97` and `:511`).

### Proofs (`BusBookingsProofs`)

For any bookings, seats, handlers, schemes, rails and any number of faults (`TripAssumption`):

- `TypeCorrect` -- `[]TypeOK`;
- `ConfirmedPaid` -- `[]ConfirmedHasPaid`, and with it `SettledOnEvidence` -- `[]EndsOnEvidence`; a passenger sent to pay has a stored reference (`SentHaveRef`), and an initiator that still fails its sale has sent nobody;
- `SettledStays` -- `Spec => SettledIsFinal`;
- `Implementation` -- `Spec => SeatsHonoured`: every behaviour is one of `SeatMap` under the refinement mapping.

`IInv` adds to the types:

- `JobOK`: what a process at a given label knows of its booking, in one definition, `Fits`: an initiator before its reference is stored works on a
  sale no one has completed, one about to confirm a counter sale has taken the money, a finalizer at `claim` has seen the exact payment, a process about to
  release a place has a FAILED sale and a cancelled booking;
- `BookingOK`: relates the sale, the booking, the payment and the seat of one booking; at its centre, a booking that is sold, or whose PENDING
  sale has a reference, still has its seat;
- `OneCreator`: at most one process is creating a booking;
- `ListOK`: a job's list says of a sale that it has a reference only if it has one.

Neither property is inductive alone, because the release in the catch blocks checks no status: it is safe for a seat map only because the sale it belongs
to has no reference yet, so no finalizer can have completed it (`Fits`), and because it names the booking. `MoveStep` reduces a step about
one booking to that booking and that process; the lemmas `...Step` then have one case per action. In the refinement `ClaimCapacity` is `Take`,
`SaveConfirmed` and `Confirm` are `Sell`, `UndoClaim` and `ReleaseFailed` are `GiveBack` or, when the seat is no longer the booking's, a stutter.

`CountKept` -- `[]CountCoversWithoutFaults` -- and `QuietTripKept` -- `[]QuietTripAddsUp` -- speak of trips on which nothing was cut short, and so does their invariant, `TInv`: `faults = 0 => TripOK`. `TripOK` says that a booking has one process
that may still take or give back its place (`OneOwner`), that a creator's sale has neither lapsed nor a reference while a finalizer's has one or the other (`Apart`), what has been written of a booking at each of them (`Shaped`), and that the trip's counter is the number of bookings
that count at this moment (`CountOK`): those with a place that have not given it back. A release twice of the same place would break it, and `OneOwner` is what a fault takes away.

## 12. Findings and observations

Two runs must end in a violation; `PROJECT.json` quotes the lines.

1. `TicketSales_overlap` -- availability is checked at `ticket.service.ts:1201` and reserved at `:1283` by a read-modify-save that checks
   nothing: two overlapping purchases both get the last place.
2. `CashlessWallet_payout` -- `withdrawCash` does not look for its row inside the transaction, as `charge` does; an overlapping repeat
   of a withdrawal that empties the tag is declined although the money was paid.

Further disagreements met on the way; each is a definition in its module or a history that qualifies a property, and none is claimed to hold:

- `reservation.service.ts:73` says that leaving a Yoco sale PENDING carries no oversell risk; its late payment mints a ticket for a place that was sold again
  (`TicketSales_serial` takes Peach and cash: a Peach sale fails when its hold ends).
- `yebopay.controller.ts:107` takes every return of the browser that is not COMPLETED for an expired checkout: `YeboPayFailsOnlyWhenOver` is violated.
- `EventTiers`: `DeletedIsUnsold`. `TableTabs`: `ChargedIsNotRefused`. `MenuOrders`: `TerminalStays`. `BusBookings`: `CountCovers`.
- `Payouts`, `Bands` and `GateScans`: what sections 10, 7 and 5 say of their histories.

## 13. Mutants

Every property of a passing run has a mutant in the module, beside the definition it changes (`ClaimUnconditional`,
`CommitBlindly`, `LegGross`, `SaveMatchesAny`, `FirstRow`, ...): a plausible slip in the code, under which TLC finds that property violated in the same run.

## 14. Only model-checked

- Liveness (`LapsedHoldReleased`, the two `PaidIsSettled`, `LapsedIsSettled`, `PaidCardIsSettled`) and everything with `ENABLED`.
- The full type invariant of `EventTiers`: its proofs use only the part they need (`Shapes`, `CountsTyped`). What is missing is that the total of the event, a sum over its tiers, is an integer.
- `CountersExact` and `NoOversell` beyond the hypotheses of their theorems: without them they are false (section 3).

Every other invariant and action property of the passing runs is a theorem.

No module with a theorem reaches a `RECURSIVE` operator.

### Running it

    tlc -workers 2 -config TicketSales_races.cfg MCTicketSales
    tlc -workers 2 -config CashlessWallet_books.cfg MCCashlessWallet
    tlc -workers 2 -config TableTabs_floor.cfg MCTableTabs
    tlapm TicketSalesProofs.tla

and so on: a configuration `X_run.cfg` belongs to the module `MCX`. The largest runs take three to four minutes.

## 15. Not modelled

*Variants of what is modelled.* `purchaseForCustomer`, `claimFreeTicket` and `issueWristbandBatch` (further initiators of a ticket sale); the read-only preview of a scan, the listings and the sign-in of gate operators; the tills' catalogue. Each
section above names what its module leaves out.

*Clocks and batch limits.* A hold lapses at any moment, and a job reads all it should; that the reconcile job reads fifty sales at a time, unsorted, is a hazard without a property.

*Left out for good.* Provider clients, notifications, media and transcoding (I/O; what they may answer is in the models of their
callers); reports, exports and ranking (read-only); accounts, sessions, authorization and plumbing (checks on one
request); feed, following, stories, messages, moderation, catalogue (single-document writes under unique indexes);
tickets as documents (rendering); scripts and configuration.
