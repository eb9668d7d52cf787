# houndfe-backend in TLA+

This directory models the parts of the back end whose correctness depends on
the order of things: requests that race for the same row, retries, leases that
end, polls and scanners that run on several servers, aggregates that are saved
after somebody else changed them. Each module is a TLA+ translation of the code
that `PROJECT.json` names under `map`; the runs check it with TLC on small
instances, and the `*Proofs` modules prove the main results with TLAPS for every
value of the constants.

    tlc -workers 2 -config MCSelling.cfg MCSelling     # one run
    tlapm BackgroundJobsProofs.tla                     # one proof module

Paths below are relative to the repository (`src/sales/...` is the application,
`prisma/schema.prisma` the schema).

## 1. The system

A NestJS server over PostgreSQL (Prisma), a point of sale and back office for
several tenants. Requests are handled by any number of server processes.
A transaction is opened by `TenantPrismaService.runInTransaction` at the default
isolation level, READ COMMITTED: two transactions exclude each other only where
one of them locks (`SELECT ... FOR UPDATE`, an `UPDATE`, a unique index, an
advisory lock). What a handler reads before its transaction, or in it without a
lock, may have changed by the time it writes.

| Component | State it keeps | Operations | Hard because | Module |
| --- | --- | --- | --- | --- |
| Sales (`sales/`) | sale, items, payments, refunds, `sale_idempotency` | draft edits, charge, collect, cancel, delivery marks, bot confirmation | retries, races for one row, saves of stale aggregates, a slot that commits before its transaction | `SaleLifecycle`, `SalePromise` |
| Refund settlement (`sales/`) | refund, settlements, slots with lease and token | `settleRefund` | take-over of a slot whose owner may be alive, lost commits | `RefundSettlement`, `RefundPromise` |
| Outbox (`shared/outbox` and seven lanes) | `outbox_events` | publish, claim, deliver, mark, retry, give up | leases that end during a delivery, crashes, marks that fail | `Outbox`, `EventPromise` |
| Promotions: capacity | promotion, `promotion_usages` | claim, restore, edit, delete | counter and ledger under concurrent sales and stale edits | `PromotionCapacity` |
| Promotions: expiry | promotion, alert states, cursor in memory | scan, claim, edit, end, activate, delete | stale batches, several scanners, fairness of the cursor | `PromotionExpiry` |
| Cash register (`cash-register/`) | sessions, movements, counts, handovers, closings | open, post, freeze, declare, verify, hand over, release, close | money that races with the freeze, custody across people and sessions | `CashRegister` |
| Pricing of a draft (`sales/`, `promotions/`) | lines, applied promotions, vetoes and opt-ins | draft edits, repricing, the engine, the charge | a quote that others make stale, an engine that runs again inside the charge | `DraftPricing` |
| Delivery routes (`delivery-routes/`) | routes, stops, the marker of a sale on a route | create, edit, start, check in, cancel, delete, transfer | compare-and-set from a load in two queries beside row locks | `DeliveryRoutes` |
| Chatbot API (`chatbot-api/`) | registration slots, checkouts, quotes, customers | register a sale, check out, quote | slot taken before and stamped after the transaction, two routes that lock the same rows | `BotSales`, `BotPromise` |
| Stock and its alerts (`inventory/`, `products/`, `stock-alerts/`) | lots, variants, balances with a version, journal, alert flags | initial stock, charge by FEFO, reverse, remove, convert, adjust, thresholds | buckets that change kind or go away between sale and reversal, stale adjustments, crossings | `Stock` |
| Human decisions, delivery zones (`human-decisions/`, `delivery-zones/`) | decision requests, validations of postal codes, zones, acknowledgments | ask, replace, resolve, join, edit a zone, acknowledge | replays, two reviewers, joining a question that is being answered | `HumanDecisions` |
| Receipts (`receipts/`, `sales/review/`) | evidence rows, stored objects, reviews | upload, drop, review, purge | objects and rows that commit apart, two reviewers of one payment, batches that cannot be deleted | `Receipts` |
| Procurement (`procurement/`) | suppliers, orders with lines, command receipts, audits | create, edit, confirm, cancel, delete orders; add, edit, remove suppliers | a try-lock per key, versions and a reference token against stale views, locks in an order | `Procurement`, `PurchasePromise` |
| Quotations, time off | one row each | edit, send, cancel; request, review, cancel | handlers that save what they read earlier | not modelled (section 7) |
| Authentication | login challenges, rate buckets | reserve, deliver, resend, verify | mail between two transactions | not modelled (section 7) |

The remaining components (catalog editorial, public catalog, shipping,
administration, analytics, files, PDF, settings) are listed in `PROJECT.json` with
the reason for leaving them out: most are edits of single records, queries,
validation of documents or calls to other services.

How the components meet:

* A draft is repriced and its promotions evaluated after most edits, and once more
  inside the charge, which is refused when a price or a promotion it was quoted
  with no longer stands.
* Money of a sale that is bound to a cash session is posted to the ledger of the
  register in the same transaction (`SalesService` calls `CashLedgerPort`).
* A sale that is confirmed or canceled moves stock, claims or restores promotion
  units and writes its outbox events in the transaction that changes the sale.
* A check-in on a delivery route marks the sale DELIVERED (`markSaleDelivered`);
  a cancellation refuses a delivered sale. Both lock the row of the sale.
* A row of the stock journal that lands on or below the threshold of its balance
  raises the flag and publishes the event of the low-stock lane.
* A bot sale or a checkout creates and confirms a sale, spends a shipping quote
  and may create the customer, in one transaction.
* The review of a receipt that is approved collects a payment of its sale.
* Purchase orders read products and never move stock.
* Everything that leaves the server goes through `outbox_events`; a lane has a
  poller, and all but the generic one await the answer of Inngest.

What each component must keep, in one line:

* **Sales**: a request key has one effect and one answer; payments, debt, stock,
  refunds and events agree; what was agreed is binding; a cancellation returns
  all of it, once, and only if nothing left the shop.
* **Refunds**: paid once per key, never beyond what is owed, no key stranded.
* **Outbox**: every event is in the end delivered and marked, or given up after
  its retries; outcomes are earned where the delivery is awaited, and final where
  the lane is fenced.
* **Promotion capacity**: never beyond the cap; counter, ledger and announcement
  agree.
* **Promotion expiry**: announced once per end date, only when it is due, and in
  the end although others fail.
* **Cash register**: one custodian per drawer; the expected amount is the sum of
  the ledger; all that was counted is handed over and received; a cut is final.
* **Pricing of a draft**: what the seller saw is charged, at prices of today, and
  what he decided (vetoes, opt-ins, prices by hand) stands.
* **Delivery routes**: a sale rides on one route; a route is over exactly when its
  stops are; a completed stop delivered its sale and thanked its customer once.
* **Bot sales**: a key sells once, a quote is spent once and by whom it was made
  for, and the two routes never wait for each other in a circle.
* **Stock**: the journal adds up to the balances; a version that is unchanged
  means a balance that is unchanged; an alert above its threshold is armed, unless
  the product was a service before.
* **Human decisions**: a chain of questions has one live answer, nobody waits for
  a validation that is over, an answer that was heard is in the row.
* **Receipts**: a file stays until its receipt is due, and goes then, unless the
  answer to its commit was lost; a key has one file, and a receipt pays once.
* **Procurement**: an order is confirmed as its buyer saw it; a command takes
  effect once, and is told so.

## 2. The modules

| Module | Models |
| --- | --- |
| `SaleLifecycle` | one sale and the handlers that race for it |
| `SalePromise` | the abstract promise of a sale, without handlers, locks or tables |
| `RefundPromise` | the promise of a refund, without handlers, slots, leases or tokens |
| `EventPromise` | the promise of an event, without polls, batches, leases or tokens |
| `BotPromise` | the promise of a bot's sale, without slots, locks, steps or failures |
| `PurchasePromise` | the promise of a purchase order, without transactions, locks or tokens |
| `RefundSettlement` | one refund, its slots and its handlers |
| `Outbox` | the event table, its lanes and the polls |
| `PromotionCapacity` | promotions, the usage ledger, sales and editing operators |
| `PromotionExpiry` | promotions, alert states, scanners, operators and the clock |
| `CashRegister` | sessions, movements and handovers of several registers |
| `DraftPricing` | one draft, the catalogue, the promotion engine and the charge |
| `DeliveryRoutes` | routes, stops, sales on them and the requests that read before they commit |
| `BotSales` | the calls of the chatbot: slots, customers, quotes, row locks |
| `Stock` | one product with lots and variants, its journal and its alerts |
| `HumanDecisions` | questions, validations, zones, reviewers and the bot |
| `Receipts` | uploads, storage, rows, reviews and the purge |
| `Procurement` | orders, suppliers, the product they name, keys and locks |
| `MC*` | sets, symmetry and bodies for TLC, and the compositions |
| `*Proofs` | inductive invariants, lemmas and theorems |

A composition (`MCSelling`, `MCAfterSale`, `MCOffers`, `MCBackgroundJobs`,
`MCCashRegister`) puts components beside each other that share
nothing of the database the models look at: the next-state relation is the
disjunction of theirs, and a component steps while the others are at rest in
their initial state. Every behaviour of a component alone is one of the
composition within the bounds of section 3, and the sizes of the state
spaces add up instead of multiplying. Where components do share rows, one module
holds both sides: the stock and its alerts, the routes and the delivery status of
a sale, a receipt and the payment of its sale, the bot's checkout and its quote.

**The grain of a step.** What runs in one transaction after it locked the row
that the decision depends on is one step. What runs outside, or reads without a
lock, is a step of its own. So `Charge`, `Collect` and `Cancel` are single
steps, the slot of an unbound request is taken in a step before
(`AcquireSlot`), and a writer that saves a stale aggregate has two or three
steps (`LoadForEdit`, `CheckEdit`, `WriteEdit`; `LoadForSave`,
`SaveAggregate`). All properties are over these interleavings.

### SaleLifecycle

`sale` is the row (with its items as one quantity that is also the price),
`ledger` and `refunds` the sums of the payment and refund rows, `stock` what the
stock journal moved for this sale, `outbox` the number of events of each type,
`slots` the table `sale_idempotency`. A handler is idle, holds a slot
(`acquired`), or is one of the stale writers. `Replay` is an answer from a
stamped slot, `Abort` a failure or a crash after the slot was taken: the slot
stays. A request bound to a cash session takes its slot inside the
transaction and leaves nothing behind when it fails.

Two writers save what they read before their transaction: `"edit"`
(`saveDraftItems`, which reads the status without a lock) and `"meta"`
(`save`, which locks the row and compares only part of it). Both are at work in
the run and in the theorems; `StaleWriters` leaves one of them out only in the
runs that show which writer a finding needs. Such a save is harmless as long as
its copy has the status and the delivery of the row; the one that has not
(`TakesBack`) undoes a charge, a cancellation or a check-in (findings 1 and 2). The
history variable `overwritten` records that this has happened; no guard reads
it. What the code keeps is said up to that moment: `BooksAgree`,
`ConfirmedIsBinding` and `PromiseKept` hold in every state and of every step before
it, whatever the stale writers write, and `OneEffectPerKey` holds after it, too.

`SalePromise` states what a customer and a bookkeeper see: a request is
indivisible and happens once per key. `PromiseKept` instantiates it with the keys
that were stamped.

### RefundSettlement

`Acquire`, `Settle`, `Fail`, `Release` follow `settleRefund`; `Expire` ends the
lease of a slot, `Reclaim` and `Reacquire` are the two statements of a take-over
(delete, then insert), `Die` a crash. `Settle` is the transaction: it pays and
stamps its slot if it still carries the token. `Fail` also covers the commit
that succeeded and whose answer was lost, after which the catch clause tries to
release a slot that is stamped. `SettleBound` is the same request bound to a cash
session: one transaction.

`RefundPromise` leaves of this what the customer and the books see: a key pays
once, what fits what is still owed; its receipt says what was paid by then and is
never written again; whoever is answered under a key is told its receipt.
`SettledAsPromised` takes the stamped slots for the receipts, so that the whole
life of a slot before its stamp (taken, expired, reclaimed, released) is a
stutter.

### Outbox

A row carries status, lane, retry count, whether it is due, the token of its
claim and whether the lease runs. A poll holds a batch and the row it is at, as
they were when they were claimed. `Deliver` hands the event over, `Confirm` and
`Reschedule` write the outcome, `ConfirmFails`, `RescheduleFails` and `Die` are
the failures in between. Lanes differ in what they compare when they write: the
generic and the low-stock lane the id of the row, the fenced lanes also the
token. They differ in what they hear, too: the generic lane emits the event and
does not await its listeners (`outbox-dispatcher.service.ts:19`), so that a
listener may refuse it and the row becomes PUBLISHED all the same; the other lanes
await the answer of Inngest. `LeaseEnds` may strike while a poll is alive.

`EventPromise` is what a publisher may rely on: only written events are
handed over, an event is given up only when it was refused as often as there is
patience for, one of a lane that awaits is called published only when it was
delivered (`PublishedWasDelivered`), and the outcome of a fenced event stays.
A published event of the generic lane was emitted, which is all that can be said of
it. In the other lanes it may be reopened or decided again, since
a poll whose lease ended writes what it remembers (finding 5).
`DeliveredAsPromised` maps the status of a row to the outcome.

### PromotionCapacity

`Claim` is the claim of a sale on all of its promotions (all or none), `Cancel`
the restoration. `Read` and `Save` are the two halves of an edit: validation
against the counter that was read, then the conditional write. `WriteDraftBack`
is the effect of a stale edit of a sale (finding 1), after which the sale is
charged again. `Delete` removes a promotion and, by cascade, its ledger.

### PromotionExpiry

A scanner reads a batch behind its cursor (`ReadBatch`) and claims promotion by
promotion (`ClaimNext`): the claim locks the row, reads the clock and checks
again. `ClaimFails` is a claim that throws, always so for `Poison`. An operator
reads (`ReadForUpdate`, `ReadForEnd`, `ReadForActivate`) and writes later
(`Write`). `Restart` forgets the cursor.

### CashRegister

Every command locks its session (or, to open one, its register) from the first
read to the commit, so each is one step. `session` has the counts and the
closing in it: `expected` is the frozen snapshot, `declared` the first count,
`noted` whether an explanation was given. `Post` carries what all movements
have in common: the session is open, the sums stay in range, no source is
recorded twice. `Funds` is the validation of an opening FLOAT. Amounts outside
the range of the column are refused, as in `assertArithmeticRange`.

### DraftPricing

`draft` is the aggregate: its lines by ware (with the price, where it comes from,
and the discount by hand or by promotion that is on it), the list and the customer
of the sale, the order promotion, the vetoes and the opt-ins. `prices` is the
catalogue with its tiers, `live` and `left` the promotions that are ACTIVE and the
units they have left. `Recompute` is `recomputePricingAndPromotions`: it takes the
promotions off the lines (`Cleared`), reprices those that the seller did not price
(`Repriced`), and applies what the engine grants (`Evaluation`: the passes for
product discounts, buy-x-get-y and advanced promotions, then the order). When a
promotion is granted beyond its units, the whole pass is repeated without it
(`AfterPasses`, `CapacityExcluded`). Edits end in a recompute or, for
`clearItems`, discounts by hand and `clearCustomer`, in a bare `Save`, as in the
code. `ChargeDraft` checks the prices and the quoted promotions and recomputes.
Elsewhere prices are raised, promotions end, and units are taken or come back. The
observer `fresh` says that nothing since the last recompute may change its outcome.

### DeliveryRoutes

`route` and `stop` are the rows, `reserved` the stops with an `activeRouteId`,
`parcel` the two status columns of each sale, `thanked` the thank-you rows in the
outbox. Requests that plan hold the row lock of the route for their whole
transaction (`CreateRoute`, `AddStop`, `TransferStop`, `StartRoute`, ...); the
eligibility of a sale is read before (`Probe`). Drivers hold no lock: they read the
row (`ReadRoute`), then the stops (`ReadStops`), and commit what they decided with
a compare-and-set on both (`Unchanged` in `CheckIn`, `ReplayCheckIn`,
`CancelRoute`). Every write of the row is assumed to change its `updatedAt`, on
which the comparison rests. `LoadSale` and `SaveSale` are the stale save of
finding 2 seen from here, for the sales in `SaleSavers`.

### BotSales

A call of the chatbot has a list of steps that it has still to do (`Path`), among
them the row locks in the order in which the code takes them; `held` are the locks
of its transaction. `RegisterSale` commits its slot first and stamps it last
(`StampSale`), `Checkout` has everything in one transaction under an advisory lock
that is tried and not waited for. `Fail` is any error or death before or after
the commit; only a refused quote frees the slot (`Released`). Around the calls
quotes are issued and expire, and the back office edits addresses and adds
customers.

`BotPromise` sells an order in one step or not at all: a key once on its route, a
quote once on either, with a customer where the phone has none; whoever is
answered is told of the sale of what he asked for. `SoldAsPromised` takes for the
step the one in which a call commits; what it answers later, after a crash or to
a repetition, is `Answer`.

### Stock

One product with its untracked units, lots and variants. Whatever moves stock
locks the row of the product until it commits, so an operation is one step:
`Persist` is the writer of the journal (rows, balances, versions), `AlertsAfter` the
crossings it records. A conversion back from SERVICE takes the threshold from the
request, or 0, and re-arms the alert only when the request names one (`ToProduct`).
`Allotment` is the allocation by expiry, `Restored` the
reversal of a sale onto the buckets that still exist, `Removal` what a conversion
or a deletion takes away. Adjusters read (`ReadStock`) and adjust later; a version
that moved in between makes their read useless (`Reread`).

### HumanDecisions

A handler reads (`Begin`, with what it sees in `Sight`) and then commits or fails.
Handlers that write about one postal code hold its advisory lock in between; all
others rely on unique indexes and conditional updates, which are the guards of the
second step. Chains of questions that replace each other, validations that several
customers wait for, zones that answer at once, the resolution by a reviewer and the
one acknowledgment of the bot are in one table `asked`, keyed as in the code by
kind and source key.

### Receipts

An upload stores its original and its preview, inserts its row, and drops what it
stored when the row is refused; each of these may fail, lose its answer or be cut
short by a crash (`MaxLosses`). A reviewer reads a receipt and then, in one
transaction, marks it and pays (`ConfirmReceipt`), or rejects it. The purge runs
in batches behind a cutoff (`StartRun`, `ScanReceipts`, `RemoveObjects`,
`MarkPurged`, `RemoveFails`, `EndBatch`).

An upload whose row was committed and which does not hear of it drops its objects
all the same (finding 7), and a replay returns that row later. `StoredUntilDue`
therefore speaks of every receipt but those of uploads that ended without an
answer (`Unheard`), whoever was told of it; `AnsweredIsStored`, which leaves none
out, is what the comments of the code say and what the run `receipt_commit`
refutes.

### Procurement

A command goes through the phases in which it takes what it needs: its key (tried,
not waited for), its order, its supplier; `WriteOrder`, `CloseOrder`, `SaveSupplier`
and `RemoveSupplier` write the row, the audit and the receipt that answers a
repetition. `LoseCommand` rolls a command back or loses its answer, `Repeat` sends it
again. A key is the pair of the actor and the key he sent, so that two buyers never
share one. A request carries what its sender had on the screen (`Shown`); the command
sees of it no more than the code does, two versions and the token of the
references, which says nothing of the lines. `Suppliers` may exist at the start, each with the receipt of its
creation under no key.

`PurchasePromise` has no requests on their way: each command is one step on the
rows as they are, taken once under its key, and an order is confirmed only as it
is: the view of its request, the snapshot it freezes and the rows of that moment are
the same (`Seen`). Under the mapping the step of a command is the one that commits
it; taking locks, rolling back, losing an answer and answering a repetition are
stutters.

## 3. The runs

| Run | Instance | Shows |
| --- | --- | --- |
| `selling` | sale: 2 handlers, 2 keys, both stale writers, quantities to 2, 4 charge bodies, 2 collections; routes: 2 routes, 2 sales, 2 requests; orders: 1 order, 1 supplier, 2 buyers, 1 key | until a stale save takes back what others decided, the books agree, a confirmed sale is binding and the sale implements `SalePromise`; keys stay right whatever is saved; routes reserve, complete and deliver what they carry; commands on orders are told what they did and implement `PurchasePromise` |
| `after_sale` | refund: 2 handlers, 2 keys, 4 tokens, 2 bodies, a refund of 3; receipts: 2 uploads, one undeletable, batches of one | a refund is fenced, implements `RefundPromise`, and no key is stranded (liveness); files are kept until due and then deleted (liveness) |
| `offers` | draft: 2 wares, 2 lists, 4 sets of promotions, 5 steps before the charge; bot: 3 calls, 2 keys, 3 carts, 1 quote; stock: 2 lots, 1 variant, 1 sale, 1 adjuster, quantities to 2, 2 days | a fresh preview is charged as shown, at prices of today, and what the seller decided stands; bot calls spend quotes once, do not deadlock, and implement `BotPromise`; journal, versions and alerts tell the truth |
| `background` | outbox: 2 polls, 2 events, 3 lanes, batches of 2, 2 retries, 2 faults; expiry: 2 promotions, one of which always fails, 2 scanners, 1 operator | outcomes are earned, events implement `EventPromise`, every event settles (liveness); alerts once, current, and not starved (liveness) |
| `cash_register` | drawer: 2 people, 2 registers, 2 sessions, 2 handovers; questions: 3 keys, 2 handlers; promotions: 2, 2 sales of up to 2 units, 2 editors, caps 2 and 5; receipts: 2 uploads, 2 reviewers | custody, frozen expectation, all that was counted is handed over, backed cuts; chains of decisions; capacity; payments of receipts |
| `sale_draft_edit` | 2 handlers, `"edit"` | violated: finding 1 |
| `sale_canceled` | 2 handlers, `"meta"` | violated: finding 2 |
| `sale_cancel_slot` | 2 handlers | violated: finding 3 |
| `expiry_ended` | 1 promotion, 2 operators | violated: finding 4 |
| `outbox_alert` | 2 polls, 1 alert | violated: finding 5 |
| `stock_cancel` | 1 lot, 1 variant, 1 sale | violated: finding 6 |
| `receipt_commit` | 2 uploads of one file under one key, 1 lost answer | violated: finding 7 |

**Bounds, and why they are enough.**

* *Sales.* Prices 0 to 2 with tenders 1 to 3 give change, exact payment, a part
  and credit. Two keys suffice for two requests that are not retries of each
  other. Two handlers are a request and its retry, two requests, or a stale writer
  and the request that comes in between; what a handler leaves behind when it
  crashes or answers stays in the slots, so that a third one meets what the first
  of two would meet if it came again. The proofs are for any number of them. The
  number of requests is bounded by the slots. While a handler works on a copy of the
  sale, the run has fewer bodies (`FewBodies`) and the other handler charges,
  collects or cancels; the run `sale_draft_edit` has two copies at a time.
* *Refunds.* Of the two bodies, 2 and 1 of a refund of 3, one of each fits, and a
  second 2 does not; the smaller is the bound one. A token is needed for each slot and for each handler that was
  overtaken, hence four.
* *Outbox.* `MaxRetries = 2` has a first, a last and an exhausted attempt.
  `MaxFaults` counts crashes, failed writes and leases that end before the work
  does; two are needed for two stale polls. One row sees two of them, two rows see
  one (`FewFaults`), and rows of one lane meet (`OneLane`): the pollers of two lanes
  read different rows. Leases that end after a crash are free. Without a bound on faults nothing would ever settle.
* *Promotion capacity.* The cap 2 is filled by one sale, the cap 5 makes the
  announcement threshold (four fifths) a value that is reached and left. One of the
  two promotions has a cap, is edited or deleted and gives two units to a sale; the
  other one is there for the sales that take units of both (`OneInFocus`).
  `IntMax = 5` puts the overflow guard in reach. `MaxEdits` bounds edits and
  drafts that are written back.
* *Promotion expiry.* A batch of one and a promotion that always fails are the
  least for the cursor to matter. The clock has two values and the window is
  one, so a promotion becomes due and expires.
* *Cash register.* One cent is the largest amount, so every sum is at its limit
  at once. `MaxMovements = 1` lets one posting through (with its change): with
  two, the instance is beyond a run of this size. With two sessions a FLOAT
  cannot compete for a third: that it opens at most one session, that a source is
  recorded once, and that later postings keep the frozen sums is covered by the
  proofs, which have no bounds.
  `Connected` follows a second drawer only if a FLOAT connects it with the first and
  no movement was posted: otherwise the two share a register, whose release is
  checked when the second is opened, or nothing, and the ledger of one drawer says
  nothing of the other.
* *Draft pricing.* The first ware has a tier from two units and is on the list of
  the customer, the second is only on the default list; two units of each make
  groups, tiers and limits of one to three units that are exceeded. The
  promotions are none or one of three pairs that compete: a limited one for a
  product with a manual one for all, buy-x-get-y with a manual order discount,
  an advanced one with an order discount that is bound to a list. Five steps are
  an edit, a decision, and what makes them stale; the fifth of them happens
  elsewhere (`SellerFirst`). The proofs have no bounds.
* *Routes.* Two requests with two sales on one route are the two last check-ins
  at a time; the second route is the one that a transfer or a start competes
  with. One of the two sales is shipped and has a stale saver, the other one keeps
  it company; one request at a time plans, and none looks at a canceled route, which
  every command refuses (`OneInFocus`).
* *Bot.* Three calls on two keys: a retry, its original and a stranger. One quote
  is enough to be spent twice; two places are enough for an address that moves.
  Two calls run at a time; under two keys, both want the quote; the address is
  edited or somebody else adds a customer, not both (`FewCalls`).
* *Stock.* Two units, two days and two lots make an allocation pass from an
  expired lot to a live one and on to untracked units. The second lot, and days and
  dates, come without variants, adjusters and thresholds, and a product that was a
  service comes without thresholds; one undated lot meets all of them (`FewAtOnce`).
  One sale suffices: what is reversed is compared with what it took.
* *Questions.* Three keys are a chain of three or a fork of two; five requests
  are two askers, a join, a resolution and its replay. The window is one tick, and
  the clock strikes no later than during the first request (`EarlyTick`). Decisions
  and postal codes share no row, so they are explored apart (`OneKind`).
* *Receipts.* Two uploads under one key with two files; `MaxLosses = 1` lets any
  one step fail or die. `MaxAttempts` exceeds what one loss can reach, so the
  order of the batches is never cut off by the cap.
* *Procurement.* `MaxVersion = 3` puts the last version in reach; four calls are
  two commands of each buyer, or one and its repetitions, the last of them a
  repetition (`LastRepeats`). The one key is a buyer's own; two replacements of one
  order under different keys are covered only by the proofs. A product changes while a transaction runs
  (`ChangesMatter`). Two looks differ in their status, the only part that is
  compared.

The restrictions in the MC modules cut interleavings that show nothing new, so that
every run ends in about a minute; they are conditions on steps of the instance, the
specifications and the proofs know nothing of them. Where a run checks liveness they
only bound faults and the rows that are written.

Where symmetry is declared, its sets are only compared for equality; the runs
with liveness properties declare none. Deadlock is checked in `after_sale`, where
clients may always try again and the purge always starts again. The other
instances end: a sale is canceled and all keys are spent, edits and calls are
spent, sessions are closed. That the row locks of the bot's calls are never waited
for in a circle is the invariant `NoCircularWait`.

**Fairness.** Only liveness properties use it.

* `RefundSettlement`: a lease ends (weakly fair clock), a handler that holds a
  slot goes on or fails, and a client without an answer repeats its request
  (strong fairness: the slot may be busy when it asks).
* `Outbox`: `setInterval` ticks in every server, so a lane is claimed again and
  again; leases and backoffs end; a delivery and the write after it come to an
  end, in success or refusal.
* `PromotionExpiry`: each scanner ticks (`WF` on its own step). Nothing is
  assumed of operators or the clock: `DueIsAlerted` speaks of promotions that
  stay due.
* `Receipts`: the daily run is started again and a step of it is taken
  (`WF` on `PurgeStep`); losses are bounded, uploads and reviewers owe nothing.
  In `after_sale` the condition is that of the component that runs.

## 4. Findings

1. `sale_draft_edit`. `saveDraftItems` reads the status of the sale without a
   lock and then writes the aggregate it holds, with status DRAFT and its lines.
   A charge that commits in between is undone in the row: payments, stock
   movement and event stay, and the sale can be charged once more. The
   specification of the change "protect confirmed sales" asks for a `FOR UPDATE`
   lock in these writers.
2. `sale_canceled`. `assignSeller`, `clearSeller` and `setDueDate` read the sale
   before the transaction of `save`; the row is locked there but only DRAFT is
   told from the rest. A sale canceled in between becomes CONFIRMED again.
3. `sale_cancel_slot`. The slot of a cancellation is keyed by the sale, is
   committed before the transaction and is never released. After a failure or a
   crash no later request can cancel the sale.
4. `expiry_ended`. An edit that began before a promotion was ended writes the
   override back as it read it, and the promotion is active again.
5. `outbox_alert`. The low-stock dispatcher writes its outcome by the id of the
   row. A poll that outlived its lease reopens an alert that was published.
6. `stock_cancel`. `StockPlan.has` accepts a lot of a product with variants and
   `applyLot` refuses it. After a product with lots was converted to variants (its
   emptied lot rows stay), the reversal of a sale that took from a lot throws,
   and the sale cannot be canceled.
7. `receipt_commit`. When the answer to a commit is lost, the upload drops the
   objects of a row that exists ("No row points at our objects any more",
   `receipt-upload.service.ts:156`). A retry under the same key is answered by
   replay with that receipt (line 100), whose bytes are gone.

Seen while modelling, without a run of their own:

* *Promotions.* An edit that does not name the cap of a promotion writes back the
  cap it read (as in 4).
* *Cash register.* A handover of zero cents may be created after the drawer was
  released, in which case the cut waits for its receipt
  (`docs/cash-register-closing.md` says all handovers are received before the
  release). A recipient who is deactivated before he confirms leaves a drawer that
  nobody can release (`cash-adapter-custody.ts:172`).
* *Draft pricing.* The charge says that its total "can NEVER drift from the draft
  preview" (`sales.service.ts:3074`); `FreshPreviewIsCharged` holds for what is
  fresh, and these are not: a discount by hand, `clearItems` and `clearCustomer`
  leave the order promotion as it was computed before; a promotion that ends, or
  units that come back, change what the recompute of the charge grants; units
  taken of a promotion that the preview had left out after several passes may
  change which ones are left out (applied and excluded promotions are compared,
  line 3056); and a tier of the default list that is changed passes unnoticed,
  since a line of the default list is validated against the base price and then
  repriced at the tier.
  A line that reprice puts at a tier of the default list in an earlier step fails
  that validation and can never be charged (`PRICE_OUT_OF_DATE`, against
  `docs/pos-price-list-tiers-frontend.md:182`).
  An order discount of several units subtracts the discount of one unit from its
  base (`pos-evaluate-promotions.use-case.ts:557`, against
  `openspec/specs/pos-promotion-engine/spec.md:192`). A fixed product discount not
  below the price makes the handler fail (`DISCOUNT_AMOUNT_INVALID`), where the
  specification keeps a floor of one cent (`spec.md:182`). `clearItems` neither
  recomputes nor opts out, so a manual promotion comes back with the next item; a
  paused promotion loses its opt-in, although a comment says it is kept;
  buy-x-get-y and advanced promotions do not look at specificity; a discount by
  hand over a rewarded line keeps the kind of its reward; and lines that are bound
  to a list only by the sale are offered to the engine without a list, so
  promotions for a list pass them over.
* *Sales and cash sessions.* Two operations on one sale that are bound to one cash
  session take key-share lock, session and sale in an order in which PostgreSQL
  has to abort one of them.
* *Routes.* A DRAFT route reserves its sales, while the specification
  (`openspec/specs/delivery-routes/spec.md:489`, "DRAFT routes never claim the
  marker") and a comment of the repository say that the marker is set exactly
  while a route is ACTIVE. A sale that is canceled between the check of its
  eligibility and the write rides along (the check does not look at its
  status), and its stop can never be checked in. The stale save of finding 2 also
  takes back DELIVERED.
* *Bot.* The quote of a bot sale is verified against an address that is read
  again later; `QuoteIsHonoured` exempts that route
  (`chatbot-api.service.ts:770`).
* *Stock.* The guard of the conversion from PRODUCT to SERVICE looks at product
  and lots only, so the units of variants disappear with a journal row although
  the comment says that the guard leaves nothing to remove
  (`docs/business.md:64` and `:208`). A reversal restores onto products that are no
  longer tracked. An alert may stay raised over plenty after its product was a
  service: the conversion back sets the threshold to 0 when none is named
  (`products.service.ts:970`), and re-arms only when one is named (lines 1092 and
  1142). `ArmedAboveThreshold` speaks of products that never were a service.
* *Outbox.* The generic lane marks a row PUBLISHED although a listener may have
  refused it: the emit is not awaited (`outbox-dispatcher.service.ts:19`). Two
  comments know of it and keep the dedicated lanes out for that reason
  (`outbox-poller.service.ts:48`, `low-stock-outbox.dispatcher.ts:10`).
* *Receipts.* Two receipts confirmed by one reviewer under one
  payment key with the same amount are paid by one payment.
* *Time off.* A request is approved on a status that was read before the employee
  canceled it (`employee-time-off.service.ts:176`).
* *Quotations.* Every handler reads, changes and saves without a lock: an edit
  begun before `send` takes a SENT quotation back to DRAFT (`quotation.entity.ts:26`
  calls SENT immutable), `send` overwrites a concurrent cancellation, and `save`
  replaces the lines in several statements without a transaction. The persisted
  totals are never updated, although the list filters and sorts by them.

## 5. The proofs

| Module | Theorem | Says | Rests on |
| --- | --- | --- | --- |
| `SaleOnStockProofs` | `TypeCorrect` | `SaleLifecycle` keeps its types | `ConstantsAssumption` |
| | `KeysAreExactlyOnce` | one holder, one answer, one refund per key, with any stale writers | `KeyInv` |
| | `BooksBalance`, `ConfirmationIsBinding` | until a stale save takes back what others decided, the books agree, a cancellation slot tells the truth, and what was agreed is binding | `BooksInv` |
| | `SaleKeepsPromise` | until then the sale implements `SalePromise` | `KeyInv`, `BooksInv` |
| | `OnlyEditsReopenDrafts` | a confirmed sale returns to draft only if edits save stale copies | `NobodyEdits`, `"edit" \notin StaleWriters` |
| | `JournalExplainsStock`, `AdjustersSeeWhatTheyChange`, `PlentyIsArmed` | the journal adds up to the balances, an unchanged version means an unchanged balance, plenty is armed in a product that never was a service | `StockInv` |
| `RefundSettlementProofs` | `RefundIsPaidOnce`, `StampsAreFinal` | a refund is paid once per key, stamps are final | `Custody` |
| | `RefundKeepsPromise` | the settlement implements `RefundPromise` | `Custody` |
| `BackgroundJobsProofs` | `OutboxTypes`, `OutcomesAreEarned`, `FencedRowsAreFinal` | outcomes are earned in the lanes that await the answer, fenced ones are final | `Remembered`, `Waiting`, `Fenced` |
| | `EventsKeepPromise` | the outbox implements `EventPromise` | `Remembered`, `Waiting`, `Fenced`, `Known` |
| | `AnnouncedOnce`, `AnnouncedWhenDue` | one alert per end date, only when due | `IInv` |
| `PromotionCapacityProofs` | `CapacityIsKept` | no promotion exceeds its cap | `Inv` of the module |
| | `CounterIsLedger` | the counter is the sum of the active usages | `Inv`, and that deleted promotions have none |
| | `CrossingsAreTold` | a promotion at four fifths of its cap was announced | `CounterIsLedger` |
| `CounterProofs` | `ExclusiveDrawers`, `FrozenIsLedger`, `ClosedIsBacked`, `CutIsImmutable` | custody and cuts | `Inv` of the module |
| | `CountedLeavesOnce` | a drawer gives what was counted, never more | `HandedAt`, sums over a growing set |
| | `SellersDecisionsStand` | vetoes, opt-ins and prices by hand stand | `PricingInv` |
| | `ChargesUseTodaysPrices` | a charge is at prices that the lists have | `PricingInv`, `ChargeIsListed` |
| | `FreshDraftsAreChargedAsShown` | a fresh preview is charged as shown or not at all | `PricingInv` with `FreshInv` |
| `SellingProofs` | `EndsAreMet`, `DeliveredAndThanked`, `RouteHistoryKept` | routes end with their stops, a completed stop delivered its sale, what is over stays over | `RoutesInv` |
| | `NothingIsMadeTwice`, `QuotesAreHonoured`, `SalesNeverDeadlock` | a key sells once, a quote is honoured and spent once, no circle of lock waits | `BotInv` |
| | `BotKeepsPromise` | bot sales implement `BotPromise` | `BotInv` |
| `PaperworkProofs` | `ReceiptsAreKept`, `UploadsAreAnsweredTruly`, `ReceiptsPayOnce` | files stay until due, but for uploads that end unanswered; an upload is answered with its own file, a receipt pays once | `ReceiptsInv` |
| | `ChainsStayAlive`, `WaitersAreAnswered`, `AnswersStand` | a chain has one live decision, nobody waits for a validation that is over, answers are in the row | `DecisionsInv` |
| | `OrdersAlwaysStand` | orders are confirmed as they were seen, and locked reads stay true | `ProcurementInv` |
| | `EffectsAreToldTruly` | a command takes effect once per key and is told so | `EffectInv` |
| | `OrdersKeepPromise` | procurement implements `PurchasePromise` | `ProcurementInv`, `EffectInv`, `GrantInv` |
| `SumProofs` | (lemmas) | what `SumFunctionOnSet` computes, adds and keeps | `FiniteSetTheorems`, `WFMin` |

The assumptions are the named `ASSUME`s on the constants. One theorem assumes more:
`OnlyEditsReopenDrafts` leaves out the writer `"edit"` and so tells which writer
finding 1 needs; the other one may save stale copies at will, since its save
compares the status it read with the row.

* *Sums.* `SumFunctionOnSet` is a fold over the subsets of a set, by a recursive
  function. Induction with an operator as a parameter is not to be had, so
  `SumProofs` takes, of the subsets for which a statement fails, one that is
  smallest (`Smallest`, from `WFMin` on the strict subset ordering), and takes a
  member out of it. That gives existence of the fold, the sum of none, of one
  member less and of one value changed, monotony, and equality of sums of equal
  terms; ledgers, counters and journals rest on these.
* *Sales.* The properties are not inductive: `Books` says for each stage of a
  sale what every table holds (`Untouched`, `Sold`, `Standing`, `Undone`), and
  the properties are read off it. Stale saves are part of the argument: an edit
  under way holds a copy of a draft (`EditsHoldDrafts`), and a copy that has the
  status of the row agrees with it on what was settled (`CopiesAgree`), so a save
  that takes nothing back changes nothing that was. Both are inductive together with
  `Books` until `overwritten`, which is never reset (`OnceOverwritten`). The
  refinement maps a stamp to the use of a key; a step of a
  handler that does not stamp maps to a stutter.
* *Stock.* Every operation goes through `Persist`, so that the journal adds up is
  one lemma about it; the rest says what an operation may hand to it. What is
  not there holds nothing (`NothingLeft`), or a removal would leave units that
  nobody journals; an adjuster knows the balance that goes with his version, of a
  bucket that has gone, too (`SeenStands`).
* *Refunds.* `Custody` adds what a handler and a slot hold in each of their
  states: a handler that stamps meets a slot in flight under its own token,
  under which nothing was paid. The refinement adds that receipts stay: the stamp is
  the step of the promise, and a handler that leaves its slot or is overtaken
  changes nothing that was promised.
* *Outbox.* A stale poll writes the count it remembers plus one. `Remembered`
  bounds that by the refusals of the event; `Fenced` says that a poll whose token
  a fenced row carries remembers the row as it is. `Known` says that a
  poll holds only rows that were written, so that the write of an outcome the event
  has already is a stutter of the promise.
* *Expiry.* `AnnouncedIsAlerted` ties the count of announcements to the alert
  state that is flipped in the same step. Batches play no part.
* *Capacity.* A claim raises a counter only where the row it updates leaves
  room, and a save lowers the cap only onto the live counter, so type, cap and
  the emptiness of canceled sales are inductive together. The ledger follows: a
  claim or a restoration adds to the counter what it adds to the usages, and a
  deletion takes both.
* *Cash register.* `Sourced` (a handover comes from a session that exists) keeps
  a new session from changing what a FLOAT was validated against; `CheckedAt`
  says what is still empty before a count and a verification. A step either
  leaves the set a sum is over, or changes a session whose sum nobody froze, or
  creates a handover that the rest of what was counted covers (`HandedAt`).
* *Draft pricing.* That decisions and prices by hand stand (`AsDecided`,
  `PricesStay`) follows from what the engine may grant (`Grants`, for each of its
  passes) and from what a recompute keeps of a line. That a fresh draft is charged
  as shown needs an invariant about a fixed point (`FreshInv`): the lines are
  settled, so that a reprice leaves them, and the promotions, evaluated again,
  give the draft back (`Repeats`). A recompute establishes it, since the engine
  cannot tell the cleared result from the cleared original (`Alike`); the passes
  of `CapacityExcluded` are then the same. A unit that somebody takes of an
  applied promotion changes the passes from the first one on: either it is
  excluded now, and the charge is refused, or every pass ends where it ended
  (`UnitTakenOverruns` and the lemmas about `AfterPasses`). TLC checked the
  invariant before it was proved, and refuted an earlier version of it, whose
  `fresh` did not know about tiers of the default list and promotions that were
  left out.
* *Routes.* A commit proceeds only from a snapshot that is still current, so a
  snapshot need not be remembered in the invariant: `RoutesInv` is types, drafts
  without completed stops, and the two conjuncts of `RoutesEndWithTheirStops`;
  `CompletedMeansDelivered` is inductive on top of it.
* *Bot.* `BotInv` says of each call which locks it holds at each step of its way
  (`Sane`), and whose slot or receipt is under a key (`EntryAt`). There is no circle
  of waits since in any set of calls one waits for none of the others: one that can
  sell, else one that wants a quote, else a customer, else a phone. The refinement reads
  off `BotInv` that a sale is the first under its key and that what a call is
  answered is the sale of what it asked for (`AskedOf`).
* *Receipts.* An upload on its way has no row and keeps its objects (`UploadAt`);
  the purge touches only what is due (`PurgeDue`); payments and debt add up to
  the total whatever key they came under (`PaidAt`).
* *Decisions.* What a handler read before it writes still stands (`Sees`), because
  rows are never taken back and whoever writes about a postal code holds its lock.
* *Procurement.* `Remembers` says that a version equal to the present one means
  the row that was seen; `Holds` what a command knows of the rows it locked, and
  `Apart` that no two commands hold one. `SuppliersExist` is what makes the
  removal of a supplier safe although it reads the orders without a lock: whoever
  adds a reference must hold the supplier. `EffectInv` says that a transaction has
  its key to itself and finds no receipt under it. `GrantInv` says that what a
  command was granted under its locks is true when it commits, although it was
  checked before: a row whose version stands was not written, and a supplier is as
  it was read while the lock is held. So the commit is the step of the promise on
  the rows of that moment.

Only model-checked: the liveness properties (`NoStrandedKey`, `DueIsPurged`,
`EveryEventSettles`, `DueIsAlerted`), which are beyond this prover, as is
`ENABLED`. Every other property of a passing run is stated by a theorem. The runs
that are violated check statements of the documentation that the code does not
keep, and are not to be proved.

## 6. What is abstracted

* Amounts: one unit costs one cent; lines, prices, taxes and promotions of a sale
  are its quantity. Prices, taxes apart, are in `DraftPricing`, lots in `Stock`.
* Tenants: every query is scoped to one, and a model is about one.
* Permissions: an actor of a model has them; that he is the owner, the recipient
  or somebody else than the cashier is modelled where the code compares it.
* Payloads of events, wording, folios beyond their number, pagination, time
  stamps beyond the order of two.
* Lock waits: a transaction that waits is one that has not begun.
* Cash register: the channels other than CASH, the log of commands (a replay is
  answered from it), the deactivation of members, the editing of registers.
* Draft pricing: the evaluation for the bot, days of the week, brands and
  categories (a promotion names the wares it is for, with the specificity of the
  target), the list of what a seller could still opt into, titles and the kind of
  a reward.
* Routes: the order of the stops, drivers, notes and the optimizer.
* Stock: one product; sales that were charged before the journal existed; the
  versions are modelled by what they reveal.
* Human decisions: authorization, the version a review form shows
  (`expectedVersion`), the snapshot of the product, polls and lists, and the row
  that notifies reviewers (a fenced lane of the outbox).
* Receipts: checks of bytes and fields, the mismatch report, the reading of files.
* Procurement: authority, notes, locations and totals; all facts of a product are
  whether it fits the unit of the line; the products are locked and read in the
  step that writes, since nothing is waited for after them; the refusal by the
  foreign key (P2003), which `ReadsHold` shows cannot happen.

## 7. Not modelled

* *Quotations, time off*: single rows under handlers that save what they read.
  Nothing is read again before the save, so every race of two saves loses the
  first; findings 2 and 4 show this pattern for the two aggregates where it matters
  most, and section 4 says what it does here.
* *Authentication*: the challenge of a login (reserve, deliver, resend, verify
  under the row of the user) and its rate buckets.
* *Catalog editorial*: largely the validation of documents of fixed shapes; its
  writers serialise on the row of the product.
* *Public catalog, analytics, lists and searches*: queries without state.
* *Shipping, files, mail, PDF, Inngest*: calls to other services, modelled where a
  component here depends on the answer (quotes in `BotSales`, objects in
  `Receipts`, deliveries in `Outbox`).
* *Administration, settings, customers, staff files, prices and images of
  products*: records that are edited one at a time.
* *Tenants*: the scoping of every query is taken as given.

The repository is wide: of some 145,000 lines, DTOs, modules, mappers, validators,
seeds, reports, generated tables and queries are the larger part, and a definition
that stood for them would say nothing that could be wrong. `map` names the code
that decides what happens to shared state.
