# Verification of the marketplace's order fulfilment

TLA+ models of the marketplace: the transactions that sell and restock products, the payments that
settle an order, the jobs that get it fulfilled by its vendors, the services around them, the browser
that asks for all this, and the migrations and scripts that keep its database. TLC checks the models on
small instances; TLAPS proves, for every size, the safety of the core and of the services (section 5).

Run `tlc -config MCCheckout.cfg MCCheckout.tla` (and so on for the other `.cfg` files, section 3; the
configurations named after a property belong to the module that the table there names) and
`tlapm CheckoutProofs.tla` (and so on for the eight modules whose name ends in `Proofs`; `ServicesProofs`
takes about a quarter of an hour).

Paths below are relative to `src/apps/backend/src`, or to `src/apps/frontend` where they begin with
`app/`, `lib/`, `context/` or `components/`.

## 1. The system

A NestJS service over one PostgreSQL database (TypeORM, READ COMMITTED) and Redis (BullMQ queues, one
per vendor), and a Next.js frontend that calls it over HTTP. Requests are concurrent: each runs on a
pooled connection, several server processes may run at once, and so may the workers, the reconciliation
job, the migration runners and scripts started by hand. In the browser callbacks run one at a time, but
answers arrive in any order.

| Component | State | Operations | Interacts with | What is hard |
|---|---|---|---|---|
| **Orders** `orders/` | `orders`, `order_line_items` | checkout, transitionOrder, cancelOrder | stock, payments, fulfilment | one transaction over many rows; idempotent repetition; cancel against everything else |
| **Inventory** `inventory/` | `products.stock_count` | adjustStock, restoreStock | orders, catalog, audit | absolute values written from reads |
| **Razorpay initiation** `payments/razorpay-initiation.service.ts` | order, pending payment | initiate | stock, promotions, provider | provider called inside the transaction; reuse of an attempt; promotions read twice |
| **Razorpay verification, webhook** `payments/` | payment and order status | verify, handle | provider, orders | late, repeated, reordered events; lock order |
| **Payments** `payments/payments.service.ts` | `payment_authorizations` | authorize, capture, refund | checkout, cancel | a row with several writers |
| **Fulfilment service** `fulfillment/fulfillment.service.ts` | `vendor_sync_jobs`, line items, order status | createSyncJob, processSyncJob, reconcile, manualResolve, checkOrderFulfillment | queue, vendor, orders | no transaction and no lock anywhere |
| **Queues, workers** `fulfillment/vendor-*` | BullMQ jobs, maps of queues and workers | add, process, retry, restart | fulfilment | redelivery after stalls; workers lost with the process |
| **Staff** `admin/` | jobs, line items, users | retryDeadLetterJob, linkUser, unlinkUser; dashboards | fulfilment, vendors | resets rows that are in use, of cancelled orders too |
| **Catalog** `catalog/` | products, categories, reviews | updateProduct, seedCatalog, query | inventory, product list | the same row as the stock; pages of a list in motion |
| **Promotions, pricing, snapshots** `vendor/`, `payments/snapshot/` | promotions, snapshots | create, approve, price, freeze | checkout | rounding; read more than once |
| **Allocation** `payments/allocation/` | allocations | compute, persist | payments | rounding, clamps, idempotent insertion |
| **Transfers, payout accounts** `transfers/`, `vendor/payment-accounts/` | instructions, accounts | create; link, activate, suspend, unlink | allocation | a row saved from an old reading |
| **Vendor applications** `vendor/` | applications, vendors, users | submit, review | auth, admin | decided twice; vendor found or created by name |
| **Addresses** `customer/` | addresses | create, update, delete | - | one default, two statements |
| **Audit** `common/audit/` | `audit_logs` | log | every service | written outside the transaction it tells of |
| **HTTP interface** controllers, `common/guards` | - | every route, its guard and DTOs | frontend | hand-written types on both sides; tokens that trail the account |
| **Authentication** `auth/` | users, refresh tokens, links that reset a password | register, googleSignIn, login, refresh, logout, changePassword, requestReset, resetPassword | applications, staff, mail | a whole user saved from an old reading; a token exchanged in three statements without a transaction |
| **Browser session, cart, payment** `lib/auth-context.tsx`, `context/`, `components/storefront/` | tokens, lists per account, one payment | restore, login, logout, add, pay | API, provider | answers that overtake one another |
| **Product page to payment** `components/storefront/`, `context/CartStore.ts`, `CheckoutForm.tsx` | a line of the cart, the attempt of the buyer | show, add, change, place the order, reuse, verify | catalog, initiation | a price copied when it was shown, charged when it is another |
| **Pages** `app/` | rows shown | load, filter, act, poll | API | stale answers; statuses; when to stop asking |
| **Migrations** `database/migrations/` | schema, history | up | entities | order by timestamp; crashes; overlapping runs |
| **Scripts, configuration** `database/*.ts`, `catalog/update-product-vendor-ids.ts`, `app.module.ts` | the whole database | seed, assign, load test; which database | everything | statements without a transaction; settings read differently |
| vendor portal, payout views, email, health, checkout reconciliation | | | | queries, single-row updates, input/output, code without callers: section 7 |

What makes it correct, component by component:

- *Orders and inventory*: units are neither created nor lost, never sold twice, given back once
  unless the item was taken up again; a repeated request makes no second order; every request ends; the audit entries explain the stock.
- *Payments*: stock is reserved once for a cart; the record of a payment follows the provider's; money
  and stock go back once; two settlements that race agree.
- *Fulfilment*: a vendor is asked only for paid orders, once per item unless a failure explains another;
  an item is recorded as confirmed only if a vendor or an admin confirmed it; an order is fulfilled when,
  and only when, all its items are; a final order stays final; failed work is retried; queued work has a
  worker.
- *Catalog*: an edit overwrites nothing it did not edit; seeding twice changes nothing; pages of a list
  are the list.
- *Promotions, allocation, transfers*: the amount charged is the amount recorded and shared out; each
  allocation, snapshot and transfer is inserted once; payouts go to accounts staff approved.
- *Applications, addresses*: decisions are final; one pending application, one default address.
- *Authentication*: an account has the role it was given last; a link resets a password once, and works if
  it was said to be on its way; a login has one refresh token.
- *From page to payment*: what is charged is what the button said; what is emptied was bought; the cart
  holds what was asked for, within the stock that was shown.
- *Browser*: the identity on the screen is that of the tokens; lists stay with their owner; a page shows
  the answer to its question, and in the end the truth; what a screen offers is served and understood.
- *Database*: upgrades arrive at one schema, the one the entities name; scripts tell the truth about what
  they did, and open the database that is served.

`PROJECT.json` lists under "hazards" the places where these can go wrong, at their line, with the
properties that watch them.

## 2. The modules

| Module | Lines of the program | What it is |
|---|---|---|
| `StoreData` | entities and DTOs | rows and pure functions over them; no variables |
| `Store` | `OrdersService`, `InventoryService` | **abstract specification**: place, cancel, adjust and move on happen at once |
| `Checkout` | `orders.service.ts` 44-585, `razorpay-initiation.service.ts`, `inventory.service.ts` 116-250 | the transactions with their locks, step by step; implements `Store` |
| `CatalogEdit` | `catalog.service.ts` 120-172 | `updateProduct` composed with `Checkout` |
| `Fulfillment` | `fulfillment.service.ts`, queues, `admin.service.ts` 458-482, `orders.service.ts` 485-585 | one order's jobs, workers and staff, a statement per step |
| `PaymentLifecycle` | `payment-authorization.entity.ts` 10-16 and its writers | **abstract specification** of the payment row |
| `Payments` | verification, webhook, refund, cancellation, transition; what `fulfillment.service.ts` and `admin.service.ts` 458-482 write of line items | everybody who writes one order's payment, status and line items; implements `PaymentLifecycle` |
| `InsertOnce` | `allocation.service.ts`, `durable-allocation.service.ts`, `transfer-*`, the snapshot service | one row under a unique key |
| `Money` | the arithmetic of prices, discounts and allocations | pure operators in integer cents |
| `Promotions` | `vendor-promotions`, `admin-promotion`, both price calculations, the snapshot | promotions edited while two checkouts price with them |
| `Membership` | `vendor-application.service.ts`, `admin.service.ts` linkUser, unlinkUser | how an account becomes a vendor's |
| `Credentials` | `auth.service.ts` 54-70 and 231-396, `email.service.ts` | an account, its password and role, and the links that reset it |
| `RefreshTokens` | `auth.service.ts` 72-203 | the tokens that keep a session alive |
| `Addresses`, `Payouts`, `Queues`, `Seeding` | `customer-address`, `vendor-payment-accounts`, `vendor-queue` and `vendor-worker-registry`, `seedCatalog` | one service each |
| `AuditTrail` | `audit.service.ts` and the stock transactions that call it | entries written on a connection of their own |
| `Storefront` | `auth-context.tsx`, `CartStore.ts`, `use-wishlist.ts`, `useRazorpayCheckout.ts`, `CheckoutForm.tsx` | session, lists and payment in the browser |
| `ShopWindow` | `CartStore.ts` 83-127, `ProductCard.tsx`, `QuickViewModal.tsx`, `CartDrawer.tsx`, `CheckoutForm.tsx`, the pages with products, `catalog.service.ts` 195-234 and 831-886, `razorpay-initiation.service.ts` 97-375 | one product from the page that shows it to the amount charged |
| `Pages` | 31 pages and panels of `app/` and `components/` | how each orders its loads and actions |
| `Listing` | `catalog.service.ts` 240-362, `products/page.tsx`, `Pagination.tsx` | a catalog browsed while it is edited |
| `Tracking` | `use-order-polling.ts`, `status-tokens.ts`, `query-client.ts`, `orders/[id]/page.tsx` | the page on which a buyer watches an order |
| `Bodies`, `Routes` | DTOs and controllers | every route: verb, path, guard, body, answer |
| `Client` | `lib/api.ts`, `lib/types.ts` and the pages that call them | every request of the browser and what it reads of the answer |
| `Contract` | `auth/`, `lib/rbac.ts`, `lib/auth-context.tsx` | the two against each other, while account and tokens change |
| `MigrationList` | the 36 migrations | what each needs, makes and refuses |
| `Migrations` | `production-migration-runner.ts`, `migration-runner.ts`, `registry.ts` | runs that crash, overlap and are of older releases |
| `Entities` | the entities of `app.module.ts` | what they read and write, against the schema |
| `Scripts` | `seed.ts`, `update-product-vendor-ids.ts`, `load-test.ts` | scripts next to each other and to the shop |
| `Startup` | `app.module.ts` 53-148, the data sources of scripts and runners | which database each opens |
| `CheckoutProofs`, `FulfillmentProofs`, `PaymentsProofs` | | TLAPS proofs about the core |
| `MembershipProofs`, `AddressesProofs`, `StorefrontProofs`, `PagesProofs` | | TLAPS proofs about one service each |
| `ServicesProofs` | | TLAPS proofs about the other services, and about `MCServices` as a whole |
| `MCCheckout`, `MCFulfillment`, `MCPayments`, `MCCatalogEdit` | | instances for TLC |
| `MCServices` | | the services of one kind each, side by side |
| `MCLive` | | the systems with liveness properties, side by side |

`MCServices` and `MCLive` hold several specifications that share no rows: a behaviour is one of a single
service, chosen at the start, so that their states add up instead of multiplying. Each module is complete
in itself, with its own `Spec`.

### Checkout

State: `stock` and `orders` are the committed database; `pc`, `req`, `held`, `want`, `next`, `view` say
where each session's transaction stands, the request it serves, which product rows it holds and which it
still needs, and the stock it read with each lock. `supply` and `reserved` are history variables.

A transaction's writes appear at COMMIT, so `PlaceOrder` and `CommitCancel` do all writes of a
transaction at once, **computing them from `view`**, the values read earlier, as the code does. If a lock
were missing, the stale value would be written. Waiting is explicit: `LockRow` is enabled only when the
row is free, the advisory lock is taken in `PassSerialize` and held until the end.

| Code | Model |
|---|---|
| `checkout`: `pg_advisory_xact_lock`, lookup by buyer and key (171-198) | `PassSerialize`, `AnswerFromEarlier` |
| `checkout`: mock authorization (199-214) | `Authorize`; a decline is `Abort` |
| `checkout`: `sort()` and `FOR UPDATE` (216-229) | `NextRows`, `LockRow` |
| `checkout`: stock check, decrement, inserts, capture (231-402) | `Enough`, `RejectShort`, `PlaceOrder` |
| `initiate`: advisory lock, pending attempt, the same locks | the same actions with kind "initiate" |
| `cancelOrder` (525-585) with `restoreStock` per item and `refund` | `LockOrder`, `LockRow`, `CommitCancel` |
| `adjustStock` (116-203) | `AdjustStock` |
| verify/webhook, worker, `checkOrderFulfillment` | `SettlePayment`, `MoveItem`, `FulfilOrder` (environment) |

Abstractions. Everything that throws inside a transaction (unknown or inactive product, total mismatch,
declined payment, failed provider call, crash) is `Abort`: the database rolls it back, whatever the
reason. Collisions of the advisory lock's hash would only make more sessions wait. The partial unique
index on buyer and key, a second guard, is not modelled, so `OneOrderPerKey` rests on the advisory lock
alone. The `findOne` of `cancelOrder` (`orders.service.ts` 529-533) asks for a lock with the line items
joined, which PostgreSQL refuses on the nullable side of an outer join; all three models of it
(`Checkout.LockOrder`, `Fulfillment.CancelOrder`, `Payments.CancelLocksOrder`) take it by its intent: the
order and its items are locked. A line item's status "confirmed" stands for every status that cancelling
does not restock. The environment actions honour their guard when they write; workers do not always, and
what their stale writes do is the business of `Fulfillment`.

### Fulfillment

One order, because orders share none of the rows. `FulfillmentService` opens no transaction, so **every
query and every update is a step**; between two of them any other handler may run. `pc[p]` is the
statement handler `p` runs next and `loc[p]` what it has read, stale or not. `job` is the table of sync
jobs, `ticket[j]` the BullMQ delivery of job `j` (waiting, with a worker, done, failed, with its throws
and stalls). History: `sent` (how often a vendor accepted an item), `cleared` (the order needed no payment
or was paid), `resolved` (what an admin confirmed), `shipped` (an admin set fulfilled by hand).

| Code (`fulfillment.service.ts` unless said) | Model |
|---|---|
| `assertPaymentCapturedOrLegacy` (35-48) | `PaymentOk` in `CreateSyncJob`, `ReadPayment` |
| `createSyncJob` (49-78) and the enqueue of its controller | `CreateSyncJob`, `InsertJob`, `Enqueue` |
| `processSyncJob` (80-168) | `Deliver`, `ReadPayment`, `MarkJob`, `MarkItem`, `VendorAccepts`/`VendorRejects`, `CompleteJob`, `ConfirmItem` |
| `checkOrderFulfillment` (314-351) | `CheckItems`, `ReadOrder`, `WriteOrder` |
| `handleSyncFailure` (170-216) | `FailJob`, `DeadItem` |
| `reconcile` (218-262) | `ReadStaleJob`, `QueryVendor`, `ReconcileJob`, `ReconcileItem`, `AmbiguousJob`, `AmbiguousItem`, `RequeueJob` |
| `manualResolve` (264-312) | `ReadLineItem`, `ResolveItem`, `ResolveJob`, then `CheckItems` |
| `admin.service.ts` `retryDeadLetterJob` | `RetryDeadLetterJob`, `ResetJob`, `ResetItem` |
| `orders.service.ts` `transitionOrder` | `TransitionOrder`, `WriteOrder` |
| `orders.service.ts` `cancelOrder` (one transaction) | `CancelOrder` |
| an exception; a crash; a delivery lock that is not renewed | `StatementFails`, `Crash`, `LoseLock` |

A vendor's timeout and its rejection are the same to the handler (`VendorRejects`). `reconcile` may be
called with `olderThanMinutes = 0`, so age does not protect a live worker's job. The webhook part of
`SettlePayment` follows the code's intention; `Payments` has what it does in each deployment.

### CatalogEdit

`updateProduct` has three steps here: the read, the comparison `save()` makes with the row as it is by
then, and the UPDATE of every column that differs. It composes with all of `Checkout`'s actions.

### Payments

One Razorpay order: `pay` and `order` are the two rows, `items` the status of its line items ("open" for
pending and syncing, the two that a cancellation gives back), `jobs` which of them have a sync job and an
answer of their vendor, `events` the webhook's table of events. Each session serves one request; `pc[s]`
says which rows it has locked. A transaction's writes appear when it commits; fulfilment and staff write
statement by statement. `charged` and `declined` are the provider's truth. `past[i]` is what befell item
`i` since its stock last went back: that it did, that it was made open again ("revived"), that its order
was opened again ("reopened"); `twice` holds the items whose stock went back again without both.

| Code | Model |
|---|---|
| `verify`: read, ask the provider, lock payment and order, settle (`razorpay-verification.service.ts`) | `Read`, `Ask`, `LockPayment`, `VerifyCommits` |
| `handle`: event row, payment, order, capture or failure (`razorpay-webhook.controller.ts`) | `Insert`, `LockPayment`, `DeliverFails`, `DeliverCommits` |
| `refund` (`payments.service.ts`) | `Read`, `Refund` |
| `cancelOrder` with its refund | `CancelLocksOrder`, `CancelReads`, `CancelCommits` |
| `transitionOrder` | `Read`, `Check`, `Write` |
| `createSyncJob`, `processSyncJob`, `handleSyncFailure` (`fulfillment.service.ts` 49-216) | `CreateSyncJob`, `Read`, `Mark`, `Report`, `GiveUp` |
| `checkOrderFulfillment` (314-351) | `Look`, `Decide`, `Write` |
| `manualResolve`, `reconcile`; `retryDeadLetterJob` (`admin.service.ts` 458-482) | `Report`; `ReconcileItem`; `RetryDeadLetterJob` |

The rows of the jobs are left out here, so a job may be delivered, reset or reconciled at any time; that
allows more than `Fulfillment` does, which has the rows.

What the code does depends on the deployment, and `Deployments` leaves it open: whether the driver returns
decimals as numbers (pg returns strings, so that the webhook's comparison at 75 never matches), whether the
provider's event ids parse as uuids (if not, the update at 89 fails and rolls everything back), and whether
`NODE_ENV` is production (where `cancelOrder` and `refund` throw unless the payment is refunded already).

### The services (`MCServices`)

| Module | State | Actions and what they stand for |
|---|---|---|
| `InsertOnce` | the row under a key; each call's candidate and place | look up, insert, read again after a unique violation (in the transaction PostgreSQL has aborted), answer; for both allocations, the transfer instruction and the snapshot, which differ in what they compare |
| `Promotions` (with `Money`) | promotions; per checkout its quote, line and allocation | create, edit, remove, decide; `Price`, then `PlacePlain` or `PlaceRazorpay`, then `Allocate`. Rounding in floating point is every outcome there may be at an exact half |
| `Membership` | users, applications, vendors | submit, review under the application's lock, link and unlink with a check before and under the lock |
| `Credentials` | the user's row, the links and their mails; each request's copy | register, sign in with Google, change the password (read, compare, update every column that differs), store a link, mail it, clean up, reset in a transaction; staff set the role in between |
| `RefreshTokens` | tokens; the one each request exchanges | log in, find, rotate, issue; logout, revocation of all, expiry, purge; a request may die at each statement |
| `Addresses` | the rows of a user | find, look for the label, unset the defaults, save, each a statement; save writes the columns that differ from the row of that moment |
| `Queues` | queues and workers of the process, jobs of Redis | enqueue in two steps, start, finish, configure, restart |
| `Payouts` | the account row, what staff activated | link, activate and suspend (read, look up, update or insert), unlink, check and instruct |
| `Seeding` | categories, vendors and products | look up, insert, count, next to another seeder and to staff |
| `Listing` | products, URL, answer | the five statements of a query; filters and pages; edits and deletions in between |
| `AuditTrail` | stock, entries, transactions, connections | lock, write, tell, commit or roll back; a PATCH that tells nothing |
| `Storefront` | tokens, user, pending calls, cart and wishlist with what is saved of them, one payment | a step from one `await` to the next: restores (numbered), logins and logouts (not), list writes, the modal of the provider |
| `ShopWindow` | product, page, line of the cart, payment, attempt | open a page, pick a quantity, add from card, preview, product page or wishlist; change or remove the line; place the order; answer with the old attempt or price a new one (the answer may be lost); verify, give up, cancel; stock and price change at any time |
| `Pages` | question, loads and actions in flight, what is shown | a page is how it orders answers: drops stale ones or not, aborts, polls, patches, opens a dialog |
| `Migrations` | history, schema, runners, offending rows | up to a release, check, apply, refuse, collide, crash, verify; rows appear and are repaired |
| `Contract` | account, token, refresh token, user of the screen | login, restore, expiry, logout; approval, link and unlink; whatever a screen offers is asked |
| `Scripts` | the tables, three scripts, what the shop does | a statement per step; an interrupt at any of them |
| `Startup` | settings in process and files, the database served | set, clear, start |

`Routes`, `Bodies` and `Client` are data read off the source: a route is verb, path with kinds of segments,
guard, checked body and the fields of its answer; an offer is a page, a call, its path and body and the
fields the declared type requires. `MigrationList` is data likewise, and `Entities` lists what each entity
reads, inserts and labels.

`Tracking` is checked in `MCLive`. Its query is one of TanStack Query: idle, paused, asked, answered or
delayed, with retries; around it are the tab, the network, the token and the order, which workers, staff
and a cancellation move.


## 3. What TLC checks

| Run | Instance | States | Properties |
|---|---|---|---|
| `MCCheckout.cfg` | 2 products, 2 sessions, 2 orders, 1 buyer, carts (1,0) and (1,1), stock 1 and 2 | 403,522 | `TypeOK`, `StockConserved`, `NothingSoldTwice`, `OneOrderPerKey`, `OneLiveAttemptPerBuyer`, `BuyersNeverDeadlock`, `RefinesStore` |
| `MCPayments.cfg` | 2 sessions, 2 payments, 1 line item, three deployments | 7,221,405 | `CapturedWasCharged`, `ConfirmedWasPaid`, `RestocksExplained`, `CancelledKeepsOnlyByEvent`, `RefundSurvivesRedelivery`, `ImplementsLifecycle` |
| `MCFulfillment.cfg` | 2 items, 2 jobs, 2 handlers, rejections; either create, reconcile, resolve, retry and cancel, or one fault, two attempts, create, reconcile, transition and cancel | 7,497,879 | `OnlyPaidSent`, `ConfirmedIsEarned`, `FulfilledIsEarned`, `DuplicatesExplained` |
| `MCServices.cfg` | eighteen services, most with two requests at a time | 6,076,274 | `OneAnswer`, `AmountsAddUp`, `AccountsSound`, `DecisionIsFinal`, `OneDefaultUnlessRaced`, `JobsHaveWorkers`, `SessionsSound`, `ListsKept`, `OneOutcome`, `PaidWhereApproved`, `SeededOnce`, `ScreenAnswers`, `SchemaSettles`, `OffersServed`, `BrowsingIsComplete`, `TrailExplainsStock`, `ReportsAreTrue`, `StartsAgree` |
| `MCLive.cfg` | one cart with both products, stock 1 and 1; 1 payment, two deployments; 2 items, 3 jobs, 2 workers, vendors accept; one order page; fair | 143,224 | `RequestsEnd`, `SettlementsEnd`, `OrderFulfilled`, `ScreenCatchesUp` |
| `MCTerminal.cfg`, `MCSentTwice.cfg`, `MCRetry.cfg` (module `Fulfillment`), `MCCredentials.cfg` (`Credentials`), `MCCatalogEdit.cfg`, `MCPromotions.cfg` (`Promotions`), `MCEntities.cfg` (`Entities`) | see section 6 | | `TerminalStays`, `NotSentTwice`, `FailedJobRetried`, `ResetOnce`, `StockSurvivesEdits`, `OnlyApprovedApplied`, `EntitiesFit`: violated |

**Why the bounds are enough.** Two sessions and two rows are what a lost update, a double insert and a
deadlock take; a cart with both products and one with the first alone make every overlap; a stock of one
unit makes the second sale fail; two orders let a repetition and a cancellation meet a sale. What larger
instances could add (more sessions in a cycle, more rows) the proofs cover. One buyer is enough because
buyers share no advisory lock and the product rows do not know them. Two payments are one that is declined
and one that is charged, or two that are. One line item is enough for `RestocksExplained`, which speaks of
each alone; of the eight deployments three are run, those where every webhook works to its end, where every
webhook fails, and production, where none settles, and the proof covers all. `MCLive` takes `Payments`
without line items, whose writers hold no lock that a settlement waits for. In `Fulfillment` two handlers at a time are two workers, or a
worker and any member of staff; two items are what it takes for "the last one" to be contested, two jobs
let an item have two. `MaxAttempts` is 2 where the retry matters and 1 elsewhere, in place of 5; the
variable `faulty` of `MCFulfillment` chooses between the two sets of operations. Three or
more handlers at once, and two faults, were not explored.

**Bounds, by name.**
- *Core.* `MaxStock` (what an adjustment books in; 0 in `MCLive`), `IdsLeft` (an operation that inserts a
  row begins only while ids are left), `MaxAttempts`, `QueueAttempts`, `MaxStalls`, `MaxFaults`, and `Staff`
  (`FaultyStaff` where there are faults), which selects the operations that take place.
- *Services.* `MaxPromos = 2` (an older and a newer promotion), percentages of 33.33 and 50 on a price of
  7 (a fraction and an exact half), three policies (12.5 %, everything and a fee, a fixed amount and a fee);
  two users, applications, vendors and names; one password and one link, because what matters is whose and how
  often, and three refresh tokens, for a login and two exchanges; `MaxConcurrency = 2` where the code allows 10, and `Requested`
  below, within and above it; `MaxRestores = 2`, `MaxStock = 1` for lists; `MaxSeeds = 2`, `MaxCopies = 2`;
  `MaxLoads = 4` (a stale one, the newest and those of two actions); `Releases = {25, 36}`, two prefixes of
  the registry that a database may have been migrated with (the backups beside the registry are of the
  former), and two `Kinds` of offending rows; `MaxEdits = 1` next to three products and pages of
  `PageSize = 2`, and next to one change of discount in `ShopWindow`, where a price of 7 and discounts of none,
  33.33 and 50 % give three amounts, one of them an exact half, and `MaxUnits = 2` lets quantities differ;
  `MaxChanges = 2` requests under `PoolSize = 3`; `MaxScripts = 3` out of four, `MaxShop = 1`;
  `MaxSettings = 3` changes. All four scripts at once were checked without an error, too (26 million states).
- *Order page.* `MaxRetries = 1` in place of 5, `MaxMoves = 2` changes of the order, `MaxLosses = 2` lost
  requests or reloads. Hiding, losing the network and expiry are not bounded.

Symmetry is used in safety runs only.

**Deadlock** of the model is checked for `Checkout` and `Payments`. Elsewhere an order that is done, or a
bound, may leave nothing to do, so those runs do not check it.

**Fairness.**
- `Checkout`: a session whose lock is free again and again gets it (strong fairness of `LockingStep`):
  PostgreSQL queues lock requests in order. A step that waits for nothing is taken (weak fairness of
  `FreeStep`). The deadlock detector ends a transaction of a cycle (weak fairness of `BreakDeadlock`).
  Nothing makes a client send a request. `RequestsEnd` depends on the detector: cancellations lock rows
  in join order.
- `Payments`: the same, with `WaitsForLock` and `WaitsForNoLock`. Nothing makes the provider charge or
  deliver. `SettlementsEnd` depends on the detector, too: a cancellation locks order and payment in the
  opposite order of a settlement.
- `Fulfillment`: a handler's next statement runs (weak fairness of `Step`); a waiting delivery is taken
  (strong fairness of `Deliver`, because workers are busy in between): `getOrCreateVendorQueue` creates a
  worker before the queue's first job. Staff, the provider and the vendor's choice are not fair.
- `Tracking`: timers fire and requests that are not lost are answered (weak fairness of `PageStep`). What
  the user, the network, the session and the order do is not fair; `ScreenCatchesUp` supposes that the page
  stays in front of a buyer who stays online and signed in.

Every property of a run that passes has a mutant in `PROJECT.json`: a plausible bug in one mapped
definition that TLC must report as a violation of the property. The operators marked `Fault` are those bugs.

## 4. The properties

*Purchases.*
- `StockConserved`: shelf plus reserved equals what was put on sale. Violated by any lost update. It rests
  on `ViewsCurrent`, that what a transaction read under a lock is still so, which is proved.
- `NothingSoldTwice`: units promised to live orders and on the shelf never exceed the supply.
- `OneOrderPerKey`, `OneLiveAttemptPerBuyer`: repetitions, however concurrent, make no second order.
- `BuyersNeverDeadlock`: no cycle of waiting purchases; advisory and row locks together.
- `RefinesStore`: every behaviour of the transactions is one of `Store`: an order takes all its stock or
  nothing, a cancellation gives back exactly what is still reserved, no final order is cancelled.
- `RequestsEnd`: nobody waits for ever.

*Payments.*
- `CapturedWasCharged`, `ConfirmedWasPaid`: what is recorded as paid was paid at the provider, although
  staff and requests act on payments read earlier.
- `RestocksExplained`: the stock of an item goes back again only if, since the last time, a worker
  (`fulfillment.service.ts` 102) or a retry (`admin.service.ts` 469) made the item pending or syncing *and* a
  stale write (`orders.service.ts` 518, `fulfillment.service.ts` 339) opened the cancelled order again.
  Cancellations alone, however often they are repeated and whom they race, give it back once, and the stock
  of an item without a job is not lost when its order is cancelled.
- `CancelledKeepsOnlyByEvent`, `RefundSurvivesRedelivery`: only a *new* event of the provider can leave a
  cancelled order paid or overwrite a refund; a repeated one never does.
- `ImplementsLifecycle`: two settlements agree; a capture is not downgraded; a recorded payment is not
  replaced.
- `SettlementsEnd`: none waits for ever.

*Fulfilment.*
- `OnlyPaidSent`: no vendor is asked for an order that was never paid.
- `ConfirmedIsEarned`, `FulfilledIsEarned`: a confirmed item, a completed job, a fulfilled order stand for
  acceptances by the vendors or acts of an admin, however stale the handler that wrote them.
- `DuplicatesExplained`: an item is sent at most once per job, plus once per fault.
- `OrderFulfilled`: queued items and accepting vendors lead to a fulfilled order, although no worker knows
  that it is the last.
- `JobsHaveWorkers`: jobs in a queue have a worker, unless a restart took it; concurrency keeps its bound.

*Money and rows.*
- `OneAnswer`: callers that race for a key, and retries long after, are told what is stored.
- `AmountsAddUp`: the plain checkout applies what was approved, records what it charged and splits exactly
  what the buyer did not pay; prices and commissions are off by at most half a cent; the vendor is never
  owed more than the line nor charged for selling. (The platform's part may be negative when a fee exceeds
  what is left: `allocation-engine.service.ts` 115.) The provider asks for what the button of the form said,
  unless price or promotion changed since the product was shown or the attempt was made, give or take half a
  cent of rounding; a cart that is emptied after a payment is the one that was paid, unless it was touched
  meanwhile elsewhere; it holds what the buyer asked for, and no more than the stock that was shown.
- `AccountsSound`: a user has one pending application, however submissions race. An account has the role
  that staff set last: saving a password brings back another only if the role was set while it was being
  saved. A link reported as delivered can be used, was, or is too old. (That it is used once is not so:
  section 6.)
- `DecisionIsFinal`: reviews and links that race; what was decided stays.
- `OneDefaultUnlessRaced`, `PaidWhereApproved`, `SeededOnce`: each excuses overlaps that the code does not
  exclude, and says which.
- `TrailExplainsStock`: the entries of committed requests form a chain from the initial stock to the present
  one, although each is written on another connection than the change it tells of.

*Browser.*
- `SessionsSound`: the user on the screen is that of the stored tokens, unless a login or logout ended while
  a restore waited. In the server a login has one good refresh token, however often it is exchanged, unless
  two refreshes held the same one.
- `ListsKept`, `OneOutcome`: lists stay with their owner, and a payment ends in one way.
- `ScreenAnswers`: a page that drops stale answers shows the answer to its question with all that it
  reported done; others do while nothing overlaps.
- `BrowsingIsComplete`: the pages of a list nobody edits are the list; pills and totals are those of the
  lists they lead to.
- `OffersServed`: with a token that is up to date, a request is served and understood if and only if it is
  not one of the misfits that `Contract` names.
- `ScreenCatchesUp`: a page that is watched comes to show the order as it is and stays so.

*Database.*
- `SchemaSettles`: a run fails only for rows to be repaired or another run in its way, and every path of
  upgrades ends at one schema.
- `ReportsAreTrue`, `StartsAgree`: what the scripts say at the end is so, and which database they say it of.

## 5. What is proved

`CheckoutProofs` holds, for every number of sessions, products, orders, buyers and keys:

| Theorem | Statement |
|---|---|
| `Invariance` | `Spec => []IInv` |
| `TypeCorrect`, `StockIsConserved`, `ViewsStayCurrent`, `CheckoutIdempotent`, `AttemptReused`, `PurchasesNeverDeadlock` | `Spec => []P` for `TypeOK`, `StockConserved`, `ViewsCurrent`, `OneOrderPerKey`, `OneLiveAttemptPerBuyer`, `BuyersNeverDeadlock` |
| `NothingIsSoldTwice` | `Spec => []NothingSoldTwice`: what live orders were promised and what is on the shelf never exceed the supply |
| `StockStaysNatural` | no stock is ever negative |
| `Implementation` | `Spec => RefinesStore` |

*Assumptions.* The named ASSUMEs of `StoreData` and `Checkout`: product ids are ordered and every
non-empty set of them has a least one (there are finitely many), carts and initial stock are natural
numbers, the two "none" values are not keys or products.

*Argument.* None of the properties is inductive by itself. `StockConserved` needs that the value a
transaction writes is derived from the current one, which is `ViewsCurrent`, which needs `RowsExclusive`:
a row that is held is written by its holder alone. `OneOrderPerKey` and `OneLiveAttemptPerBuyer` need
`StillFirst`: whoever passed the question "was there an earlier order?" would still get the same answer,
which holds because of `AdvisoryExclusive`, for whoever could change it holds or needs the same advisory
lock. `BuyersNeverDeadlock` needs `BuyerLocks`: a purchase asks for a row above all those it holds, so the
session whose wanted row is greatest waits for nobody who waits. The refinement needs `CancelLocks`: the
rows a cancellation holds are those of the items still to restock, and its order stays live under the
order's lock. `IInv` is the conjunction; the proof has one lemma per action group and one
step per conjunct an action can disturb. TLC checked `IInv` on the instance of `MCCheckout` before it was
proved.

`NothingSoldTwice` speaks of a sum over all orders, and the theorems about such sums take an operator as a
parameter, which is beyond the installed provers. The promised units are therefore a set, of pairs of an order and a number (`PromisedUnits`), and the
sum is its cardinality: an order placed adds as many pairs as its cart has units, a cancellation takes those
away, and the library's theorems on finite sets do the counting. Invariant is `PromisesReserved`: the
promised units are among the reserved ones, of which `StockConserved` knows the rest. They may be fewer: an
order cancelled after a vendor accepted an item is promised nothing, and the item stays reserved.

`FulfillmentProofs` holds for every number of line items, jobs and handlers, every subset of staff's
operations and every bound on attempts, stalls and faults:

| Theorem | Statement |
|---|---|
| `FulfillmentInvariance` | `Spec => []IInv` |
| `FulfillmentTypes`, `NothingUnpaidIsSent`, `ConfirmationsAreEarned`, `FulfilmentIsEarned` | `Spec => []P` for `TypeOK`, `OnlyPaidSent`, `ConfirmedIsEarned`, `FulfilledIsEarned` |
| `DuplicatesAreExplained` | `Spec => []DuplicatesExplained`: an item is sent at most once per job and once per fault |

*Assumptions.* The named ASSUMEs of `Fulfillment`: `NoJob` is not a job, handlers are not named like the
places a delivery can be in, the bounds are natural numbers.

*Argument.* Handlers act on what they read long ago, so an invariant over the rows alone is not inductive:
an item may be confirmed by a handler whose check is out of date. `Knows` says that what a handler has read
is still a row (jobs are never deleted and never change their item), `Justified` that the reason for what
it is about to write still stands: the payment was once captured, the vendor once accepted, all items once
were confirmed. These are facts about the past (`cleared`, `sent`, `resolved`), which no step takes back;
that is why staleness does no harm here, and why it does in `TerminalStays`, which is about the present.
`StepInv` reduces a step to the one handler that moves; `QuietInv`, `WriteJobInv` and `WriteItemInv` treat
the three kinds of statement once, and each action cites one of them.

`DuplicatesExplained` counts, so it needs an account of what may still be sent (`Accounted`, relative to
`IInv`): for each item, the requests sent, the handlers that may still send one (`Asking`) and the jobs that
may still be delivered (`Undelivered`) never exceed the item's jobs plus the faults there were. A delivery
turns the second kind into the first, a request that reaches the vendor turns that into the one that counts,
and what brings a delivered job back is a fault. That the account balances needs that a handler holds the
delivery of its own job and no other (`HoldsItsOwn`), and that a job is queued once, by the request that
inserted it (`QueuesOnce`).

`PaymentsProofs` holds for every number of sessions, payments and line items and every set of deployments:

| Theorem | Statement |
|---|---|
| `PaymentsInvariance` | `Spec => []IInv` |
| `PaymentsTypes`, `CapturesAreReal`, `ConfirmedOrdersArePaid`, `RestocksAreExplained`, `OnlyEventsKeepMoney` | `Spec => []P` for `TypeOK`, `CapturedWasCharged`, `ConfirmedWasPaid`, `RestocksExplained`, `CancelledKeepsOnlyByEvent` |
| `RefundsSurvive` | a redelivered event never undoes a refund |
| `PaymentsImplementLifecycle` | every step of the locking transactions is one of `PaymentLifecycle` or a stutter |

*Assumptions.* `NoRefAssumption` (the value for "no reference" is not a payment) and
`DeploymentsAssumption` (a deployment is the record of three answers that section 2 describes).

*Argument.* What a session does at its last statement rests on what it read at the first. `Fits` says which
steps a kind of request goes through, so that a session's step tells what it may have learnt; `Knows` says
what it learnt and that it still stands, either because it is a fact about the past (a payment charged, an
event sent, a sync job created) or because the session holds the row; `Exclusive` that two sessions never
hold the payment row nor the row of one event. `Item(i)` says of a line item that its history explains where
it is: whoever finds it open after its stock went back finds that it was revived, and whoever finds its
order open finds that it was reopened, so that a cancellation that gives it back again has both. Together
with the properties themselves (`Ledger`), which need one another, they are `IInv`. `Undisturbed` reduces a
step to the session that moves: nobody else writes a row it holds.

`ServicesProofs` holds for any numbers of callers, accounts, addresses, vendors, products, jobs, pages and
settings, and for all prices, shares and policies. Its theorems speak of `MCServices`, so that each states
the very property its run checks; `ServicesInvariance` says that the `IInv` of the service that runs always
holds, for all services but `Contract`. Four modules hold the proof for one service each and are instantiated there; the others are proved in
place, over the variables `x1`, `x2`, ... that `MCServices` gives to the service.

| Theorem | Property | Module of the service |
|---|---|---|
| `CallersGetOneAnswer` | `OneAnswer` | `InsertOnce` |
| `AmountsAlwaysAddUp` | `AmountsAddUp` | `Promotions`, `ShopWindow`, `Money` |
| `AccountsAreSound` | `AccountsSound` | `Membership`, `Credentials` |
| `DecisionsAreFinal` | `DecisionIsFinal` | `Membership` |
| `OneDefaultAddress` | `OneDefaultUnlessRaced` | `Addresses` |
| `WaitingJobsHaveWorkers` | `JobsHaveWorkers` | `Queues` |
| `SessionsAreSound` | `SessionsSound` | `Storefront`, `RefreshTokens` |
| `ListsAreKept`, `PaymentsHaveOneOutcome` | `ListsKept`, `OneOutcome` | `Storefront` |
| `PaidWhereStaffApproved` | `PaidWhereApproved` | `Payouts` |
| `SeedingIsIdempotent` | `SeededOnce` | `Seeding` |
| `ScreensAnswer` | `ScreenAnswers` | `Pages` |
| `UpgradesArrive` | `SchemaSettles` | `Migrations`, `MigrationList` |
| `TrailExplainsTheStock` | `TrailExplainsStock` | `AuditTrail` |
| `BrowsingIsWhole` | `BrowsingIsComplete` | `Listing` |
| `ReportsHold` | `ReportsAreTrue` | `Scripts` |
| `ProgramsAgreeOnTheDatabase` | `StartsAgree` | `Startup` |

*Assumptions.* `ServicesAssumption` collects what each module asks of its constants. Most of it says that
a value which stands for nothing is none of the real ones, and that bounds are natural numbers. What says
more is what the code guarantees: `PricesAssumption`, that discounts and funding shares are at most 100 %
and prices and quantities not negative (`vendor/dto/vendor-promotion.dto.ts` 14-15,
`vendor/dto/promotion-funding-approval.dto.ts` 14-24 and 58-69, `catalog/dto/catalog.dto.ts`,
`orders/dto/orders.dto.ts` 12); `ScriptsAssumption`, that the vendors to seed are numbered from 1 and
there is one; `ListingAssumption`, that a page shows one product or more (`catalog.dto.ts` 163) and that
there are finitely many products; `TrailAssumption`, the same of the products that requests change. One is about a table that a
module holds as data: `RegistryAssumption` says what a list of migrations must keep for its order to matter
and nothing else (each finds what it needs among the earlier ones, none undoes what a later one relies on),
for whatever list. TLC evaluates all of them on the run's instance, that one on the 36 migrations of the code.
There is none on `Policies`: `Allocate` is guarded by what
the code validates of a policy (`ValidPolicy`).

*Arguments.* In each case the property is not inductive, and what makes it so is what a request between two
statements relies on.

- `InsertOnce`: an insertion that is not committed is the only one and the first; whoever lost finds a row,
  whoever won answers with it.
- `Promotions`: quotes, lines and allocations are copies, so their bounds must not speak of the promotions
  they were calculated from, which change meanwhile: `Quoted`, `Recorded`, `Divided` are facts about the copy
  alone, and `approved` remembers for ever. The lemmas about `Money` say what rounding half up, and rounding in
  floating point, may be off by, and that the commission, taken of the ten-thousands and of the rest, is the
  rounded percentage of the whole.
- `ShopWindow`: every copy of a price (page, cart, button, attempt) that is not marked stale is one that the
  server could calculate now (`Current`), so that the provider's amount and the button's are two roundings of
  the same price; what is open at the provider is the attempt, and the cart as long as nobody touched it
  (`Matching`), which needs that the form's inputs are disabled while it submits and that an attempt is reused
  for the same quantities only.
- `Membership`: whoever reviews an application holds its row, so that it is pending and of an account until
  the decision is written; roles and vendors agree, so that a check before the lock is repeated under it.
- `Credentials`: what a request holds has the role of the row or will not write it, unless the role was set
  meanwhile; a link is mailed by one request, so that nobody else takes it away.
- `RefreshTokens`: of an uncontested login there is one good token, or one request that carries it from the
  old row to the new.
- `Migrations`: what is recorded was applied, with all before it, and a half is only what a run that is under
  way has made. That every path of upgrades makes the same schema is an induction over the release. The
  library's theorems about induction cannot be used, so the proof takes the least release that fails, which
  every non-empty set of natural numbers has. Likewise a fold over the registry is a function whose value at a
  release follows from that at the one before.
- `Addresses`, `Seeding`: as long as nothing overlapped, one request runs alone, and what it has read is so.
- `Queues`: a vendor in the map of queues is in the map of workers; the jobs it runs are a finite set, no
  larger than its concurrency.
- `Storefront`: restores under way carry different numbers, and the newest asks for the tokens that are
  stored, unless two logins crossed; the lists on the screen are the saved ones of the account shown.
- `Payouts`: all copies of a row, those of requests included, agree on its account, and what is active was
  activated as it is.
- `Pages`: the newest load asks what the screen asks and sees every action that was reported.
- `AuditTrail`: two requests hold no row together, and each locks, writes and tells in the order of its lines;
  so what it read is current, and its entry is the last of its product until it ends.
- `Listing`: what was answered is still so unless somebody edited. That the pages are the list is a fact about
  places: the order is total, so each product has a place of its own, all places below the number of matches
  are taken (an injection between finite sets of one size is onto), and each place is on one page.
- `Scripts`: a seeder's statements have a rank; what the last one that truncated has inserted up to its rank is
  there, and what anybody inserted once is never inserted again. The purchases that hold a row read what is
  there, and what the first test sold and has left is no more than it put on the shelf.
- `Startup`: the application serves what the settings say until one changes. The rest compares the programs
  name by name: a setting is that of the first place that has it.

All these invariants were checked by TLC before they were proved. The proofs stopped where one was too weak
(it said nothing of the rows of a page that are not read yet, for instance), never at a property.

*Proved, and no longer run:* `ViewsCurrent`, and `IInv` and `TypeOK` of every module that has an `IInv`, but
for the `TypeOK` of `Checkout`, which is run.

*Model-checked only*, and why:

- `RequestsEnd`, `SettlementsEnd`, `OrderFulfilled`, `ScreenCatchesUp` are liveness under fairness, which is
  beyond this prover.
- `OffersServed` compares two tables, offers and routes, which TLC does for the tables of the code; for
  other tables there is nothing to prove without assuming that they agree.
- The runs of section 6 show what does not hold.

## 6. Where the code and its documentation disagree

Each has a run whose counterexample shows it.

1. **A cancelled order comes back** (`TerminalStays`, `MCTerminal.cfg`). `checkOrderFulfillment` promises
   "never flip a terminal order back to an active status", but reads the status (323) and updates by id
   (339) without lock or condition; a cancellation in between is undone.
2. **A retry is not safe** (`NotSentTwice`, `MCSentTwice.cfg`). The recovery note (123-125) relies on the
   job being completed; after a crash between answer and update it is in progress, and the vendor is asked
   again.
3. **A failed sync is not retried** (`FailedJobRetried`, `MCRetry.cfg`). `handleSyncFailure` returns
   normally below the limit, so BullMQ's attempts and backoff (README.md:180) never apply.
4. **A link resets the password more than once** (`ResetOnce`, `MCCredentials.cfg`). `resetPassword` asks for
   `usedAt: null` (`auth.service.ts` 376); TypeORM 0.3.31 (package-lock.json) leaves criteria that are null
   out of a find unless told otherwise, and nothing tells it. So a used link is accepted until it expires,
   although the comment at 327 says "single-use". The run has one request at a time; two that overlap would
   both find the link unused in any case, as the lookup locks nothing.
5. **Edits of a product overwrite its stock** (`StockSurvivesEdits`, `MCCatalogEdit.cfg`). TypeORM's
   `save()` compares no versions; the 409 of README.md:424 and catalog.service.ts:156-158 never happens.
   `StockIsConserved` is a theorem about the transactions that lock; this is the writer that does not.
6. **Promotions nobody approved lower Razorpay prices** (`OnlyApprovedApplied`, `MCPromotions.cfg`).
   `initiate` reads promotions by date and activity (186-197, 289-305), never by approval (README.md:432).
7. **Entities name columns and values that the migrations do not make** (`EntitiesFit`, `MCEntities.cfg`).
   Webhook events, onboarding states, allocations, transfers and some audit labels fail on a migrated
   database, although "migrations own the schema" (app.module.ts:112).

The models also *contain* behaviour that is easily taken for a mistake of the model. It is what the code
does; where a property excuses it, the property names it.

*Payments.* The driver returns decimals as strings, so the webhook's comparison (75) never matches; the
provider's event id is no uuid, so its update (89) fails; that is the deployment of today, and `Payments`
covers the others, too. One declined payment makes the row failed, and a second that succeeds is refused by
`verify` and skipped by the webhook. With `NODE_ENV=production` cancellation and refund throw unless the
payment is refunded already. The stock of an abandoned attempt stays reserved: the code that would release
it has no caller (section 7). Stock can go back twice: a worker that checked the payment before a
cancellation, or a retry of a dead job, makes the item syncing or pending again, a stale write opens the
order, and a second cancellation restores the item again. `RestocksExplained` says that nothing less does it.
(The repository promises "inventory restoration is idempotent on double-cancellation" only as the name of an
empty test, `payments/e2e-backup-preserved-20261028/e2e-vendor-split-scenarios.contract.spec.ts` 341, so there is no run for it.) A refund is allowed from any status, unlike the comment in the entity (10-16).

*Rows read back.* A repeated durable allocation compares string decimals with numbers and is refused,
contrary to `durable-allocation.service.ts` 60; the snapshot's comparison refuses promoted plain checkouts
the same way. `InsertOnce` leaves open whether the driver reads money as strings (`numbers`).

*Services.* A vendor may change the discount of an approved promotion without a new approval
(`vendor-promotions` 87). Line totals may differ from the amount charged (`initiate` 289). Approving an
application overwrites the user's role and vendor without a check (147), and `vendors.name` is not unique.
Two statements for one default address let two requests leave two (or none). Activating a payout account
while it is unlinked inserts it again. Linking the account of a pending or suspended vendor fails on its
unique index. A seeder that dies leaves half a catalog that counts as seeded; two double it. Audit entries
need a second connection while their transaction holds one, so concurrent requests can exhaust the pool.

*Accounts.* A role that staff set while a password is saved is written back to what it was (`RoleKept` excuses
it). Two refreshes that hold the same token both succeed, and the login has two good tokens from then on;
the comment at `auth.service.ts` 113-116 expects a replayed token to fail. A mail whose confirmation is lost
is taken for not sent, and the link in it deleted.

*Browser and API* (the misfits that `Contract` names). Order statuses are lower case in the server
(`orders.service.ts` 620) and upper case in the browser (`types.ts` 62-69, "MUST stay 1:1"), so a page polls
for ever although `use-order-polling.ts` 4-5 says it stops; `ScreenCatchesUp` depends on that. The
resolution dialog sends values that the DTO refuses; the admin's product list sends text for a Boolean;
vendors are offered a stock update that is refused after the rest was saved; reviews require a line item
"fulfilled", which the enum lacks; ledger, payouts, disputes and refunds read names that are not answered;
two pages ask the frontend's own host; `validateCoupon` has no route; operations staff are shown pages whose
calls are for admins only. A session restored late is discarded only if another restore began, not after a
logout (`auth-context.tsx` 163-169). After an approval the old token says "buyer" until it expires, and every
vendor call is refused. An expired token makes an order page say "not found" and poll on.

*From page to payment.* The preview adds the quantity that its card had before, not the one just picked
(`ProductCard.tsx` 197-203 sets the state and calls the `onAdd` of the last rendering). A line that is added to keeps
its old price and its old limit; if the stock has grown meanwhile and "+" is pressed, its quantity drops.
"Order total (final payable)" includes shipping of 5.99 (`CheckoutForm.tsx` 409-418) that nobody charges.
Catalog and checkout discount in floating point by different formulas and may differ by a cent at an exact half.
Prices are shown in dollars and charged in rupees.

*Lists.* The pill "All" shows the total of the filtered list, unlike `catalog.dto.ts` 188; a page past the
last is empty and has no buttons to leave it.

*Database.* "Local mode always forces the local compose DB" (app.module.ts:65-68) does not hold with a
remote `DB_HOST`; the third branch (107-117) is never reached; `seed.ts` 16 claims the logic of the
application, ignores the mode and truncates what the application would refuse to open; the production
runner lets `.env` override the process, so it may migrate another database than the one served. It refuses
a database without a history table. Comments of the baseline migration claim to be safe on synchronized
databases, where it is refused. Overlapping seeders truncate each other's rows; a product made between
backup and read is reassigned without a backup, and a second run overwrites the backup; a load test leaves
the stock changed and miscounts the units sold. `ReportsAreTrue` and `StartsAgree` name these
cases.

## 7. Not modelled

- *Vendor portal, payout views, dashboards, analytics, customers:* queries, and
  updates of one row by its owner. Their routes and fields are part of `Routes` and `Client`.
- *Reviews, slugs, related products:* a row per call, and nothing depends on it.
- *Email, health, logging:* input and output.
- *Hashes and signatures:* cryptography is taken to do what it should; a request that fails it changes
  nothing.
- *Audit entries* other than the stock's: written the same way, and nothing reads them back.
- *Layout, styling, form validation, static pages, formatting.*
- *Checkout reconciliation* (`checkout-reconciliation.service.ts`): `reconcileAttempt` has no caller, and it
  acts on Razorpay payments that are "authorized", which nothing writes.
- *Stubs:* claims, attempts and outbox of transfers, orchestration, the state machines of refunds and
  reversals. They keep no state and have no callers.

The map covers about 30 % of the repository's 44,000 lines of implementation. What is left is mainly
markup and styles of the frontend (the largest part), copies under `backups/` and `backups-preserve-*`
of services that are modelled where they live, stubs, DTOs and types whose fields no property tells apart,
and tests' helpers.

## 8. Plan

Done: all modules of section 2; proofs of every safety property that the passing runs check, but for
`OffersServed`.

To prove next: `CatalogEdit`, that `StockConserved` fails only through an edit that overlaps, that is, the
theorem of `Checkout` with `updateProduct` beside it and the excuse named.

To model next: the statement-level workers of `Fulfillment` over the stock of `Checkout`, to state when an
item may be given back; three handlers at once.
