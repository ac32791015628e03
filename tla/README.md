# A verification of vodiy-kafel

vodiy-kafel sells ceramic tiles by the pallet: a NestJS API over PostgreSQL
(`src/api`), a dashboard for the staff (`src/dashboard`) and a storefront
(`src/storefront`). Most of what can go wrong goes wrong in the API, where many
requests read rows, wait (for a tariff, a payment provider, a lock, a disk) and
write rows later; some of it in the dashboard, which keeps a session and a cart
in the browser while answers cross. This directory models these parts in TLA+,
checks them with TLC on small instances and proves what holds for every instance
with TLAPS.

## 1. The system

| part | state | operations | hard behaviour |
| --- | --- | --- | --- |
| order placement (`orders.service.ts`) | orders, items, yearly number counter, `product_stocks` | `place` (buyers, and managers for guests, customers and branches) | stock looked at outside the transaction; several rows decremented one by one; number counter shared by all |
| order status (`order-status.service.ts`, `order-status.ts`) | `orders.status`, history, `stock_reserved` | `change` (cancellation restores stock, closes payments, reverses debt) | status read before the transaction; rows locked in an order other than `place`'s |
| order administration (`orders-admin.service.ts`, `manager-assignment.ts`) | delivery route and totals, manager, urgency | `setDelivery`, `assign`, `setUrgent` | totals read, tariff awaited, totals written |
| payments (`payments.service.ts`, `payment-settlement.service.ts`) | payments | `start`, `preparePending`, `confirm`, `settle` | provider called outside transactions; start, switch, confirmation, webhook and cancellation race |
| payment webhook (`payment-webhook.service.ts`) | payments, account | `process`, `apply` | repeated, late, concurrent events |
| customer account (`account-ledger.service.ts`, `accounts.service.ts`) | append-only entries, cached sums | `record`, manual entries | sums and entries written together |
| warehouse stock (`product-stocks.service.ts`) | `product_stocks` | `upsert` | absolute value over concurrent reservations |
| settings (`settings.service.ts`) | cache, load in flight, generation | `get`, `update`, `invalidate` | a load that started before an update |
| backup (`backup.service.ts`) | current run, last hash, timers | `run`, `execute` | timer and manual runs overlap; failures |
| notifications, updates (`notification.service.ts`, `updates.service.ts`, `announcements.service.ts`) | notifications, announcement rows | event listeners, inbox, polling | events live in memory after the commit; polling window against commits |
| contracts (`contracts.service.ts`) | contract rows, PDF files | `create`, `download` | row, file, row, delivery: any step may fail |
| customers, staff (`customers-admin.service.ts`, `staff-admin.service.ts`) | two tables of phone numbers; branch and manager of each customer and order | create, update, deactivate, assign | uniqueness across the tables is checked, not constrained; a manager is read, then relied on |
| auth (`auth.service.ts`, `session.ts`, `token-store.ts`) | stateless tokens, the session of a tab | login, refresh, change password, logout | tokens outlive the state they carry; answers cross |
| cart (`cart-store.ts`, `CartPage.tsx`) | `localStorage`, a copy per tab | add, change, empty, order | every tab writes the whole cart; an order's answer is late or lost |
| leads (`leads.service.ts`) | leads | create, update | duplicate window |
| pricing, calculator (`pricing-resolver.service.ts`, `calculator.service.ts`) | none | resolve a price, count pallets and vehicles | precedence, rounding |
| pictures (`image-storage.service.ts` and the services that use it) | files, rows that name them | create, replace, remove | file and row are not one transaction |
| catalogue, categories, factories, sizes, partners, gallery, branches, tariffs | single rows | CRUD | little, but for their pictures |
| statistics, HTTP layer, storefront, the dashboard's pages | none of the domain's | reads, presentation | left aside |

They interact through rows: `place` and `change` share product rows; `change`,
`setDelivery`, `start`, `confirm` and the webhook share the order's payments and
the customer's entries; `record` is called inside each of their transactions.
Events are emitted after the commit and never feed back into these rows.

What makes each correct:

* **stock** - an order has all its pallets or none; pallets are neither made nor
  lost; numbers have no gaps; every request ends.
* **status** - only steps of the two flows, whatever two employees do at once.
* **payments** - one open payment per order; a payment closes once; the account
  is credited once for each paid payment; money that came is never silently lost.
* **account** - it owes for an order exactly the order's total; a cancellation
  takes all of it back.
* **settings** - a read sees every update its process finished before it; one
  query at a time; a failure is not kept.
* **session** - the tab's session is its user's; a temporary password is forced
  to change; tokens catch up with the row.
* **cart** - nothing put in is lost, nothing is ordered twice.
* **backup** - a status tells the truth about the mirror; the mirror catches up.
* **pictures** - no row names a missing file; a file without a row has a reason.
* **customers, staff** - a phone logs in one account; customers and orders have a
  manager who sees them.
* **notifications, polling** - nothing is told that did not happen; what happened
  is told, or dropped for a known reason; everybody is reached once.
* **contracts, leads** - a contract said to be ready can be downloaded; one
  message makes one lead.
* **prices** - the most specific rule decides, rounding is to the nearest, the
  vehicles suffice.

Where the code guarantees one of these only as long as two steps do not cross, the
model keeps a variable called a ghost in its declaration. It records exactly the
crossing (`late`, `crossed`, `passed`, `parted`, `lost`, `leaked`, `damaged`,
`overtaken`, `shifted`, `excused`, and `joined` in the record of a call), and the
property excludes what was recorded and nothing else. Section 7 says which of these
exceptions the repository's own words do not mention.

## 2. The plan

1. `OrderFlow`, `StockBook`, `StockReservation`: stock and order numbers at the
   level of PostgreSQL statements. *Done.*
2. `PaymentBook`, `OrderSettlement`: an order's money with stale reads. *Done.*
3. `StockReservationProofs`: type correctness, the lock invariant, the
   refinement of `StockBook`, deadlocks, order numbers. *Done, section 6.*
4. `SettingsCache` and `SettingsCacheProofs`: a cache that never keeps rows older
   than an update known to this process. *Done.*
5. `OrderSettlementProofs`: the money of item 2 for every instance, with the
   refinement of `PaymentBook`. *Done.*
6. `SessionTokens`, `CartTabs`: what the browser keeps. *Done.*
7. `BackupRuns`, `ImageFiles`, `PhoneRegistry`, `ManagerDesk`, `LeadDesk`,
   `UpdatesPolling`, `Broadcasts`, `OrderNotices`, `ContractDesk`: the services
   around the order. *Done.*
8. `PriceQuotes`: prices as pure functions. *Done.*
9. `BrowserProofs`, `NotificationProofs`, `FileProofs`, `AdministrationProofs`,
   `OfficeProofs`: the browser and the services around the order. *Done.*
10. The totals of `PriceQuotes`, and for each run of section 7 what its property
    needs in order to hold. *Done, section 6.*
11. Left: manual ledger entries next to the cached sums; the inbox.

## 3. The modules

**`OrderFlow`** is `order-status.ts`: the two flows as functions from a status to
the set of its successors. Both other halves extend it.

**`StockBook`** is the abstract specification: `Reserve`, `Advance`, `Release`,
`Restock`, each one atomic step over `stock`, `lastNumber` and `orders`.

**`StockReservation`** extends it with what really runs. A request is a record in
`tx`; its `pc` says where it stands:

| code | action |
| --- | --- |
| `place`: `productStock.findMany`, comparison, outside the transaction | `CheckStock` |
| `orderNumberCounter.upsert` | `TakeNumber` (takes the year's row and keeps it) |
| `productStock.updateMany(... gte)`, count 1 / count 0 | `ReserveRow` / `RowShort` |
| `throw shortError` inside the transaction / `order.create` and commit | `PlaceRejected` / `CommitPlace` |
| `change`: read, `canTransition` | `ReadStatus` |
| `order.updateMany({status: order.status})`, count 1 / 0 | `ClaimOrder` / `ChangeConflict` |
| `productStock.updateMany(increment)` per item | `RestoreRow` |
| commit | `CommitChange` |
| `ProductStocksService.upsert` | `SetStock` |
| PostgreSQL's deadlock detector; Prisma's 5 s limit, lost connection, crash | `DeadlockVictim`; `Abort` |

Isolation is READ COMMITTED. An UPDATE sees committed rows; if the row qualifies
and another transaction has it, it waits (the action is disabled), and looks again
when the row is free. An UPDATE whose WHERE fails on the committed row matches
nothing and does not wait: `RowShort`, `ChangeConflict`. What a transaction wrote
stays in its `draft` until commit. Rows may be visited in any order, since a
request lists its items freely and GROUP BY promises none.

Abstractions: prices, weights and the customer are data; one year's counter; an
order that predates reservations (`Legacy`) has number 0. A row that PostgreSQL
locks and then finds not to qualify stays locked until the end of the
transaction; the model frees it at once, and the transaction that saw it always
rolls back. History rows, notifications and the account are elsewhere or left out.

**`PaymentBook`** is the abstract specification of payments: `Open`, `Replace`,
`Close`.

**`OrderSettlement`** models the money. A handler is two steps or more: what it
reads goes into its request record (`staff`, `moderator`, `buyer`, `hook`), other
requests run, then it writes under exactly the conditions its UPDATEs repeat. A
transaction is one step, because every one of them takes the order row or the
payment row first; the webhook is the exception and is split, since it reads its
payment inside the transaction and settles it later.

| code | actions |
| --- | --- |
| `place` | `PlaceOrder` |
| `change` | `ReadStatus`, `CommitStatus` |
| `setDelivery` | `ReadDelivery`, `CommitDelivery` |
| `start`, `preparePending` | `ReadForStart`; `PrepareSame`, `PrepareSwitch`, `PrepareNew`; `CallProvider`; `SaveRef` |
| `confirm` | `ReadForConfirm`, `CommitConfirm` |
| webhook `apply` | `ReadForWebhook`, `CommitWebhook` |
| the provider, from its interface | `ProviderPays`, `ProviderFails` |
| a request that dies | `Crash` |

Entries of the account are kept per order as two sums (DEBT, ADJUSTMENT) and per
payment as the sequence of its PAYMENT amounts. The provider keeps, per
idempotency key, the amount it was first given, the events it sent and those
answered. BANK_TRANSFER behaves as CASH and is not separate.

**`SettingsCache`** models `settings.service.ts` in several processes over one
table. Node runs one callback at a time, so the code between two awaits is one
action; a query's `.then` and `.finally` are two, since other callbacks may run
between them.

| code | action |
| --- | --- |
| `load`: fresh cache / `this.loading` / `findMany` started | `Hit` / `Join` / `Miss` (with `StartQuery`), begun by `Get` |
| the database reads, or the query fails | `Read`, `Reject` |
| `.then` with the generation guard | `Then` |
| `.finally` with the identity guard; the awaiting requests resume | `Finally` |
| `update`: `upsert` commits; its answer is lost | `Upsert`; `UpsertLost` |
| `update`: `invalidate()` and `load()`, no await between them | `Invalidate` |
| `SETTINGS_CACHE_TTL_MS` passes | `Expire` |

The table is the number of updates committed. `known` is not in the code: it
remembers the newest update a process has finished, for `AnswersCurrent`.

**`SessionTokens`** is one tab of the dashboard and the account rows its tokens
speak for. A token is what the row said when it was issued (`sub`, `must`), and
`fresh` until its 15 minutes are over; a refresh token names only its account. A
request appears when it is refused, since only then does it change anything.

| code | action |
| --- | --- |
| `login` in the browser, on the server, `setTokens` | `Login`, `ServeLogin`, `Enter` |
| 401, `withAuthRetry`, `refresh` (joins the one in flight) | `Unauthorized`, `Refresh` |
| `refreshTokens`, `refreshCustomerTokens`; the network | `ServeRefresh`; `LoseRefresh` |
| the answer and every continuation it resolves | `SettleRefresh` with `Resume` |
| `changeWholesalePassword`: check / unconditional UPDATE | `CheckPassword` / `ChangePassword` |
| `logout`: call the server, `finally` clear (`leaving`: the calls not answered) | `Logout`, `LoggedOut` |
| `resetPassword`, `setActive`, `deactivate` | `ResetPassword`, `SetActive` |
| the page is loaded again; time | `Reload`; `Expire` |

**`CartTabs`** is the cart in several tabs: `write` (`Write`), `add`, `setPallets`,
`remove`, `clear`, the `storage` event (`Hear`), the cart page (`OpenCart`,
`LeaveCart`, `ReloadTab`) and the order it sends (`Submit`, `PlaceOrder`,
`OrderSucceeded`, `OrderUnanswered`).

**`BackupRuns`** has one action per call: `RunTimer`, `RunForced` (`run`),
`ReadTable` (`collectTables`, no transaction around it), `Unchanged`, `Changed`
(the hash), `Layout`, `BatchClear`, `PutValues` (the mirror's calls, each of which
may fail after it took effect) and `Restart`.

**`ImageFiles`** is the order file first, row second, left-over last, as
`create`, `replace` and `remove` of the services and `save`, `saveDerived`,
`delete` of the storage have it: `SaveOriginal`, `SaveVariants`, `WriteRow` or
`WriteFails` or `WriteLost` (committed, but the answer never came), `Delete`;
each of them may fail, and `Stop` is the process.

**`PhoneRegistry`**: `Begin` reads the row, `CheckOther` asks the other table,
`WritePhone` is the statement and its unique index (P2002).

**`ManagerDesk`** is who looks after a customer and an order. A request is three
statements: it reads the row (`CreateFirm`, `UpdateManager`, `UpdateShop`,
`AssignSale`, `PlaceOwn`, `PlaceManual`, `PlaceSupply`), then the manager
(`Assignable` refuses him, `Pick` does without him), then writes the fields it
decided to write (`WriteLink`). Meanwhile `MoveManager`, `Deactivate` and
`Activate` change the manager.

**`LeadDesk`** (`FindDuplicate`, `InsertLead`, `LeaveWindow`), **`Broadcasts`**
(`SaveProduct`, `ClaimProduct`, `Announce`, `SendBatch` with Prisma's cursor and
`skip: 1`), **`OrderNotices`** (`CommitChange`, `EmitChange`, `TellBuyer`,
`TellStaff`, `NoticeCrash`) and **`ContractDesk`** (`MakeDraft`, `SavePdf`,
`MarkSent`, `Deliver`, `Announced`, `AbandonDraft`) are each one service's steps.

**`UpdatesPolling`** has a clock, changes that are stamped before they commit, and
polls that cross: `Stamp`, `Commit`, `SendPoll`, `QueryChanges`, `Receive`,
`LosePoll`.

**`PriceQuotes`** is the resolver and the calculator as operators over integers of
the last decimal place: `RoundHalfUp`, `PickRule`, `ApplyRule`, `Resolve`,
`LineTotal`, `VehicleCount`, `DeliveryTotal`, `GrandTotal`.

**`MCBrowser`** and **`MCOffice`** put components that share no state side by side.
One variable (`kept`, `desk`) chooses at the start which of them moves, so a
behaviour of the sum is a behaviour of one component, and the number of states is
the sum of theirs, not the product. A property of one component then holds in the
behaviours of the others because their variables rest.

## 4. The runs

| run | shows | bounds |
| --- | --- | --- |
| `stock_transactions` | `TypeOK` (stock never negative), `PalletsConserved`, `ImplementsStockBook`, `RequestsEnd` | 2 requests, 2 products with 2 pallets, 3 orders: two that compete for the last pallets, one older than reservations |
| `stock_three_requests` | `TransactionsConsistent` (the inductive invariant of section 6), `NumbersContiguous`, `PlacementsNeverDeadlock` | 3 symmetric requests |
| `settlement_payments` | `TypeOK`, `SettledOnce`, `ImplementsPaymentBook`, `PaidLeavesPending` | 1 order, 2 payments, 1 employee, 1 buyer, 1 webhook call at a time |
| `settlement_orders` | `FlowRespected`, `CancelReversesDebt`, `DebtMatchesTotal` | a customer's order or a guest's, 2 employees, 1 moderator, prices 1 and 2, debt up to `MaxDebt` |
| `settings_cache` | `TypeOK`, `AnswersCurrent`, `SingleFlight`, `LoadingInFlight` | 2 processes, 3 requests (two queries in flight and a reader), 2 updates |
| `browser` | `SessionIsUsers`, `TemporaryIsForced`, `TokensCatchUp`, `WantedKept`, `OrderedOnce` | 1 customer and 1 employee, 2 requests, 2 passwords set per account; 2 tabs, 2 products, 2 orders; 715,232 states |
| `back_office` | `MirrorHolds`, `ForcedSends`, `MirrorCatchesUp`; `RowsHaveFiles`, `OrphansExplained`; `PhoneOwnedOnce`; `LeadOnce`; `NothingDropped`; `AnnouncedOnce`, `ReachesAll`; `NoticeOfCommitted`, `NoticedOrDropped`; `ContractsDownloadable`; `FirmsLookedAfter`, `SalesLookedAfter` | below; 790,757 states |
| `cancellable`, `paid_once`, `credited_what_was_paid`, `money_accounted`, `debt_two_moderators` | each a counterexample, section 7 | the smallest that shows it |

Why the bounds are enough. A conflict over stock needs two transactions and one
row; a deadlock needs two rows; a third request is there for rings of three and
for a waiter behind a waiter. Rings do occur in these instances (a cancellation
against a placement), so `PlacementsNeverDeadlock` and `RequestsEnd` speak of real
states. A payment races at most one replacement, hence two payments. `MaxDebt`
bounds only how often a moderator changes the delivery; two prices make both an
increase and a decrease.

`back_office` has 2 tables with 2 contents (a run can read one before and one after
a change, and come back to an older copy); 2 rows with pictures, one created and
removed, one replaced, with 2 requests and 3 files (a replacement that crosses
another leaves the third); 2 customers, 1 employee, 2 numbers and 2 requests; 3
forms (a third that comes when the first has left the window); 2 changes, 2
polls and 3 moments; 3 customers in batches of 2 and 2 broadcasts (a full batch
and a short one); 2 changes of orders; 2 contracts; 2 shops, a central warehouse,
1 manager, 1 customer, 1 order and 2 requests. `MaxTime` and `MaxPasswords` are
bounds of the model: `NothingDropped` is proved for every `MaxTime`, and two
passwords are enough for a reset and a change that cross. These services may stop
where nobody asks anything of them, so the run does not check for deadlock. TLC
also evaluates the three assumptions of `MCOffice`, which compare `PriceQuotes`
with definitions written another way: `RoundingAgrees` (the nearest integer, found
by search), `PriceAgrees` (the precedence of rules written out) and `TotalAgrees`
(a whole order, the vehicles found by search).

In `browser` a second account is there for a login that follows a logout, or passes
one that is still unanswered; two
requests for one that joins a refresh and one that comes after it; two tabs for
one that has not heard of the other's write; two orders for a repetition.

`DebtMatchesTotal` holds with one moderator and fails with two: the same
definition is checked by `settlement_orders` and refuted by `debt_two_moderators`.

## 5. Fairness

* `StockReservation`: strong fairness of each request's next statement, since
  PostgreSQL queues the waiters of a row, and weak fairness of the deadlock
  detector. `Abort` is never required: `RequestsEnd` does not rest on time-outs.
* `OrderSettlement`: the provider repeats an event until it is answered with 200
  (`payment-provider.interface.ts:89-92`, `docs/error-codes.md`, section Webhook),
  and not every call dies before its commit. Buyers, employees and moderators
  have no fairness: they may stop anywhere.
* `SessionTokens`: tokens expire, and what was sent is answered or lost. The user
  is never required to do anything.
* `BackupRuns`: the timer (`setInterval`) goes on and a call returns or throws.
  `MirrorCatchesUp` is conditional on a database that rests and on runs that do not
  fail; a failed run is no excuse once runs succeed again.
* `OrderNotices`: an emitted event's handler runs, or throws, or the process stops.

`BrowserFairness` and `OfficeFairness` are the same conditions on the component that
moves.

## 6. Proofs

`StockReservationProofs` holds what TLAPS proves of `StockReservation`, for any
products, orders, baskets, number of concurrent requests and stock levels. It
assumes only `BookAssumption` (the constants have their types) and
`ReservationAssumption` (the "nobody"/"nothing" values are none of the real
ones); neither `Products` nor `Orders` nor `Procs` has to be finite.

| theorem | property |
| --- | --- |
| `TypeCorrect` | `TypeOK`: stock never goes below zero |
| `Consistent` | `TransactionsConsistent` |
| `Implementation` | `ImplementsStockBook`: the transactions implement the atomic book |
| `DeadlockFree` | `PlacementsNeverDeadlock` |
| `Numbered` | `NumbersContiguous` |
| `Conserved` | `PalletsConserved`: no step makes or loses a pallet |

The inductive invariant is `Inv == TypeOK /\ TransactionsConsistent`. `TypeOK`
alone is not inductive: that a commit leaves a natural number in `stock` needs
to know that each draft is the committed stock less the basket, hence that nobody
changed the row meanwhile. `TransactionsConsistent` says why, in five parts:

* `LocksMatch` - each lock is held by exactly the request whose phase and written
  rows say so;
* `PlacementsSound` - a placement has its order to itself, the order does not
  exist yet, and the number it took is still the next (nobody else can have the
  counter's row);
* `ChangesSound` - a change is a step of the flow, and after `ClaimOrder` the
  status read before the transaction is the status the order has;
* `RowsAccounted` - rows written and rows still to write make up the basket;
* `DraftsCurrent` - a draft is the committed stock less, or plus, the basket.

There is one lemma per action (`CheckStockInv` ... `SetStockInv`), joined in
`NextInv`. The refinement then needs only the two commits: at the end of the loop
nothing remains, so the rows written are the basket (`CommitPlaceReserves`,
`CommitChangeAdvances`); every other step leaves the book alone. `DeadlockFree`
is a consequence of `Inv`: in a ring without a cancellation nobody updates an
order's row and waits, so all blocked holders are placements inside their
transaction, of which the counter's row allows one. `Numbered` is proved of
`StockBook` and carried over by `Implementation`. So is `Conserved`, in substance: a
step is one of the book's or leaves it alone (`NextOnBook`). The pallets an order
holds are given names (`Pallets`), so what is held is the number of elements of a
union and not a fold; that this set stays finite though `Orders` need not be, and that an
order nobody placed holds nothing, is `HoldingInv`. Each step of the book adds one
order's pallets to the union or takes them out (`HeldMore`, `OrdersConserve`), and
baskets share none (`PalletsOfOrders`).

`SettingsCacheProofs` proves of `SettingsCache`, for any processes and requests
and from `CacheAssumption` alone, `TypeCorrect` (`TypeOK`), `Fresh`
(`AnswersCurrent`), `OneQuery` (`SingleFlight`) and `Joinable`
(`LoadingInFlight`). Its invariant adds that whoever started a query waits for it
(`Owners`), that `loading` names the one query of the present generation
(`LoadingCurrent`), that cached rows, and rows a query of the present generation
brings, are as new as the last invalidation (`RowsCurrent`), and that a query's
rows are new enough for everyone who waits for it (`Waiters`): a read joins only
queries of the present generation. Three lemmas carry the actions: a change of
one request (`RequestInv`), a query that starts (`StartQueryInv`), a query that
goes on (`QueryInv`).

`OrderSettlementProofs` proves of `OrderSettlement`, for any orders, payments,
requests, prices and delivery prices, from `SettlementAssumption`:
`SettlementTypes` (`TypeOK`), `CreditedOnce` (`SettledOnce`), `OrdersFollowFlow`
(`FlowRespected`) and `PaymentsImplementBook` (`ImplementsPaymentBook`). That every
status change is a step of one of the two flows is all `FlowRespected` says: `change`
reads `deliveryRequested` before its transaction and its UPDATE repeats only the
status, so a delivery change in between lets a step of the other flow through. The
second half of `OrdersFollowFlow` says that this is the only way: an order whose
delivery nobody changes (`DeliveryKept`) takes steps of its own flow alone. The
invariant adds to these what stale reads may rely on: what a request in flight has
read names rows that exist and a step the flow knows (`RequestsKnown`), a payment
belongs to an order that exists (`PaymentsKnown`), and an order has one open
payment (`OneOpen`), without which a settled payment could be credited twice. Every
action is shown in one lemma to keep the invariant and to be a step of the book or
none. `DebtFollowsTotal` (`DebtMatchesTotal`) and `CancellationReverses`
(`CancelReversesDebt`) assume `OneModerator`, that one delivery change is under way
at a time: with it the total a moderator has read is still the order's
(`ModeratorCurrent`). The run `debt_two_moderators` shows that the assumption is
needed.

The other four promises that the runs of section 7 refute are proved of the behaviours
that leave out one kind of step, so the race in TLC's trace is the only one there is:

| theorem | property | holds as long as |
| --- | --- | --- |
| `CancellableWhileDelivered` | `CancellableUntilDeparture` | no delivery change makes an order that searches transport, or is being sent there, one to pick up (`DeliveriesStay`) |
| `MoneyAccountedUncrossed` | `MoneyAccounted` | nothing closes a payment in another way between a PAID webhook's read and its settling (`Uncrossed`) |
| `PaidOnceByOneStart` | `PaidOnce` | no two starts have both found one order without an open payment (`OneStart`) |
| `CreditedAtKeptAmounts` | `CreditedWhatWasPaid` | the amount of an opened payment is not rewritten (`AmountsStay`) |

Each condition is one the code could establish, and none is a property of the rows
alone: crashes, repeats, switches of method, other orders and all other races stay in.
The invariants say what is then true: an order has one payment that is open *or* paid
(`PaidInv`, where the index guarantees only one that is open); what the provider was
given is the payment's amount, a reference or an event comes after it, and what
requests have read of an amount is current (`AmountsKnown`, `AmountsRead`).

`BrowserProofs` proves of `SessionTokens` and `CartTabs`, for any accounts,
requests, tabs and products, `SessionStaysTheUsers` (`SessionIsUsers`),
`TemporaryPasswordsAreForced` (`TemporaryIsForced`), `CartKeepsWhatIsWanted`
(`WantedKept`) and `CartIsOrderedOnce` (`OrderedOnce`), and in `BrowserKeeps` that
all of them and `BrowserTypeOK` hold of the two side by side. The session's
invariant adds that a refresh in flight is the user's unless it was overtaken
(`FlightIsUsers`): the answer is written to the store without looking at what is
there. The cart's adds that two orders under way share only excused products
(`SharedExcused`), that an order on its way to the server repeats only excused ones
(`RepeatsExcused`), and that what was ordered is still in the cart only while its
order is under way (`OrderedLeaves`). TLC checked both invariants with the constants
of the run `browser` before they were proved.

`FileProofs` is about files and the rows or mirrors that speak of them.
*`ImageFiles`*: `NoBrokenPicture` (`RowsHaveFiles`) and `OrphansHaveReasons`
(`OrphansExplained`) for any rows, files and requests. A file has one owner at any
moment: it is named by one row (`NamedByOne`) or held by one request (`HeldByOne`)
and then by no row (`HeldUnnamed`), nor is it anybody's old picture (`HeldNotOld`);
so a request that deletes what it holds deletes nothing a row names. The exception
in the invariant is a statement that committed and whose answer was lost: the
request believes that it failed and deletes the file the row names.
*`BackupRuns`*: `MirrorIsTheCopy` (`MirrorHolds`) and `ForcedIsSent`
(`ForcedSends`): a copy is complete once all tables are read, the mirror grows into
it value by value, and until a run writes the mirror holds what was sent last.
*`ContractDesk`*: `SentContractsAreThere` (`ContractsDownloadable`), from what a
request has behind it at each step (`DeskStaged`).

`AdministrationProofs` is about the two phone tables, the leads and who looks after
whom. `PhonesAreOwnedOnce` (`PhoneOwnedOnce`): a request that has passed the other
table still finds the number free there, or the number is recorded as crossed
(`ClearedFree`); its own table has a unique index (`UniqueInTable`).
`LeadsAreMadeOnce` (`LeadOnce`): while the window holds a lead, only forms that an
insert passed have searched and not written (`LeadInv`). `FirmsKeepTheirManager`
(`FirmsLookedAfter`) and `SalesKeepTheirManager` (`SalesLookedAfter`): what a request
does not write is what the row still says, unless another request of the same
customer wrote in between (`Founded`); the manager it has checked suits until he
leaves (`Checked`); a row is created by one request (`Alone`).

`NotificationProofs` is about what is told. `NothingIsDropped` (`NothingDropped`): a
change owed to the tab is newer than `since`, than what every open poll asks from,
and than the `serverTime` of every answer that found nothing, so no order of answers
loses it. `LoopsReachAll` (`ReachesAll`): who is owed a message is active and ahead of
the loop's cursor (`OwedAhead`), so that a short batch, which ends the loop, leaves
nobody. The batch is the `Chunk` smallest customers past the cursor; that it exists and
what it leaves are the lemmas `LowestPart` to `LowestOne`, and that a finite set of
numbers has a smallest and a largest member (`Smallest`, `Largest`) comes from the
well-foundedness of inclusion on finite sets. The proof needs that `Loops` is finite,
as `BroadcastAssumption` says: the process has run for a finite time.
`ProductsAreAnnouncedOnce` (`AnnouncedOnce`) rests on the claim of the product's row,
`NoticesAreOfCommittedChanges` (`NoticeOfCommitted`) on what a handler holds between
the commit and the last send (`NoticeInv`).

`OfficeProofs` carries all of these over to `MCOffice`, where the services stand side
by side (`OfficeTypes`, `OfficeKeeps`): a step of the office is for each service one of its own
or none (`StepOfEach`).

It also proves of every price and every set of rules of `PriceQuotes` that rounding is
to the nearest, halves upwards (`RoundingIsNearest`), that a percentage never makes
a price zero or negative (`PercentKeepsSign`), that the most specific level with a
rule decides (`MostSpecificRule`), that product rules do not touch what a delivery
costs (`DomainsApart`) and that the vehicles hold the pallets and one fewer would
not (`VehiclesSuffice`). Of the totals of orders of any size it proves that a total is
no smaller than any of its lines or the delivery (`TotalCoversLines`, which is why
`calculator.service.ts:78-79` checks the total only), and that a customer whose rules
are all discounts never pays more than one without rules (`DiscountsNeverRaise`):
neither the rounding of every line nor the least price turns a discount into a
surcharge. The totals are the library's `SumFunction`, a fold; that it has the value its
recursion says (`SumUnfolds`), whichever term comes first (`SumOfOne`), rests on the
table of the sums of all subsets: every finite set has one (`SumsExist`), two agree
where both speak (`SumsAgree`), both by a smallest set without (`MinimalSubset`).

Every invariant and every action property of the passing runs is a theorem. Only
model-checked are the liveness properties (`RequestsEnd`, `PaidLeavesPending`,
`TokensCatchUp`, `MirrorCatchesUp`, `NoticedOrDropped`), which are out of this prover's
reach under fairness, and the comparisons of `PriceQuotes` with a reference on every
bounded input (section 4). The properties of section 7 do not hold as they stand; what
each needs is proved above.

## 7. Where the code and its words differ

Each is a run TLC ends with a counterexample; `PROJECT.json` quotes the lines.

* `cancellable` - `setDelivery` accepts pickup for an order in
  SEARCHING_TRANSPORT. The pickup flow gives that status no successor: the order
  can be neither finished nor cancelled, and keeps its pallets.
* `paid_once` - `start` reads the payments before its transaction. When the
  pending one is closed in between, the partial unique index sees no PENDING row
  and lets a new one in; an order can be paid twice.
* `credited_what_was_paid` - `setDelivery` changes the amount of a payment the
  provider has already been told; the account is credited an amount nobody paid.
* `money_accounted` - when `settle` matches no row the webhook answers DUPLICATE,
  also when the row was cancelled a moment ago; no warning is written.
* `debt_two_moderators` - two delivery changes started from the same total both
  add their difference to the account.

These have no run of their own. Where a ghost is named, it is the exception a
property makes, and without the exception TLC finds that property violated:

* "never dropped" (`updates.service.ts:15-17`): a row is stamped before it commits;
  one that commits after a query whose `serverTime` its stamp does not pass is asked
  for by no later poll (`late` in `NothingDropped`).
* "the two cannot be found at once" (`auth.service.ts:207-210`, of a phone in both
  tables): each of two requests looks in the other's table before either writes
  (`crossed` in `PhoneOwnedOnce`).
* "to all active customers" (`notification.service.ts:199`): when the customer the
  cursor stands on is switched off between two batches, `skip: 1` passes over
  somebody else (`shifted` in `ReachesAll`).
* After a write of the mirror that stopped half way, a run that reads the copy sent
  before it answers UNCHANGED and leaves the mirror as it is (`damaged` in
  `MirrorHolds`); `force` is the way out.
* `customers.service.ts:33-37` says the JWT guard refuses an account that is
  switched off; `jwt.strategy.ts:24-26` does not look at the row. An access token
  lives out its 15 minutes, which is what `TokensCatchUp` promises.
* A logout or a login does not take back a refresh in flight: its answer is written
  to the store, and the session is again the one that was left. Nor does a login take
  back a logout: when a refused refresh ends the session while `POST /auth/logout` is
  unanswered, the user can enter again, and the late answer's `finally`
  (`session.ts:81-83`) clears the new session (both `overtaken` in `SessionIsUsers`).
* An order whose delivery is changed between the check of a status change and its
  UPDATE takes a step its flow no longer has (`order-status.service.ts:87-108`);
  `FlowRespected` allows either flow, section 6 has what holds of the order's own.
* `force` joins a run that is going on, which was not forced and may answer UNCHANGED
  (`joined` in `ForcedSends`).
* Two forms with one message that have both searched before either wrote make two
  leads (`passed` in `LeadOnce`).
* Two replacements of one row's picture that cross leave the file of the first on the
  disk, named by no row, as does a write or a delete of a file that fails (`leaked`
  in `OrphansExplained`).
* A password reset between the check and the UPDATE of `changeWholesalePassword` is
  overwritten: the customer keeps the password he chose, and the one the admin was
  shown does not work. `TemporaryIsForced` still holds.
* `cart-store.ts:19-20` lets tabs agree through the `storage` event; a tab that
  writes before it has heard loses the other's lines (`Overwritten`).
* A manager who is moved or switched off keeps his customers and orders, though
  `customers-admin.service.ts:259-262` cuts the link, for the same reason, when the
  customer moves (`parted` in `FirmsLookedAfter`).
* A statement whose answer is lost makes the service delete the file the row now
  names (`lost` in `RowsHaveFiles`).

## 8. Not modelled

Statistics and lists (reads), CRUD of single rows with nothing to race, the HTTP
layer (filters, interceptors, validation: no state), the pages of the dashboard and
the storefront. The storefront's query store reads and never invalidates; its one
write is the form of `LeadDesk`. Its client clears its time limit when the headers
arrive (`client.js:95`), so a body that stalls is waited for, and joined, for ever;
there is no state to check beyond that.

Of modelled components these are left out, as said in the modules: the 30 days of a
refresh token, and a reload while a form is being answered; roles and branch scopes;
which branches are open; the update of a lead (one statement); rows inside a table
of the backup; the order of a product's media; the pallets of a cart line and a
browser that refuses to store; the refusal of amounts a column cannot hold; manual
entries of the account and its cached sums; the inbox and what it marks as read; the
dashboard's queues for bulk prices and uploads, which send one request at a time.

A picture of an announcement whose row could not be written stays on the disk
(`announcements.service.ts:132`): nothing there cleans up, so there is no order of
steps to check. A moderator's stock entry is absolute and may overwrite reservations
made since he looked; the repository does not say which should win, so no property
does.
