# Warehouse OS: a TLA+ verification of its core

Warehouse OS runs the stock, the counter and the books of a spare-parts shop. A
NestJS API over PostgreSQL (`src/apps/api`) is the only place where state
changes; workers use an Android app that works offline (`src/apps/android`),
cashiers and managers a web application (`src/apps/web`), and customers a shop
on the internet whose database is another one (`src/apps/site`,
`src/storefront`, joined by `src/apps/api/src/sync`).

This directory models the parts of that system where concurrent requests, lost
answers and restarts can make stock, goods or money appear or disappear.

| module | what it is |
|---|---|
| `StockRequests` | the requests that change the stock: rows, lines, order of statements |
| `AtomicStock` | what their callers rely on: each request happens at one instant or not at all |
| `StockLedger` | how the code does it: statements, row locks, READ COMMITTED |
| `PendingOperations` | captured operations, their review, their photos |
| `OfflineSync` | the phone's outbox and its drains, in front of `PendingOperations` |
| `WorkTasks` | a task, the workers' phones and the requests that tick its items |
| `InvoiceDocuments` | what returns, corrections, adjustments and cancellation do to an invoice: pure operators |
| `AtomicInvoice` | what these documents promise together: each at one instant, and once |
| `InvoiceLines` | how the code does it: precheck, row lock, unique key, repeated requests |
| `CustomerAccount` | debts, receipts, cheques, payouts and vouchers of a customer |
| `SiteOrders` | the database of the site, that of the shop, and the agent between them |
| `PrintJobs` | labels that wait to be printed |
| `ProductRequests` | products that workers ask for, in front of `PrintJobs` |
| `Quotations` | sheets of prices that are edited and sold |
| `MC...` | instances of the above for TLC |
| `StockLedgerProofs`, `OfflineSyncProofs`, `WorkTasksProofs`, `InvoiceLinesProofs`, `CustomerAccountProofs`, `SiteOrdersProofs`, `ProductRequestsProofs`, `QuotationsProofs` | theorems and their proofs |

To check a run: `tlc -workers 2 -config StockDelta.cfg MCStockLedger.tla`. To
check proofs: `tlapm StockLedgerProofs.tla`. `PROJECT.json` lists every run, the
mutant that each property catches, the lines each definition models, the
theorems, the findings and the hazards.

## 1. Inventory

### Components, their state and how they interact

* **Inventory operations** (`inventory-operation.service.ts`,
  `common/lock-order.ts`). State: one row of quantity per product and location,
  and an append-only log. Every change of the stock in the API goes through
  `execute`, alone or inside the transaction of a document. Seven types: IN
  (which first sets negative rows of the product to zero), SALE and RETURN,
  OUT, TRANSFER, ADJUST, and amendments made of the former. Hard: many
  transactions share rows; some statements are conditional, some use a value
  read before. Correct when stock and log agree, when no withdrawal takes what
  is not there, and when documents do not deadlock.
* **Sales documents, purchases** (`sales/*.service.ts`,
  `purchases/purchases.service.ts`). State: invoices, returns, corrections,
  adjustments. They call inventory operations line by line
  in lock order inside one transaction, under the row lock of the invoice.
  Correct when no more of a line can be returned, corrected or put back than is
  outstanding, whatever the order of the documents.
* **Customer account** (`ledger`, `receipts`, `payouts`, `cheques`,
  `payment-reversals`, `payments-recompose`, `open-accounts`, `vouchers`).
  State: an append-only ledger per customer, due amounts per invoice,
  allocations, cheques, double-entry vouchers. Correct when ledger, due amounts
  and vouchers tell the same debt after concurrent receipts and cheque events.
* **Pending operations** (`pending-operations.service.ts`). State: one row per
  captured operation (PENDING, APPROVED, REJECTED), linked to the log row it
  became. Phones create rows in batches; managers approve (one conditional
  update, the claim, and then an inventory operation in a transaction of its
  own), approve in bulk or reject. Hard: the claim and the commit are two
  transactions, and reject is a check and an unconditional update.
* **Uploads** (`uploads.service.ts`). The photo of a captured operation comes in
  a request of its own and has to end on the log row of the operation.
* **Phone outbox** (`OutboxRepository.kt`, `OutboxDao.kt`, `SyncScheduler.kt`,
  `SyncWorker.kt`). State: one row per captured thing (PENDING, FAILED, SYNCED).
  A periodic job and one that is asked for after every capture drain it; the
  system may cancel them anywhere. The answer of a request may be lost.
* **Work tasks** (`work-tasks.service.ts`). State: a task, its items, who ticked
  them. Ticks come from phones in batches; ticking an item of a PUTAWAY task
  moves its goods with a TRANSFER in the same transaction. The status of the
  task is computed from the items afterwards, in two further statements.
* **Site synchronisation, storefront orders** (`sync/*`, `storefront/*`). Two
  databases: an agent in the shop pulls orders, pushes the seller's decisions,
  and pushes the catalogue with its stock, every two minutes.
  Correct when no order is lost or invoiced twice, no goods are promised twice, and
  what the staff decides comes to show on the site.
* **Quotations** (`sales/*quotations.service.ts`). State: sheets with lines, totals and a
  status (ACTIVE or OPEN/PRICED, CONVERTED, CANCELLED). Converting one sells it
  under a key made of its id, and marks it in another transaction; edits check
  the status before their transaction. Correct when a sheet is sold once and for
  what it shows.
* **Print jobs, product requests, SMS**. Small queues with a check and a later
  update, or a call to an external device, in the middle. Approving a product
  request is a claim and then six awaits that each may fail.
* **Locations**. A tree; deleting a branch first empties it with stock requests.
* **The rest**: search, matching of spoken text, catalogue, labels, imports,
  reports, authentication, backups, realtime notices and the user interfaces.
  They read, edit single rows, or do I/O.

Components meet in the database: they call one another inside one transaction
(documents and ticks call inventory operations) or one after the other
(approving claims, and then commits stock). Clients meet the API by HTTP
requests that may be repeated; the phone's `clientRequestId` names what is
repeated.

### What is hard

Nothing in the code runs in parallel within a process, but every `await` lets
another request run, and the database runs statements of open transactions side
by side. So a value read in one statement may be stale in the next; a check and
an update in two statements may be separated by another request's update; a
restart can fall between two transactions of one handler; and a phone that got
no answer sends the same thing again, possibly while the first copy is still
being served. `PROJECT.json` lists these places under `hazards`, each with the
properties that watch it and, where the code does go wrong there, a note.

## 2. The models

A step of a model is one statement (stock, accounts) or one await (handlers):
whatever the code does between two awaits is one action, and every handler can
be interrupted between two actions. Texts, names and wording are left out.
Validation whose result does not depend on the state is left out too: the
requests the models receive are the ones that pass it.

Some modules keep *history* variables beside the state. They record that a race
which the code does not prevent has happened to a row (two calls clashed on a
cheque, an edit met a conversion). A property then says that the rows to which
it has not happened are right, and so that this race is the only way to get
them wrong. Nothing in a model reads a history except the properties.

### StockRequests, StockLedger, AtomicStock

A row is a cell `<<product, location>>`; a missing row counts as zero, as every
reader of the code has it. A request is its kind and the passes of its
transaction: a pass is a set of statements that the code executes in lock order.
`Invoice`, `Receipt`, `Withdrawal`, `Transfer`, `Count`, `Adjustment` and
`Amendment` translate what the callers of `execute` do. `RECEIVE` stands for the
three requests that only add (RETURN, purchase lines, IN without clearing).

`StockLedger` has PostgreSQL at READ COMMITTED under them: `inventory` and
`ledger` (the sum of the log of a row) are what is committed, `dirty` and
`logged` what the owner of the row lock wrote. A conditional update waits for
the lock only when the version it sees qualifies, and looks again afterwards. A
plain read takes no lock. Deadlocks happen and are broken by aborting one
transaction; any request may also fail by itself.

| code | action |
|---|---|
| `execute` opens or joins a transaction | `Begin` |
| `upsert` with increment or decrement, and the log | `ExecAdd` |
| `updateMany` where quantity >= n | `ExecTake`, and `TakeFails` (INSUFFICIENT_STOCK) |
| ADJUST: `findUnique`, then `upsert` | `ExecRead`, `ExecSet` |
| `zeroOutNegatives`: `findMany`, then an update per row | `ExecNegatives`, `ExecSet` |
| end of the transaction | `Commit`, `Abort`, `BreakDeadlock` |

`AtomicStock` knows of no statements or locks: `Perform` changes all rows of a
request, stock and log, at one instant, or `Refuse` changes nothing. The
property `ImplementsAtomicStock` says that `StockLedger` implements it, with
`stock <- inventory`, `booked <- ledger`, `asked <- request`.

### PendingOperations

Rows of captured operations and the handlers that serve requests: `sync` (a
batch, item by item, also the direct path for a manager's phone), `approve` and
`approveMany`, `reject`, and the upload of a photo. A handler is a record with
the await it is at, its item and the items it has left. Every path of the code
is there: the item that already exists, the unique key that makes the second
create fail, an operation that is not approvable, the lost claim, the failing
commit and its release, the failing link, the label that is queued on a
best-effort basis, and the photo that is a duplicate. The commit of the stock
is one step, because it is one transaction of `StockLedger`. `MaxErrors` counts
failing calls and `MaxCrashes` restarts; both only bound the state space and are
arbitrary in the proofs.

### OfflineSync

Extends `PendingOperations` by one phone: the outbox rows and the jobs that
drain them. `Deliver` puts a request into a handler of the server, `Success`
takes its answer, and `CutOff` ends a drain at any point without the server
noticing (`HangUp`). Marking is row by row as in the code, so that a drain can
be cut off between two rows and another drain can run in between. Requests for
product creation, barcode links and blank quotations use the same queue but are
sent one by one and independently; they are not modelled.

### WorkTasks

One task (PICK or PUTAWAY, chosen in `Init`), the ticks its workers make, and the
handlers of `POST /work-tasks/sync`. `Claim` is the transaction with the claim
and, for the winner, the transfer; it is the only action that changes `ticked`
and `moves`. `Count` and `WriteStatus` are the two statements of
`refreshStatusAndNotify`. `TakeGoods` is any other operation that takes the
goods from the staging location, which makes the transfer, and with it the
claim, fail. Every item of a PUTAWAY task has a staging location, which is what
the purchases service creates. A phone may have several requests under way,
because its drains overlap. The rows of a drained batch are updated in one step
here: `OfflineSync` has the steps in between.

### InvoiceDocuments, InvoiceLines, AtomicInvoice

`InvoiceDocuments` has the computation of each document as an operator from an
invoice to an invoice: `Returned`, `Corrected`, `Adjusted`, `Cancelled`, and the
checks before them (`Returnable`, `Correctable`, `Adjustable`, `Cancellable`). A
line is a SALE log with what corrections and returns add up to; `out` is the
ghost that follows the goods themselves. The money of the invoice has the
amounts that the code stores, and what it put on the customer's ledger.

`InvoiceLines` has the requests under them: the check for an existing document
of the key (`AnswerExisting`, `NotYetThere`), `SELECT ... FOR UPDATE` and the
reads (`LockInvoice`), the writes with the commit (`Commit`), a failing check
(`Refuse`), and the unique index that stops a copy that was slower
(`AnswerDuplicate`). `SettleAccount` and `PayAtCounter` are what other services
do to the invoice in between. `AtomicInvoice` knows of no lock: `Perform` is a
document at an instant, once for each key. Its variables are the first three of
`InvoiceLines`, so that the refinement is the identity.

### CustomerAccount

One customer with invoices and cheques, and calls in transactions of their own
at READ COMMITTED. A receipt reads the debts (`ReadDebts`), the balance
(`Accept`), and pays invoice after invoice, oldest first, by a conditional
difference (`Allocate`); `Settle` is its last part and the commit. A call on a
cheque reads it (`Load`), looks at the room of the invoices (`ReadRooms`), moves
their due amounts (`Shift`) and commits with the voucher of its event
(`Deposit`, `Bounce`, `CashFromHand`, `CashBounced`). A payout locks the customer
(`LockCustomer`) and pays (`PayOut`). Sales, reversals and new splits of a receipt
(`Sell`, `ChangeDue`, `Reverse`, `Recompose`) are single steps: they commit under
the row locks they take first. Row locks are kept to the commit; what a
transaction has moved is in `moved` until then. `ledger` is the sum of the
customer's ledger and `book` that of the voucher lines, for the two accounts that
the reconciliation compares. `Rollback` is any failure, deadlocks among cheque
calls included.

### SiteOrders

Two databases and the agent, which alone makes calls: `Pull`, `Land`, `Issue`,
`Link`, then `Ack`, the push of statuses and the push of the catalogue. A call
can fail before, in the middle of or after the work of the site (`Broken`,
`TimesOut`), and one that timed out may be served later (`ServedLate`). The agent
may stop anywhere (`Stops`). Staff decisions are a read and a write
(`AdvanceReads`, `CancelReads`, `Writes`), as are the placing of an order
(`Check`, `Place`). No sale of the shop stops for want of goods: `createInvoice`
sells with `allowNegative` (`sales/sales.service.ts:549-565`), for an order
(`Issue`) as at the counter (`CounterSale`). So the quantities, and what the
catalogue offers of them, are integers that may be negative.

### PrintJobs, ProductRequests

`PrintJobs` has one job per product, and the clerks that confirm and cancel it;
it is a module without `Next`, made to be composed. `ProductRequests` extends it:
approving a request claims it, finds a number and looks up the box, creates the
product, books its first goods, queues the labels (`Enqueued` of `PrintJobs`) and
links the request. Each is one await that may fail, and the catch gives the
request back (`Undoes`).

### Quotations

Both kinds of sheets. A conversion reads the sheet, looks for an invoice with the
sheet's key, sells and marks, in four steps. An edit reads the status, and then
has two steps in its transaction, the statements that find the old lines
(`Enters`) and the commit (`Updates`, `Saves`): two edits can meet between them.
Lines are named by the edit that wrote them, and totals by the edit that
computed them, so that "these are the totals of these lines" is an equation.

A blank sheet has rows, and `price` says what is known of the price of each: it
is `unpriced` (no `pricedAt`), `priced` (a `pricedAt` and a `finalPrice`) or `null` (a
`pricedAt` without a `finalPrice`, which is what savePrices writes when it is sent a
null). savePrices removes, prices, clears and adds rows in one call (`SavesRows`).
The status PRICED and the guard of `convert` look at `pricedAt` only
(`Unpriced`), and the invoice charges `finalPrice ?? 0` (`Priceless`), so that
`PricedIsPriced` is about the one and `NothingGivenAway` about the other.

## 3. The runs

| run | shows |
|---|---|
| `stock_delta` | for all requests that write differences (sales, receipts, withdrawals, transfers, amendments), every transaction is one atomic request of `AtomicStock` |
| `stock_all` | with ADJUST and counting too: stock and log part only by a request that overwrites what it read; no deadlock among documents in lock order; only a sale or its amendment lowers a row below zero; every request ends |
| `review` | an operation is committed at most once and stays committed; a claim whose commit fails is released |
| `sync` | what a phone takes for synced is stored while no call fails; what it captured gets to the server, is discarded or is shown as failed |
| `work_tasks` | goods move once and exactly with the tick; OK goes to the winner; COMPLETED tasks are done |
| `invoice_lines` | no line is taken back below zero; lines account for the goods; the due amount covers the ledger; a cancelled invoice is closed; documents and their repetitions are those of `AtomicInvoice` |
| `customer_account` | no invoice is paid twice or owed beyond its price; ledger and vouchers agree; a credit is paid out once; the account of cheques is the cheques in hand |
| `site_orders` | no order is lost; its goods stay reserved until they are sold; decisions come to show on the site |
| `product_requests` | one product for each request, on the shelf and known by its box; labels printed once, by jobs that somebody works on |
| `quotations` | a sheet is sold once, for what it shows and at a price for every row, stays converted, and is not sold once cancelled; totals and statuses are those of its lines and rows; a conversion that broke off is completed by the next |

Two runs find a disagreement between the code and what the repository says.

| run | what happens |
|---|---|
| `invoice_putback` | a correction takes pieces back to the stock; cancelling the invoice puts back all that was sold, those pieces again |
| `site_oversell` | two customers find the last piece before either order is placed: both get it |

The type invariants of the modules that have proofs, and `LedgerMatchesStock`,
`SyncedMeansDone`, `WalkInIsSettled` and `DecisionSurvivesPull`, were checked by TLC
on these instances and are now proved for all constants; they are in no run any
more.

### Bounds, and why they are enough

* Stock: two requests at a time, three in a behaviour, one product on two
  locations, quantities of at most one, one row in debt from the start. Every
  conflict of the code is between two transactions on one or two rows: a third
  request shows what a state left behind does later. Lock order is by product and
  then location, so that two rows of one product exercise the tie.
* Review: an IN and a COUNT, two handlers, batches of up to two (also the same
  operation twice), one failing call, one restart. Any of the races needs two
  handlers on one operation; the second operation shows that loops go on.
* Sync: one operation, two drains, two handlers, one of each kind of trouble.
* Work tasks: two items, three ticks by two workers, two handlers, two troubles,
  so that a repeated batch can meet both its first copy and another failure.
* Invoice: one line of two pieces, sold for cash, on credit, on an open account
  and without a customer; two requests at a time and three keys, so that a third
  document sees what two that met have left; at most three SALE logs (`MaxLogs`).
  The twelve documents have one line of each kind, a defective return, a changed
  price, an addition that outweighs a return, and a manual amount.
* Account: two calls at a time, five documents in a behaviour (`MaxCalls`), two
  invoices of 1 and 2, amounts up to 2, one cheque with and without a charge. A
  cheque needs up to four calls from sale to the last cashing; two invoices are
  needed for a receipt to go on to the next.
* Site: one order of one piece, one restart, one late call, two staff requests at
  a time. The shop starts with one piece and sells one at the counter (`MaxSales`),
  before or after the invoice of the order, so that the stock falls to -1. Nothing in the code relates two orders except the stock; that safety
  holds for any number of them is proved. `site_oversell` has two.
* Product requests: two requests for one box, three products (one may be left
  behind by a failed approval), two managers, two clerks, one failing call or
  restart. Names are symmetric: they are compared for equality only, and numbers
  of products are separate.
* Quotations: one sheet of either kind in a behaviour (`MaxSheets`; sheets share
  nothing but the handlers), two rows, two requests, two edits, one failure. Two rows
  let one call price a row while the other adds one.

Symmetry is used for handlers, keys and names that are compared for equality
only, and only in runs without liveness properties.

### Deadlock checking and fairness

`Review.cfg` checks for deadlock. The others say `CHECK_DEADLOCK FALSE` because
their systems really stop: the bounded requests are served, everything is sent,
and the bounded troubles are used up. Deadlock among database transactions is a
property (`LockOrderHolds`) or an action (`BreakDeadlock`, `Rollback`).

Four runs state liveness.

* `FairSpec` of `StockLedger`: a transaction that can go on does, which the
  database and Node's event loop do, and PostgreSQL breaks a deadlock (its
  detector does after a second). Nothing is assumed of requests or failures.
* `OSFairSpec` of `OfflineSync`: the server serves what reached it, the phone's
  periodic job runs again and again (WorkManager), calls return or time out, and,
  as strong fairness of `Deliver`, a request that can reach a free handler again
  and again does at last, since the real API has no limit on handlers. Nothing is
  assumed of workers or managers.
* `FairSpec` of `SiteOrders`: the agent goes on (`setInterval`), weakly; strongly, an
  order that can land again and again does, and a call of each kind that is made
  again and again is answered at last. Without the last two the connection may
  break every time, and nothing gets through. Nothing is assumed of customers and
  staff.
* `FairSpec` of `Quotations`: a request that is served goes on, weakly.
  `RetryHeals` speaks of a conversion that has begun when no failure is left.

## 4. What is proved

For all values of the constants, by TLAPS:

| module | theorem | statement |
|---|---|---|
| `StockLedgerProofs` | `TypeCorrect` | `TypeOK` |
| | `OnlyOverwritingParts` | with every kind of request, stock and log of a row are moved apart only by the commit of a request that overwrites |
| | `LedgerCorrect` | stock and log agree, as long as clients send neither counts with clearing nor ADJUST |
| | `NegativeOnlyBySaleHolds` | only sales and their amendments lower a row below zero |
| | `TransactionsAreAtomic` | `StockLedger` implements `AtomicStock` (`ImplementsAtomicStock`), as long as clients send neither counts with clearing nor ADJUST |
| | `LockOrderPreventsDeadlock` | any finite number of invoices, receipts and withdrawals never deadlock among themselves |
| `OfflineSyncProofs` | `TypeCorrect`, `CommitsOnce`, `CommitStays` | of `PendingOperations`: types; at most one commit per operation; a commit is final |
| | `FailedClaims` | of `PendingOperations`: `FailedClaimIsReleased`, an approved IN nobody is approving has its stock while at most one call fails |
| | `PhoneTypeCorrect` | of `OfflineSync`: `OSTypeOK` |
| | `SyncedIsStored` | what the phone counts as synced is stored at the server, while no call of the server fails |
| | `PhoneImplementsSender`, `DrainsCommitOnce` | the phone and the server implement the server with arbitrary senders, so that an operation is committed at most once behind any drains |
| `WorkTasksProofs` | `TypeCorrect`, `GoodsFollowTicks`, `NoTickIsLost`, `OneWinner`, `CompletedTasksAreDone` | the invariants of the work tasks |
| `InvoiceLinesProofs` | `TypeIsInvariant`, `LinesStayAboveZero`, `GoodsAreAccountedFor`, `LedgerIsCovered`, `WalkInStaysSettled`, `CancellationIsFinal` | the invariants of an invoice, for every sale and set of documents |
| | `Refinement` | `InvoiceLines` implements `AtomicInvoice` |
| `CustomerAccountProofs` | `TypeIsInvariant`, `DueStaysWithinPrice`, `LedgerAndVouchersAgree`, `CreditIsSpentOnce`, `ChequeAccountIsInHand` | the invariants of the account |
| `SiteOrdersProofs` | `TypeIsInvariant`, `NoOrderIsLost`, `GoodsStayReserved`, `PushedDecisionsShow`, `PullsUndoNothing` | the safety of the synchronisation |
| `ProductRequestsProofs` | `RequestsTypeCorrect`, `OneProductForEach`, `ApprovedOnShelf`, `BoxIsKnown` | the invariants of the product requests, for any number of managers |
| | `LabelsPrintedOnce`, `ProcessingServed` | the invariants of the print jobs, behind those requests |
| `QuotationsProofs` | `TypeIsInvariant`, `SoldOnce`, `InvoiceIsAsShown`, `ConversionStays`, `CancelledStaysUnsold`, `TotalsAreOfLines`, `PricedCountsEveryRow`, `EveryRowIsCharged` | the safety of quotations |

The assumptions are the named ones of the modules (ids are naturals, the values
for "nobody" are not members of the sets, and the like). TLC evaluates them in
every run. `LedgerCorrect` and `TransactionsAreAtomic` also assume that the kinds
with a stale read are not served; `LockOrderPreventsDeadlock` assumes finitely many processes.
Two assumptions are there for the proofs: a request without a phone is told from the
phones (`NoSenderAssumption`), and there are finitely many cheques
(`ChequeAssumption`), without which a sum of them means nothing.

The arguments:

* **Stock and log** (`Booking`). Equality of what is committed is not inductive,
  since a commit replaces the row. What carries it is that the version an owner
  wrote differs from the committed one by exactly what the owner logged, unless
  the owner's request is one that overwrites, and that every statement a request
  of another kind has still to execute logs the change that it makes.
* **Nothing oversold** (`NoOversell`). A transaction that may not oversell leaves
  every row it wrote non-negative or no lower than it found it, and has only
  harmless statements left. The row lock keeps the committed value as it was
  found, until the commit makes this a statement about two committed values.
* **Atomic requests** (`Progress`). A transaction has logged exactly the statements
  it has executed, so that at its commit it has logged all of its request; by
  `Booking` the commit changes every row by that much. A row from which a
  withdrawal or a transfer took something is not left negative, so that the
  committed row, which the lock kept as it was, held enough. Every other step is
  a stutter of `AtomicStock`, or its `Ask` or `Refuse`.
* **Lock order** (`Ascending`). A document walks once, and the rows it has locked
  do not come after the rows it has still to lock. If all of a set of documents
  waited for one another, the set of rows at or after the one that a document
  waits for would shrink along the waits for ever, in a finite set.
* **One commit** (`IInv` of the review). A row is owned by at most one handler, the
  one whose claim succeeded; the owner's place in the code tells whether the
  stock is committed; and an operation that is in the queue has none. The two last
  are needed because the claim and the commit are different transactions and
  because reject and the release write without looking.
* **Failed claims** (`FailuresKnown`). The property counts failures, which is not
  inductive by itself. It becomes so when one adds that nobody is about to release a
  claim before a call has failed: an approval reaches its release only by a failed
  commit, so a release that fails as well is the second failure.
* **Phone**. Each step of the composition is a step of the server with some
  sender, or leaves the server alone: this is a refinement by a projection.
* **Nothing synced is lost** (`OSInv`). A drain marks its batch when the answer is
  there, so what matters is what a request has still to do: each item of the batch a
  drain waits for is stored, or is the request's item, or is in its queue
  (`WaitsForIt`), and an answer is given with an empty queue (`SyncsInOrder`). The
  request of a drain is the only one it has (`OneRequest`), so that a late answer
  to a request that was cut off marks nothing. Rows of the server are never removed.
* **Work tasks** (`IInv`). Ticks are never taken back (`TicksStay`), so what a
  request knows of them stays true while others run: its answers, that it lost a
  claim, and that the count it will write was COMPLETED. That is why an old
  count may make the status wrong but never COMPLETED with open items.
* **Invoice** (`IInv` of `InvoiceLinesProofs`). A request that writes holds the lock
  and has read the invoice as it still is (`LockOK`), so that each document is a
  step of the atomic specification. The rest is arithmetic: every document keeps
  each line (`LineOK`) and the money (`MoneyOK`) right. `MoneyOK` is stronger than the
  property: the total not paid yet covers the ledger as well as the due amount
  does, which a difference paid on the spot needs.
* **Account** (`Shape`, `Moves`, `Keys`, `Credit`). Only one open transaction has moved
  an invoice (`Locks`), and an invoice is within its price with and without that
  move (`Fits`). A receipt's condition is evaluated under the lock. A cheque's call
  uses what it has seen; that is still what is due, because whoever changes an
  invoice ahead of it is recorded as having overtaken it (`SeenIsDue`). The ledger
  and the vouchers agree because the keys of a cheque's vouchers follow its status
  (`Keyed`), so that the row and the posting happen the same number of times. A
  credit is spent once because a payout holds the customer's lock.
* **Account of cheques** (`Held`). A key has one voucher, a cheque in hand has not been
  deposited, and the amount a call has read is still the cheque's. So each commit
  moves the account by the amount of the one cheque that joins or leaves those that
  count, in hand or left behind. The laws of the sum (`TotalWithout`, `SameTotal`)
  are proved for every finite set from the recursive function the library defines it
  by: that function exists and is unique (`SumsExist`, `SumsAreOne`), since a smallest
  subset for which it is not would contradict the equation. This takes the place of
  an induction.
* **Print jobs** (`JobsInv`). Of a job that is not counted as reprinted there is one
  clerk at most (`OneClerk`). A clerk who has taken it, or has its labels, has left
  it in a status that nobody confirms (`TakenIsOutOfReach`), so that the claim is what
  keeps the second clerk away. A job nobody has enqueued is untouched.
* **Product requests** (`RequestsInv`). A claimed request has one claimant
  (`OneClaimant`). What a manager holds was made for that request and, past the
  booking, has its goods (`HeldIsMade`); what has been made is held, linked, or
  counted as left behind (`MadeIsKept`). A linked request has no claimant any more,
  and its box an owner (`LinkedIsThrough`); the owner is there even when this manager
  found the box taken (`TakenHasOwner`). A request that stands as APPROVED with
  nobody at it is linked, or its claim could not be given back
  (`ApprovedIsLinked`). Since the steps of the requests are steps of the jobs or
  leave them alone, `JobsInv` carries over.
* **Site** (`IInv`). Whatever a request says is true when it is served, however
  late (`Honest`): a landed order stays, an invoice stays, and a status that was
  decided anew meanwhile belongs to an overtaken order. That is why late and
  repeated calls do no harm.
* **Quotations** (`IInv`). What a conversion has read is what the sheet shows, and
  what is sold is too (`Shown`), because an edit that commits under a conversion is
  recorded. A sale that is not marked has somebody who is going to mark it
  (`Marked`). An edit that is alone in its transaction (`Alone`) deletes the lines that
  are there (`Totals`) and counts the prices that will be (`Priced`). Only a null
  gives a row its `pricedAt` without a price, so a conversion that found every row
  counted has read a price for each, and it charges what it has read (`Charged`); this
  needs nothing about overlapping saves.

### What is only model-checked

Liveness (`EveryRequestEnds`, `CapturedIsDelivered`, `PlacedLands`,
`DecisionReachesSite`, `RetryHeals`) is out of the prover's reach, as is `ENABLED`.
Every safety property of the passing runs is a theorem. `LedgerCorrect` and
`TransactionsAreAtomic` are theorems under the condition their runs have, that no
request overwrites a quantity it read earlier. An induction over data cannot be
cited, because the library's theorems take an operator as a parameter; where a sum
is needed, a smallest counterexample does the same.

## 5. Not modelled

The components that are listed as such in `PROJECT.json` with their reasons. In
the modelled ones:

* the lines of documents in print, prices with discounts, taxes and rounding, files
  on disk, tokens and roles, and requests that fail validation, which change
  nothing;
* of the account: the opening balance and manual adjustments, payouts and reversals
  by cheque, receipts of mixed money, repeated receipts (their key is the pattern
  of `InvoiceLines`), the accounts of money and goods in the vouchers, and what
  returns, corrections and cancellations put on the ledger, which `InvoiceLines`
  has for one invoice;
* of print jobs: the search for an earlier job of the same operation, and the
  jobs of other labels (`runJob` is the same print without a product);
* of the site: coupons, shipping, prices, the notices of stock, the settings of
  the connection;
* the creation of work tasks, and purchases except as stock requests;
* the other kinds of outbox rows and the queue of photos on the phone.

## 6. What the code does otherwise

The two violation runs show a disagreement each. While modelling, these were met
too. Most are races that the code does not exclude; the properties name them as
the exception (a history variable, or a condition), and so show that they are
the only way to the trouble. Line numbers are in `src/apps/api/src` unless
another place is given.

* **Stock**. ADJUST overwrites a change that commits between its read and its write,
  and so does the clearing of negative rows; the log keeps both
  (`inventory-operation/inventory-operation.service.ts:535`, `:78`).
* **Review**. The API stops between claim and commit: APPROVED without stock, and
  nothing retries it (`pending-operations/pending-operations.service.ts:376`). A
  rejection is written over an approval that has committed (`:497`). A photo stored
  while its operation is being approved never reaches the log row. The phone
  deletes an item that the server answered with ERROR (`OutboxRepository.kt:254`).
* **Work tasks**. A status computed before a cancellation is written after it
  (`work-tasks/work-tasks.service.ts:528`). Two calls that send one purchase to
  putaway both create a task (`purchases/purchases.service.ts:661`).
* **Invoices**. The order of an online customer is invoiced with the default
  settlement, cash, though it is paid on delivery (`sales/sales.service.ts:339`).
* **Account**. Two calls that read one cheque in hand both post its debt to the
  ledger, once to the vouchers (`sales/cheques.service.ts:340`). The move of a
  cheque uses the room it saw before other documents changed the invoice (`:173`). A
  payout's credit can be used up by a document that does not lock the customer. A
  cheque that bounced in hand and is cashed after all stays on the account of
  cheques (`:276`), which the reconciliation counts against those in hand
  (`vouchers/reconciliation.service.ts:78`).
* **Site**. An order cancelled by its customer before or during the pull is still
  landed and invoiced (`sync/sync.service.ts:247`,
  `storefront/storefront-order.service.ts:482`); a decision taken while a push of
  the order is on its way is marked as sent (`sync/sync-agent.service.ts:484`). An
  order is invoiced although its goods have been sold meanwhile, which leaves the
  stock below zero (`sales/sales.service.ts:549-565`); the code means it to.
* **Product requests**. An approval that fails after making the product leaves the
  product and its stock behind and gives the request back
  (`product-requests/product-requests.service.ts:284`); the link is returned without
  being awaited, so that its failure is not caught (`:279`); the phone sends a
  request without a key, and a repeated one is another request
  (`OutboxRepository.kt:437`).
* **Labels**. Two confirmations print a job twice (`print-jobs/print-jobs.service.ts:129`);
  after a restart a job stays in PROCESSING, from where no request takes it on.
* **Quotations**. Of two updates that overlap the second leaves the lines of the first
  and shows only its own totals (`sales/quotations.service.ts:303`). savePrices
  writes its status over a conversion (`sales/blank-quotations.service.ts:502`).
  A sheet that was sold and not marked may be edited, cancelled or lapse before
  anybody tries again, and then the invoice has no sheet. `update` and savePrices
  look at the status before their transaction only (`sales/quotations.service.ts:246-252`),
  so that an edit which meets a conversion, between its read, its sale and its mark,
  leaves a converted sheet that shows other lines than its invoice.
  A price of null in one call of savePrices sets `pricedAt` and no price
  (`sales/blank-quotations.service.ts:461-463`): `@IsOptional` lets it pass
  (`sales/dto/blank-quotation.dto.ts:98-102`). The sheet may then be PRICED and
  converted, and the row is sold for nothing (`:693`), though the message of the guard
  (`:669-674`) asks for a final price in every row. The run `quotations` has this case:
  `NothingGivenAway` marks such sheets (`cleared`) and claims the rest. That the code
  goes by `pricedAt` is what the schema says (`prisma/schema.prisma:2009`).

## 7. Plan

What is left, in this order:

1. More theorems: which product of several requests for one box keeps the box, that a
   cheque is cashed and posted once, and the parts of the liveness properties that
   are safety (what keeps a request from going on is one of a few named places).
2. Purchases: creation and receipt with their putaway task in a transaction of
   its own (`purchases/purchases.service.ts:661`, `:796`).
3. The queues of messages and of photos, on the pattern of `OfflineSync`.
4. The account with returns, corrections and cancellations of several invoices,
   composed with `InvoiceDocuments`.

Each new run takes the place of one that has become a theorem.
