# Verification of the Grosir Wijaya ERP

The program is a wholesale ERP: a NestJS service (`src/backend`) over PostgreSQL
through Prisma, and a React client (`src/frontend`). The state of the business is in the
database; the service keeps none. Every operation is an HTTP request that runs one
database transaction, at isolation READ COMMITTED unless noted, so what is hard is what
several transactions do to each other, and what a long sequence of legal requests does to
quantities that are recorded in several places. There are no background jobs, queues or
retries. The client keeps a session and half-filled forms, and its requests are answered
late, in another order, or not at all.

Contents: 1 inventory, 2 modules, 3 properties and runs, 4 proofs, 5 what the violations
show, 6 what is left.

## 1. Inventory

Paths are relative to `src/backend/src/modules` or, where they begin with `features` or
`store`, to `src/frontend/src`. "Correct when" lists what the properties of a component
are about; the last column names the module.

| Component | State | Operations | Hard behaviour | Correct when | Module |
|---|---|---|---|---|---|
| Sales invoices (`sales/sales.service.ts`) | `sales_invoice`, details, payments, holdings; `inventory_stock` (actual, available, packed); FIFO layers; customer summary and subledger; journal | create, update, complete, change status, process, pay, cancel, create from a loan | reservation and packing must be undone exactly by whatever undoes them; a receivable is recorded in four places; advances move when the invoice completes | counters equal what documents say; promised goods are deliverable; ledgers reconcile; final documents stay | `SalesInvoice` |
| Sales orders (same file) | `sales_order`, details, status | create, update, cancel; validation of an allocation; `syncSourceOrder` | conversions at once; status written from unlocked reads | never over-allocated; bonus not stranded; CANCELLED final; COMPLETED means fulfilled | `SourceOrder` |
| Sales returns (`sales/sales-return.service.ts`) | `sales_return`, restored FIFO quantities, invoice outstanding, refund journal | create (draft or completed), complete | locks the return but not the invoice; sums before locks; absolute writes | not more than sold; goods back once; layers not overfilled; money reconciles | `SalesReturn` |
| Stock adjustments, opname (`inventory/inventory.service.ts`) | document rows, snapshot | draft, update, approve, cancel, refresh, check | status read without lock; snapshot against a moving stock | posted once; counted stock is the stock; promised goods stay | `StockDocuments` |
| Transformation (same file) | source and result movements | create (SERIALIZABLE) | cost split, packed goods untouchable | goods conserved | `StockGoods` |
| FIFO layers (`../common/inventory`, `fifo/`) | layers | consume | order of consumption, cost of partial takings | consumed equals taken; oldest first | `FifoLayers` |
| Inventory loans (`inventory/inventory-loan.service.ts`) | loan, details, resolutions, FIFO allocations | create, update, activate, cancel, resolve (return, replace, convert, write off, recover), SERIALIZABLE | long sequences of partial resolutions | resolved never exceeds lent; borrowed goods go back from their own layer; cost revalued once | `InventoryLoan` |
| Purchase orders, invoices, payments (`purchasing/`) | order, invoice, payments, payable 2101, supplier summary | create, update, complete, pay | status of an invoice and an order read without lock; lines deleted and rewritten | received once; payable reconciles; order invoiced once | `Purchasing` |
| Purchase returns (`purchasing/purchase-return.service.ts`) | return, layer, stock, clearing account 1391 | create, update, ready, complete, cancel | stock read before lock | layers hold the stock; promises covered; within what was bought | `PurchaseReturn` |
| Financial posting, document numbers (`../common/financial`) | journal, cash accounts, number sequences | post an entry, post a movement, number a document | balance under concurrent payments; lines of zero refused | no movement lost; cash never negative | `FinanceAccounts`, `Locks` |
| Finance (`finance/`) | accounts, default per type | create, change default, deactivate, manual movement, transfer | locks taken in different orders | balances reconcile; every request answered | `FinanceAccounts` (partly) |
| Opening balances (`opening-balance/`) | opening documents | customer, supplier, inventory draft and completion | one document each; the first movement of goods | opened once | `OpeningBalance` |
| Products and units (`master-data/product`, `unit`), categories, brands | products, product units, names | form, import, rename, status | stale forms; lines matched by name | one base unit, in which stock is counted | `Catalogue`, `MasterRecords` (partly) |
| Customers and suppliers (`customer/`, `supplier/`) | rows, audit rows | create, update, inactivate, reactivate, with a warning of twins | look-up before the write, without a lock | twins confirmed; audit tells | `MasterRecords` |
| Aliases and prices (`pricing/`, `product-alias/`) | aliases under an advisory lock; prices | create, change, delete | a rename does not take the lock | a message orders what it says, or is reviewed | `OrderText` (partly) |
| WhatsApp order parser | none | reading of a line | names, aliases, units inferred from history | the same | `OrderText` |
| Authentication and sessions (`system/auth.service.ts`, guards, `store/`) | sessions; in the browser, a store and a cookie | login, logout, unlock, guard; ending by administrators | logins at once; a guard in two steps | one session, but for logins at once; only live sessions are served | `Access` |
| Users, roles, permissions (`system/`) | users, mappings, audit | create, promote, demote, disable; save permissions | rows of asker and user read before the change; overlapping saves | owners appointed; grants audited | `Roles` |
| Sales form (`features/sales`) | customer, source order, lines, import panel | choose, load, split, put off, import, save | answers that come late | answers in time; nothing ordered twice | `SalesForm` |
| HTTP layer, the other pages | none | routing, validation | | the next-state relations | partly |
| System logs and configuration, dashboard, deployment | rows, aggregates, scripts | append, list | none across rows | | not modelled |

Interactions: every stock operation takes an advisory lock and the row lock of each
`inventory_stock` it writes; operations on a document lock its row first, except where a
module says otherwise; sales invoices lock the source order when they are attached to it
but not when they synchronise it; returns call the sales service to create a replacement
invoice and complete it; loans call the sales and purchasing services to create completed
invoices; all of them post to the journal, whose numbers are serialised by an advisory
lock per day and prefix.

The hazards these give rise to are listed, each at its line, in `PROJECT.json`, with the
properties that are about them.

## 2. Modules

| Module | What it is |
|---|---|
| `Tally`, `TallyTheorems` | the sum of a function as a cardinality, without recursion, and the facts about it |
| `SalesInvoice`, `StockPromises` | sales invoices, stock and money; the abstract specification of stock that they implement |
| `SourceOrder` | sales orders and the invoices made of them, statement by statement |
| `SalesReturn` | the returns of one invoice, statement by statement |
| `StockDocuments` | stock adjustments and stock opname, statement by statement where the code does not lock |
| `Purchasing`, `PurchaseReturn` | purchase orders, invoices and payments; the returns to suppliers over them (extends `Purchasing`) |
| `FifoLayers`, `StockGoods`, `InventoryLoan` | consumption of layers; goods bought, sold and transformed (extends `FifoLayers`); loans over them (extends `StockGoods`) |
| `Locks`, `FinanceAccounts`, `OpeningBalance` | locks and deadlock detection of PostgreSQL; cash and bank accounts, and opening balances, lock by lock (both use `Locks`) |
| `Catalogue`, `Access`, `MasterRecords`, `Roles`, `OrderText`, `SalesForm` | units of products; users and their sessions; customers, suppliers and the other named records; permissions and roles; aliases and the reading of messages; the form of a sales document |
| `SalesInvoiceProofs`, `SourceOrderProofs`, `SalesReturnProofs`, `DocumentProofs`, `PurchasingProofs`, `GoodsProofs`, `BackOfficeProofs` | the theorems (section 4) |
| `MCSalesInvoice`, `MCSourceOrder`, `MCSalesReturn`, `MCStockDocuments`, `MCPurchasing`, `MCGoods`, `MCBackOffice` | instances for TLC |

Three of the MC modules put components side by side that share no state. There a variable
`focus`, which never changes, chooses the component that moves, so that the states of the
run are the sum of the components' states and not their product; the view `MCView` shows the
moving part alone. In `MCPurchasing` the variable `half` chooses whether a behaviour buys,
with requests that overlap, or starts from completed invoices and returns goods; the rows
it starts from are those in which buying one at a time leaves the invoices. The theorems are
about the components' own specifications, where nothing is chosen.

Some modules keep a history of what the code does not: `raced`, `slots` (which never
changes), `wronged`, `muddled`, `beside`, `overlapped`, `crossed`, `told`, `late`,
`appointed`, `renamed`, `carried`. They note that requests overlapped, or what somebody was told, so that a property
can say what holds without the overlap, and what holds despite it. No guard that stands for
code reads them. The overlaps themselves are reachable in the runs: without its history
variable each of these properties is violated there, as it is by the code, and the hazard in
`PROJECT.json` says so.

### SalesInvoice

All methods of `SalesService` that write an invoice lock its row first, then the stock
rows in one order, and hold both to the end. What they read and write of other tables
(customer summary, journal, holdings) is by increments, or under the invoice lock. So a
method is one action, and the interleaving of methods is the interleaving of actions.

`db` is the database. The operators that take and return a database are the private
methods of the service, composed by the actions as the code composes them:

| Code | Definition |
|---|---|
| `reserve`, `releaseReservation` | `CanReserve`/`Reserve`, `CanRelease`/`Release` |
| `changeInvoiceStatusTx`, DRAFT to READY and back | `CanRepack`/`Repack` |
| `completeInvoiceTx`, stock half | `CanIssue`/`Issue` |
| `completeInvoiceTx`, money half | `CanRecognise`/`Recognise` |
| `recordPaymentTx` | `CanPay`/`Pay` |
| `createInvoiceTx`, `updateInvoice` rows | `Write` |
| `postAdjustment` | `AdjustmentIn`, `AdjustmentOut` |
| `createCompletedInventoryLoanInvoiceTx` | `ConvertLoan` |

Abstractions: a quantity is in the parent unit, goods and bonus together (`groupBase`); an
invoice's total is any number (price, line and document discounts are not told apart); at
most two initial payments; the FIFO layers of a product are one total; the entry for the
cost of goods is left out; active flags and conversion factors do not change; the credit
of a return applied to an invoice is in `SalesReturn` only. Amounts are integers, so the
rounding of amounts to two decimals is not modelled.

### SourceOrder

`createInvoice`, `updateOrder` and `cancelOrder` lock the order row and keep it to the
end: each is one action. `updateInvoice`, `completeInvoice` and `cancelInvoice` are
transactions in steps: `Start` (the locks of the invoice, of the stock of its lines and, for
an update, of the new source order, which it is checked against), `Reserve` (an update waits
for the stock of its new lines, behind that check), `ReadStatus` and `ReadDetails` (the two reads of `syncSourceOrder`),
`Commit` (its write, which waits for the order row, and the commit), `Rollback` at any
point. A statement sees what is committed plus the writes of its own transaction
(`View`). Abstractions: DRAFT and READY are one status; each order line has a product,
and each product a stock, of its own; whether there is enough stock is left out (it is
`SalesInvoice`), the locks on stock are not; payments, which can refuse a cancellation,
and the locks on document numbers, which also keep apart completions of one day, are
left out. Leaving out a refusal adds behaviours, so it cannot hide a violation of the
properties that pass; for the one that is violated, see section 5.

### SalesReturn

One COMPLETED invoice of one product, sold at one price, taken from several FIFO layers,
partly paid. `create` locks the invoice row; `complete` locks the return only.
`completeTx` is then a sequence of steps: `Begin` (the read of the return and its
invoice), `TakeNumber` (the lock on the movement numbers of the return's date),
`LookAtLayer` (the sum of what was restored, without lock) and `TakeLayer` (the locked
increase) for each layer, `FinishLayers`, and `Settle`, which offsets, credits or refunds,
writes the invoice and commits. Abstractions: bonus goods are returned like others at the
one price, and the discount on the document is not taken off it, as in the code; the customer
subledger is left out; the replacement invoice is a total and
a payment, its goods are not modelled; that the stock row is locked from the increase of
stock to the end is implied by `Settle` being one step.

### StockDocuments

Every operation on an existing adjustment or opname begins with a read of its row, not
locked, that must find a DRAFT (`ReadAdjustment`, `ReadOpname`). A new count reads the
stock it is compared with, also without lock (`ReadStock`). What follows takes the locks
of `lockInventoryStock` before it looks at the stock and keeps them to the end, so it is
one step with the commit: `ApproveAdjustment`, `EditAdjustment`, `CancelAdjustment`,
`SaveOpname` (`createOpname` and `updateOpname`, with the approval if it is asked for),
`ApproveOpname`, `RefreshOpname`, `CancelOpname`, or `Rollback`. A final update finds its
row by primary key and does not look at the status, as in the code; the update of a
detail that was replaced meanwhile fails (`rev`). `createAdjustment` reads no shared row
before its locks and is one action. Sales and purchases are `Purchase`, `Reserve`,
`Release`, `Pack` and `Deliver`, one unit of one product at a time; a larger quantity, or
a READY invoice saved at once, is several of them. Abstractions: costs and the FIFO layers; two
edits of a draft whose statements overlap (an edit is one step); the numbers of documents.

### Purchasing and PurchaseReturn

`update` of a purchase invoice reads its status and the order it refers to without a lock
(`BeginEdit`), deletes its lines (`DeleteLines`, which waits for another edit that has
deleted them), and writes the rest and commits (`Save`). A deletion that waited finds its
lines gone and does not see the new ones, so that the invoice then has the lines of both
edits (`kept`, `blind`); a layer cannot be made of a line that somebody is deleting
(`LayersAllowed`). Creations hold the lock on the day's numbers to the end, payments and
orders hold the row they read; each is one action but the creation, which checks its order
first. In `PurchaseReturn` a return that becomes READY locks the layer, reads the stock
without a lock (`CheckReady`) and then takes the goods out (`TakeOut`); the other operations
lock what they depend on and are one action. Abstractions: the lines of an order, which no
operation reads; one line to an invoice and to a return; price history, cost suggestions;
a return settled by money keeps no document of its own; rounding.

### FifoLayers, StockGoods, InventoryLoan

`Consume` takes goods from the layers of a product, oldest first, in one go, and rounds what
they cost to a whole amount (`Cost`), which stands for the two decimals of the code;
`OneByOne` is the reference: one unit after another. `StockGoods` adds the stock row, purchases,
reservations, deliveries and `createTransformation` with one line. `InventoryLoan` adds loans
in both directions: `Save`, `Cancel`, `Activate`, and `Resolve` with one item or `ResolveTwo`
with two. These are SERIALIZABLE and lock what they read, so each is one action, composed of
operators on a record of layers, stock and loans as the code composes its methods
(`GoodsMoved`, `Allocated`, `Counted`, `WithStatus`). Abstractions: one product to a loan;
two items of a unit each at most; the 20 digits to which the code rounds the cost of a unit
before it multiplies; journal entries;
the invoices of a conversion, which are `ConvertLoan` of `SalesInvoice` and `Purchasing`.

### Locks, FinanceAccounts, OpeningBalance

`Locks` models what both need of PostgreSQL: a transaction takes its locks in the order of
its statements (`NextLock`), waits for one that is held, and is aborted when it waits in a
circle (`Deadlocked`). A request of `FinanceAccounts` begins, takes each lock (`Lock`),
reads the balances it moves when it has them all, and commits absolute balances or throws.
In `OpeningBalance` clerks open parties, save drafts and post goods, line by line under the
stock locks, while other operations bring goods in. Left out: names and numbers of
accounts, reports; amounts of openings, of which documents and entries are counted.

### Catalogue, Access, MasterRecords, Roles, OrderText, SalesForm

* `Catalogue`: product units as forms that may be out of date save them, as imports match
  them by name, and as units are renamed. Left out: categories, prices, order of display,
  whether a unit is in use.
* `Access`: a login checks the password (`CheckPassword`), finds the sessions to end
  (`FindOthers`), and ends them and opens its own (`OpenSession`). The last two are one
  `updateMany` at READ COMMITTED, whose snapshot is from before it waits for the row locks of
  another login: it never sees the session that one opens, and both stay live. `forceLogout`
  and `unlockSession` of an administrator find and write in two steps likewise; disabling a
  user and resetting a password lock the row of the user first, which a login writes too, and
  are one. The guard verifies a session and touches it, in two. Any request may be sent in any
  session that was ever opened, and requests are answered in any order; what a page keeps (its
  store, its cookie, its popup) is left out, for no property of the service leans on it. So
  are the count of wrong passwords (a refusal may happen at any time), names, logs.
* `MasterRecords`: a save reads the records, may warn of one that looks alike, and writes in
  a second step. `kind` chooses customers, suppliers, categories or brands, which differ in
  what looks alike and in what the database forbids. Left out: addresses, the financial
  condition of inactivation (a refusal changes nothing).
* `Roles`: a save of permissions compares, deletes and inserts; a change of a user reads who
  asks, then the user, then writes.
* `OrderText`: aliases under their lock, renames that do not take it (and may make two units
  of one name but for case and spaces, which is only warned of), and the reading of a line of text (`ParseOrderText`, `Imported`). A word is a value; what the tokenizer does to
  characters is left out.
* `SalesForm`: the page on which an invoice or an order is written, with answers about
  products, documents and messages that come late or fail. A change of customer keeps the
  lines, also those of a message read for the old one (`readFor`, `carried`). Left out: prices, discounts,
  stock and payments, on which it may refuse to save besides.

## 3. Properties and runs

`PROJECT.json` gives for each property a plausible bug (a mutant: an operator named
`<Definition>_<Bug>` beside the definition it replaces) that the run detects.

| Run | Instance | What it shows |
|---|---|---|
| `invoice` | 2 invoices, 2 customers and the guest, 2 products, totals up to 2, 2 units of stock | `ReceivablesReconcile`, `CustomersReconcile`, `AdvancesReconcile`: one receivable in four places. `PaymentsAccepted`: what is owed can be received. `FinalDocumentsFrozen`. `StockReconciles`, `PromisesDeliverable`, and that the service implements `StockPromises` (`ImplementsStockPromises`) |
| `order` | 2 orders, 2 invoices, 2 overlapping transactions; 1 party and 1 line of up to 2 with a bonus of 1, or 2 parties and 2 lines of 1 | `AllocationsWithinOrder`, `BonusWithGoods`, `InvoicesMatchOrder`, `CancelledOrdersUnused` |
| `order_status` | 1 order, 2 lines, 2 overlapping transactions | **violated** `CompletedIsFulfilled`: a COMPLETED order may be unfulfilled |
| `return` | 3 returns, 2 dates, layers of two and one, one request at a time or two | `SettlementReconciles` one at a time: one receivable, and the value of what came back is set off, credited and refunded, and no more given back than was paid but for the document's discount; `ReturnsWithinSold` always; `SameDayWithinAllocation` for returns of one date |
| `return_payment` | 2 returns, overlapping payments | **violated** `OutstandingReceivable`: a payment is overwritten |
| `return_layers` | 2 returns of different dates | **violated** `LayersWithinAllocation`: a layer is overfilled |
| `stock_documents` | 1 adjustment, 1 opname, 1 product, 2 overlapping requests; openings: 1 party, 2 goods, 2 drafts, 2 clerks; form: 1 customer and the guest, 1 order, 2 lines | `StockCoversPromises`, `OpnameLeavesCount`; `OpenedOnce`; `AnswersInTime`, `NothingOrderedTwice` |
| `adjustment_once` | the same | **violated** `AdjustmentPostedOnce`: an adjustment approved by two requests is posted twice |
| `purchasing` | 2 suppliers, 1 order, 2 invoices, 2 overlapping requests, 2 returns | `PayablesReconcile`, `OrdersInvoicedOnce`; `GoodsReceivedOnce`, by a completed invoice unless requests overlap; `LayersHoldStock`, `PromisesCovered`, `ReturnsWithinPurchase` |
| `goods` | 2 products, 1 loan, 2 layers of 2 units; 2 accounts, 2 overlapping requests | `LayersHoldStock`; `ConsumesOldestFirst`, with layers of two units worth one, so that costs are rounded; `LoansSettledOnce`, `BorrowedGoodsReturned`; `BalancesReconcile`, `RequestsAnswered` |
| `loan_price` | the same | **violated** `WorthItsPrice`: two partial conversions correct the cost of one unit twice |
| `back_office` | 3 units of 2 names, 1 product of 2 rows; 1 user, 3 sessions, 2 requests; 2 records, 2 clerks; 2 permissions, 2 pages; 3 people, 2 of whom ask; 2 products, 2 units, 2 aliases | `OneBaseEach`; `OneSessionEach`, `ServesLiveSessions`; `TwinsConfirmed`, `AuditTells`; `GrantsAudited`; `OwnersAppointed`; `MessagesUnderstood` |

Bounds. A reservation interacts with another through the stock of one product, so two
invoices and two units give the contention, and two products give operations that succeed
for one and would fail for another. Totals of 2 allow a partial payment and an outstanding
rest. Two orders allow an invoice to move from one to another while a second transaction
works on either. In `order` a variable `focus` of the MC module, which never changes, says what
requests may ask for: goods and bonus of one product, whose stock then keeps transactions on
invoices apart, or one piece each of two products and for two parties, where two conversions
of one order overlap up to the order's lock; without that lock the second violates
`AllocationsWithinOrder` in six steps. Three sessions let two logins leave two live ones and a
third end them. Two overlapping transactions are enough for a stale read; each commits or
rolls back at any point. Three returns of three sold units, over layers of two and one, make
a return span two layers. One product is enough for the races of stock documents, which are
about one row of stock and one document; that an opname excludes products of another draft
(`Countable`) is never decisive there. Two layers of up to two units make a taking span
layers and leave one half empty; a loan of two units is resolved in parts. Two accounts are
what a transfer and a change of default need to wait in a circle. Two clerks, pages,
requests or administrators are what one needs to be overtaken; three people let one promote
another who promotes a third. `MaxStock`, `MaxQty`, `MaxTotal`, `MaxBonus`,
`MaxReplacement`, `MaxEdits`, `MaxBought`, `MaxPromised`, `MaxBalance`, `MaxLayers`,
`MaxRows`, `MaxSaves`, `MaxChanges`, `MaxWrites`, `MaxLines`, `MaxQuantity` and `Slots` are
the bounds; they bound requests, not the arithmetic. The theorems hold for every value of
them.

The view of `stock_documents` leaves out the contents of documents that are no longer
DRAFT, which no operation reads again.

Deadlock is checked in `invoice`. In the other runs everything may be final, closed or used
up, with nothing left to do, and the cfg says so.

Fairness and liveness. `FinanceAccounts` states strong fairness of what the server does for
a request once it is there (`FinanceFairness`): PostgreSQL grants a lock to a waiting
transaction when it is free and, by its queue, does not pass it over for ever, finds
deadlocks and aborts one of the transactions, and the service then commits or throws. Under
it `RequestsAnswered` holds although a change of default and a transfer can wait for each
other. Nowhere else is fairness stated: every other step is the transaction of some request,
nothing in the code obliges a user to make one, and a failed one is not retried. What a user
might wait for is stated as safety instead, in terms of what the guards allow
(`PromisesDeliverable`, `PaymentsAccepted`, `OutstandingReceivable`).

## 4. Proofs

Every listed theorem is proved for every value of the constants that satisfies the named
assumption of its module: finite sets where sums range over them, natural bounds, model
values that are different from each other, positive amounts where the DTOs demand them. Of
the properties that the passing runs check, all but one, which is about liveness, are
theorems of the modules' specifications.

**Sums** (`TallyTheorems`). The total of a function with natural values changes by the
difference when one value changes (`TotalUpdate`), bounds each value (`TotalMember`), is
monotone, and the total of a pointwise sum is the sum of the totals (`TotalSum`); from the
library's facts on cardinalities and bijections, without induction. Where something has to be
shown of every natural number, `FromZeroOn` does it: a set of natural numbers that has zero,
and the successor of each it has, has all of them. It follows from `LeastOf`, that a set of
natural numbers that is not empty has a least one, which again needs nothing but the
finiteness of intervals; so neither takes a predicate as a parameter.

**Sales invoices** (`SalesInvoiceProofs`). The inductive invariant `IInv` is `Inv(db)`: the
type, `StockReconcilesIn`, the four money reconciliations and `CreditTermsIn`, all stated of
a database value, so that they can be carried through the intermediate databases of an
action (an edit releases, then reserves and writes, then completes). Each part needs others:
that packed stock stays natural at a release needs that it equals what READY invoices pack;
that a payment keeps the customer summary natural needs that the summary is a sum that
includes the invoice; that completion leaves 2201 right needs that the holding of an open
invoice is what it was paid. One lemma for each private method (`ReleaseInv`, `PlaceInv`,
`PayInv`, `RepackInv`, `CompleteInv`, ...) shows that it keeps `Inv`, and `NextInv` puts
them together action by action. `PromisesDeliverable` and `PaymentsAccepted` follow: a
promise is one member of a sum that is within the stock. For the frozen documents and the
refinement, `Touches(d, e, i)` says what one action on invoice i may change; that the
abstract specification allows it then follows from the invariant before and after.

**Sales orders** (`SourceOrderProofs`). The allocation of an order is checked when an
invoice is attached, and written later, while transactions without a lock on the order commit
in between. The invariant says why that is safe, also while a transaction that passed the
check waits for its stock (`ReserveInv`): what a pending transaction would write takes
of an order as much as its invoice took, or nothing (`Pending`, `Gives`); and one that holds
an order leaves it in agreement with its invoices if it commits now (`Agrees`).

**Sales returns** (`SalesReturnProofs`). `Walks`: what a completion took of the layers and
has still to take is what it returns. `Claiming`: the draft row is there as the transaction
read it, or it holds the invoice. `GoodsInv` adds up what is taken of every layer; `MoneyInv`
needs that the transaction is alone, for then the outstanding amount it read is still so;
`SplitInv`: nothing was credited or refunded as long as anything is outstanding, from which
the bound on both follows, because no more comes back than was sold;
`DayInv` and `RoomInv`: only one return of a date is past the lock on its numbers, so the
room it found in a layer is still there.

**Stock documents, openings, form** (`DocumentProofs`). Of a stock document little need be
known: a posting is checked against the stock as it is. The invariant is that the stock is
sound, and that no two adjustments refer to one count (`CountsPostedOnce`), which rests on the
unique column. `OpenedOnce` needs no fact about locks, because the end of a request checks
and writes in one step; it needs that finitely many parties and goods are opened. The form
keeps that an awaited answer is for its customer, or is not listened to, and that a row of a
message was read for its customer unless the clerk changed the customer over it.

**Purchasing** (`PurchasingProofs`). The ledger is the sum of the summaries always. The rest
is true of what an edit read without a lock if no two requests used the invoice or the order
at once, which `raced` notes: then the invoice is as it was read and the order READY and
invoiced by nobody. What survives overlapping edits, for any number of them, rests on two
keys instead: the accrual of an invoice is posted once, and goods go into stock in the
transaction that posts it. Of each invoice that no two requests used at once the invariant
also says that whatever is in stock or in the journal for it is of a completed invoice
(`Undisturbed`), so that no edit takes it back to DRAFT. For returns the invariant adds what they took of each layer, what
they hold of each invoice, and that the check of a READY request stays true because it holds
the layer; the read of the stock is not covered by a lock, and `wronged` notes when it was
out of date. The stock that is missing then is at most what the returns in `wronged` still
have (`Astray`): each takes its own share of it, and gives that back when it is cancelled or
replaced (`AstrayFollows`), so `PromisesCovered` holds without a condition.

**Goods, loans, accounts** (`GoodsProofs`). That a taking takes what was asked
(`SharesAddUp`) is proved without induction: numbering the units of all layers, oldest
first, is a bijection, and the units numbered up to n are those taken. The invariant of loans
is `Kept(layers, stock, loan)`, again of values, so that two items of one resolution can be
applied one after the other: layers hold the stock (`Sound`); a borrowed loan has exactly one
layer, of which what is left and what was handed back are at most what was borrowed
(`Owned`); the quantities of a row add up (`Booked`); and movements only take from the old
layers (`Retains`). It needs that the kind of a document that makes a layer is not the name
of a loan, which `InventoryLoanAssumption` says of the model's values. The invariant of the
accounts is that ledger and journal follow the balances (`Books`), that a movement with all
its locks has seen the current balances (`Knows`), and that locks are exclusive (`Apart`).
`OldestFirst` is about the algorithm alone, for any number of layers and units: taking n at
once leaves what taking n times one unit leaves. By induction over n: before each unit the
layers are as `Consume` left them (`OneByOneTakes`), the oldest layer that has any is the one
whose share grows (`NextUnit`), and no other share does. Values agree where a layer has one
cost to a unit; of the others, whose costs are rounded, it is shown that what is charged is
what the layers lose (`CostIsWorthLost`), which holds because a rounded part of a layer is never
more than the layer (`RoundedCost`). That an emptied layer is worth nothing is part of
what `Kept` says of a layer (`LayerRows`), and every taking keeps it (`TakeLayerIs`).

**Back office** (`BackOfficeProofs`). In each module a request in between knows something,
and the invariant says that it is still so unless the history notes it: `GrantInv`,
`PeopleInv`, `RecordInv`, `CatalogueInv`; in `Access`, that a verified request has its
session; that a login in between has found every session its user had; and that of two live
sessions one was opened beside the login of the other (`OneSessionEach` itself).

For order texts, `TextInv` says that no two aliases of products, or of units, are the same, and
that what bears an alias as its official name was renamed; the lock on aliases keeps the first,
and only a renaming, which does not take it, may end the second unnoticed. So an alias means
one thing (`AliasMeansOne`). That a line is read as it was written (`LinesAreRead`) holds of
whatever names there are, for a line of any length: `AmountsRead` goes through the text from
its end (`FromZeroOn` again), and shows that the rows from each position on are, one after the
other, the quantity and a name of the unit (`ReadsAs`), or one of them is in doubt; the
recursion of `AmountsFrom` is shown to be well founded for it (`AmountsUnfold`). What the
import adds is only ever another doubt (`ImportDoubts`). `OrderTextAssumption` says of the
model's words what the proof needs of them: there are finitely many products, units and names,
and numbers are integers.

Out of the prover's reach, and left to TLC: `RequestsAnswered`, which is liveness under
fairness.

## 5. What the violations show

* `order_status`. `syncSourceOrder` (`sales.service.ts:1852`) reads the order and its
  invoices without the order row's lock and writes the status afterwards. An order of two
  products is covered by two invoices; one is cancelled, or edited down, while the other is
  being completed. The completion has read the order as fulfilled and writes COMPLETED
  last. From then on the order takes no new invoice (`:911`), no edit (`:586`) and no
  cancellation (`:663`), though it is not fulfilled; it recovers when another operation on
  an attached invoice synchronises it. Products differ because invoices of the same product
  wait for each other's stock; the number locks left out of the model keep apart two
  completions of one day, but a cancellation or edit takes none of them.
* `return_payment`. `completeTx` (`sales-return.service.ts:366`) reads the invoice without
  its lock and writes `outstanding` as an absolute value at the end (`:673`). A payment
  between them is lost on the invoice, not in the customer summary; the invoice then shows a
  debt that `recordPaymentTx` refuses to receive (`sales.service.ts:1806`).
* `return_layers`. The sum of what was restored is read (`:451`) before the layer is locked
  (`:469`) and not read again. Two overlapping completions of returns with different dates
  both fill the same layer. With one date the lock on the day's movement numbers prevents
  it, which `SameDayWithinAllocation` states and a theorem proves.
* `adjustment_once`. `postAdjustment` reads the status of an adjustment without its lock
  (`inventory.service.ts:223`) and updates it by primary key at the end. Two overlapping
  approvals of one draft both pass; the second waits for the stock lock, then posts the lines
  again. For an opname the unique column `stock_opname_id` of the adjustment prevents it
  (theorem `CountsPostedOnce`).
* `loan_price`. `revalueIncomingLoanCost` (`inventory-loan.service.ts:1107`) takes as still
  there the smaller of what is converted now and what is left of the layer, and a conversion
  takes nothing out of the layer. When part of a borrowed lot was sold and the rest is
  invoiced in two resolutions, both correct the cost of the same unit
  (`inventory-loan.rules.spec.ts:19` has the correction split between what is left and what
  was used).

Observations without a run, met while modelling:

* Stock documents: the unlocked read also lets an approval overtake a cancellation; an edit
  between the read and the commit of an opname's approval leaves an approved opname showing
  counts that were not posted; edits of a draft whose statements overlap keep the lines of both
  (`inventory.service.ts:505`).
* Sales: an invoice whose total is zero can be made but never completed, because
  `postJournalEntry` refuses lines of zero; an advance received on an invoice blocks its
  cancellation and nothing refunds it; the customer subledger and summary disagree after a
  return of a fully paid invoice (`sales-return.service.ts:551`); `updateInvoice` and
  `createInvoice` lock stock and order in opposite orders and may deadlock
  (`sales.service.ts:1032`); quantities are converted with the factors of the moment
  (`:207`), so that changing one moves what a document reserved.
* Purchasing: an edit to DRAFT that read the invoice before another one completed it takes it
  back to DRAFT with its goods received (`purchase-invoice.service.ts:391`,
  `CompletedInvoicesKept`); cancelling a READY return, or deducting it from a later invoice,
  leaves account 1391 open (`RefundsDue`).
* Finance and openings: requests that lock the same rows in opposite orders are aborted
  rather than delayed; `saveInventoryDraft` may leave a user with two drafts, or write lines
  to one that was just posted.
* Sessions: two logins at once leave two live sessions until the next one; a login that
  overlaps the disabling of its user opens a session; in the page, which is not modelled, an
  answer of `/auth/me` that comes after a logout fills the store again, and a refusal for
  idleness that comes late leaves it locked.
* Records and roles: a change of e-mail or contact person alone leaves no audit row for a
  supplier; a stale form overwrites what it did not show; a confirmation covers twins that
  were never shown; overlapping saves of permissions merge into a set nobody saved; the last
  Super Owner can demote or deactivate himself; a supplier is inactivated whatever is owed.
* Messages and form: `1.000` is read as 1; lines keep the prices of a previous customer, and lines of
  a message stay in the form for another one; a
  document that fails to load leaves an empty form in edit mode; a retry after a lost answer
  makes a second document; quantities are split by subtraction of floating-point numbers.

## 6. What is left

1. The rounding of amounts of documents, and conversion factors that change, which the models
   leave out; loans and transformations of several lines.
2. Runs for the violated properties that are stated without one: `CompletedInvoicesKept` and
   `RefundsDue`.
3. System logs, configuration, the dashboard and deployment are not modelled: append-only
   rows, read-only queries and scripts.
