# AuraStock in TLA+

AuraStock is a multi-tenant inventory, sales and accounting system: a Django
REST backend (`src/backend`) over PostgreSQL and a Flutter client
(`src/frontend`). This directory holds a specification of the parts whose
state must stay consistent while several people, a payment gateway and a
customer's browser work on it at once: what is in stock, what was sold, billed,
ordered and received, what was paid, what the books and the reports say, who
may still come in, and who is told.

Paths below are relative to `src/backend/apps/` unless they begin with `src/`.

Contents: [The system](#the-system) - [How the code runs](#how-the-code-runs-and-how-the-models-reflect-it) -
[Modules](#modules) - [Runs](#runs) - [What the runs found](#where-the-code-and-what-is-said-of-it-disagree) -
[Proofs](#proofs) - [What is only model-checked](#what-is-only-model-checked) -
[Not modelled](#what-is-not-modelled) - [Plan](#plan)

## The system

| Component | State it keeps | Operations | What makes it correct | Modules |
|---|---|---|---|---|
| Stock ledger (`inventory`) | `StockItem` (on hand, average cost), `Batch`/`BatchStock`, `SerialUnit`, `StockMovement` | `stock_in`, `stock_out`, `transfer_stock`, `adjust_stock`, `assemble_bundle` | on hand is what the movements add up to; units and batches mirror it; a sold serial never returns; the average stays within what was paid; concurrent requests are carried out whole or not at all, and end | `StockLedger`, `StockLocks`, `StockPromise` |
| Invoices and payments (`sales`, `payments`) | `Invoice`, `SalesPayment`, `PaymentIntent` | confirm, record-payment, payment intents, webhook, simulated callback, edit, delete | confirmed once, never overpaid, one payment per intent, invoice and books agree, who paid is credited | `InvoicePayments` |
| Quotations and orders (`sales`, `portal`) | `Quotation`, `SalesOrder`, the lines' `quantity_invoiced` | send, accept/reject by the customer, convert to order, convert to (partial) invoice, invoices written by hand and put on or taken off an order | answered once, converted once, never billed beyond the order, nothing billed is still outstanding | `SalesPipeline` |
| Purchasing (`purchasing`, `portal`) | `PurchaseRequest`, `PurchaseOrder`, `quantity_received`, `PurchasePayment` | submit/approve/reject/convert, send, acknowledge, receive goods, record payment, delete | nothing ordered unapproved, nothing over-received or overpaid, status tells what arrived | `Purchasing` |
| Point of sale (`pos`) | `POSSession`, `POSTransaction` | open, close, sell, refund, edit, delete | one open till per cashier, expected cash is the drawer's, refunds mirror sales | `PosTill` |
| General ledger (`accounting`) | `Account`, `JournalEntry` and lines, `Expense` | `create_journal_entry` and the seven `record_` functions, close period, three financial reports | entries balance, every event can be booked, a close counts everything once, the reports reconcile | `GeneralLedger`, `FinancialReports` |
| Tenancy (`tenants`, `platform`) | `Company`, `SubscriptionPlan`, `Branch`, `Warehouse` | settings, branches and warehouses, plan limits, suspend, activate, plans | limits hold, what the operator decided last stands | `Tenancy` |
| Users and roles (`accounts`, `core/permissions.py`) | `User`, `Role` | sign-up, invite, edit, change password, roles and their permissions | an owner is never locked out of his own company, the password chosen last stands | `Tenancy`, `PermissionCatalog` |
| Sessions (`core/authentication.py`, `core/ws_auth.py`, `accounts/token.py`) | tokens, sockets | log in, refresh, connect | nobody enters a blocked company | `Sessions` |
| Portal (`portal`) | `PortalAccount`, tokens | grant, reset, revoke, log in, list, answer a quotation, acknowledge an order | a token speaks for the one it was issued to and for nobody once revoked | `Sessions`, `SalesPipeline`, `Purchasing` |
| Notifications (`notifications`) | `Notification` | low-stock alert, overdue scan, mark read, push and mail | one unread alert per subject, nobody hears of what was rolled back | `Notices` |
| Numbering (`core/numbering.py`) | `NumberSequence` | `next_value` | no number twice, none left out | `StockLocks` |
| Reports and insights (`reports`, `insights`) | none | sales, purchases, best sellers, ABC, valuation, dead stock, reorder, forecast, anomalies | they agree with the books; the algorithms compute what they are named for | `TradeReports`, `DemandInsights`, `ReportChecks`, `TradingDays` |
| Catalogue, partners (`products`, `customers`, `suppliers`) | records | create, edit, delete | tracking flags fit the stock on hand | `StockLedger` |
| Client (`src/frontend/lib`) | tokens, cart, lists | token refresh, live notifications, screens | a request survives an expired token; logout is final | none |

How they interact. Everything is a direct call inside one request. Confirming
an invoice calls `stock_out` for each line and `record_invoice_confirmed`;
ringing up a sale does the same with `record_pos_sale`; a goods receipt calls
`stock_in` and `record_goods_receipt`; a gateway webhook ends in the same
`record_invoice_payment` as a payment entered by staff, which calls
`record_sales_payment`. Every document takes its number from `next_value`. Low
stock raises a notification from inside `stock_out`. The portal writes
quotation and purchase order rows directly. The reports read the documents,
the movements and the journal, each on its own.

## How the code runs, and how the models reflect it

* There is no `ATOMIC_REQUESTS`. A handler outside `@transaction.atomic`
  commits every statement; inside it, everything commits at the end.
* PostgreSQL runs at READ COMMITTED. (`LOCAL_DEV_MODE` replaces it by SQLite;
  the models are of PostgreSQL.) The only row locks are those of
  `inventory/services.py` and `core/numbering.py`; `StockLocks` takes them one
  by one. **Documents are read by `get_object()` without a lock**, checked in
  memory, and written later. Two requests can therefore decide on the same
  row. A request is a *handler*: a `Load` (in `Tenancy`, `Open` or `Ask`)
  action takes a snapshot, a later action decides on the snapshot and commits.
  `Requests` (`Workers` in `Tenancy`) is the set of requests that can be in
  flight at once.
* `save(update_fields=...)` writes the columns named, from values computed on
  the snapshot, which is how updates are lost. `PATCH` and `PUT`
  (`core/viewsets.py` is a `ModelViewSet`) write *every* column of the
  snapshot, including read-only ones, and insert the row again if it was
  deleted meanwhile. Both are modelled as that.
* `DELETE` is exposed on every document and undoes nothing else; rows that
  cascade go with it. `DeleteVariant`, `DeleteOrder`, `DeleteSale`,
  `DeleteDocument` and their like are that, and where a claim of the code ends
  with a deletion the property says so (`Kept...`, `\ deleted`, `\ stripped`).
* A handler that raises inside a transaction leaves no trace: a step that is
  refused changes nothing but its handler.
* Money and quantities are integers in the smallest unit that matters.
  PostgreSQL rounds to a column's scale half away from zero; `RoundedRatio`
  and `ToCents` do that.
* Every query is restricted to one company, so each module models one, except
  `Tenancy` and `Sessions`, which have several.
* `on_commit` hooks run when the outermost transaction commits and never when
  it rolls back (`Announced` of `Notices`).

## Modules

`MC*.tla` give the constants their instances and add history variables, so
that one run can ask both what holds while requests are served one at a time
and what holds however they overlap (see [Runs](#runs)). `faulty` definitions
are not used by any specification: each is what a slip in the code would look
like, and shows that the property beside it would notice.

**StockLedger** - `inventory/services.py`. Each service function is one
transaction that holds the lock of its stock row before it reads it, so each
is one action: `StockIn`, `StockOut`, `Transfer`, `AdjustUp`/`AdjustDown`,
`Assemble`, and `MarkRead` for alerts. State: `onHand`, `avgCost` (`StockItem`),
`ledger` (the signed sum of the `StockMovement` rows), `unit` and `received`
(`SerialUnit`), `batchQty`, `expiry`, `created` (`Batch`, `BatchStock`),
`alerts`, `tracking` (the product's flags), and `paid`, the history of receipt
costs. First-expiry-first-out drawing is stated declaratively (`FefoDraws`: a
draw empties earlier batches before later ones). `Retrack` is the product
form's change of the tracking flags while there is stock. `DeleteVariant` takes
the stock and movement rows of a variant along and leaves units and batch
balances, which name no variant.

**StockPromise** - what callers of the stock services and of the counters rely
on: a request's moves happen all at once or not at all, on quantities that
suffice, and documents are numbered one after the other.

**StockLocks** - the same services and `next_value` one row at a time. An
operation is the sequence of rows it selects for update with the change it
makes to each (`StockIn`, `Transfer`, `ConfirmInvoice`, ...). `Take` waits for
rows that others have changed, works on a copy, and inserts a row that is
missing; `Commit` writes the copies; `Refuse`, `Fail` and `EndDeadlock` drop
them. Who waits for whom, directly or through others, is `Awaited`: the least
set that has those a request waits for and is closed under waiting. Variants of
a product have stock rows of their own and share its batch and its serial units
(`ProductOf`). A draw locks the batch with its balance, as
`select_related("batch")` does, a receipt that brings another expiry date locks
the batch before the balance, and one that brings none only reads it
(`FindOrMake`). Whether two transactions can both insert a row depends on its unique
constraint (`Unique`: a `NULL` variant is not equal to another). A document
whose serializer opens no transaction takes its number in one commit and its
row in the next (`SaveDocument`, `LoseDocument`). `StockIsPromised` is the
refinement: `StockLocks` implements `StockPromise`, with the committed rows
for its quantities.

**InvoicePayments** - `sales/views.py` (invoices), `sales/services.py`,
`payments/services.py`, `payments/views.py`. A handler's operation is one of
confirm, pay, intent, checkout, settle, fail, edit, delete. `collected`,
`receivable`, `confirmations` and `settled` count what was really done:
payment rows, postings, confirmations, payments per intent. `charged` are
the payers who completed a checkout, which is the gateway's state.

**SalesPipeline** - the rest of `sales/views.py` and the customer's answer in
`portal/views.py`. `invoiced` is `quantity_invoiced`; `bill` are the invoices
made; `answers` and `conversions` count what happened to a quotation.
`sales_order` of an invoice is writable: `CreateInvoice` and `EditInvoice` put an
invoice on any order, or on none, and count nothing. A conversion to an invoice may name lines and quantities (`Asks`), several
entries for one line included, as the endpoint accepts them.

**Purchasing** - `purchasing/serializers.py`, `purchasing/views.py`, and the
supplier's acknowledgement. A goods receipt is one transaction (`Receive`);
`record_payment` is three commits (`SavePayment`, `CreditOrder`, `PostPayment`)
and `Abort` may end the process between them. An entry of a receipt names a
product and an order item apart (`asOrdered`): `stocked` is what was taken in
under an item, `strayed` the part of it that is another product. `DeleteOrder`
takes lines and payment rows along and leaves the ledger; `deleted` remembers
it, as an edit may insert the row again.

**PosTill** - `pos/views.py`, `pos/serializers.py`. Closing is `SumUp` (the
sum over completed cash sales) and `CloseTill` (the update). `drawer` is the
cash a cashier has really put in and handed out, `posted` what the journal
entries of a sale leave in cash and bank, `returned` how often its goods were
put back, `stripped` the sales whose lines a deletion has taken along (an edit
may insert the row again without them). A tracked product is a product for which `stock_in` refuses a call
without batch or serials (`Returnable`).

**GeneralLedger** - `accounting/services.py` with the rounding of the columns.
`Entry(debits, credits)` is the list of lines handed to
`create_journal_entry`; `Postable` is its check, made on the amounts as they
are in memory; `Posted` is what the database keeps, each line rounded. A
document (`doc`) keeps its totals rounded one by one (`Saved`). `earned` and
`earnedAt` are the history of net income, which no column holds. Cash and
bank are one account here; `PosTill` tells them apart.

**FinancialReports** - `accounting/reports.py` as operators on the debits minus
credits of every account: trial balance, profit and loss, balance sheet.
`GeneralLedger` instantiates it for what its reports show, `TradingDays` for a
range of days.

**PermissionCatalog** - the modules, actions and starter roles of
`accounts/permissions_catalog.py`, the check of `core/permissions.py` with its
per-view overrides, and what each guarded view asks for (`Guards`).

**Tenancy** - `tenants`, `platform` and `accounts`. Companies, plans with their
caps, users, roles and what they hold (`held`: branches and warehouses) are
rows; sign-up, inviting, adding a branch, settings, the operator's tenant form
and password changes are handlers that load and commit apart; suspending,
activating, deleting and changing roles are single statements. A commit that
violates a unique or foreign key is refused (`Answer`).

**Sessions** - `core/authentication.py`, `core/ws_auth.py`,
`accounts/token.py` and `portal`, on top of `Tenancy`. Tokens carry a primary
key and are looked up at every use (`Api`, `authenticate`), sockets only when
they are opened. Granting portal access is two commits, the account and its
password (`SetPortalPassword`, `GrantDies`).

**Notices** - `notifications`: rows, the dedupe of `create_notification`, hooks,
sockets and mail, reading, and the overdue scan, which holds neither a lock nor
a transaction: `Look`, `AddReminder` and `ScanDies` are steps of their own.

**TradeReports**, **DemandInsights** - `reports/views.py` and `insights` as
operators on what the tables hold. Fractions are exact: numerator and
denominator where the code has floats. `Ranked` leaves products of equal revenue in
any order; the code has them in the order the database returned.

**ReportChecks** - assumptions TLC evaluates once, before the run that extends
it: on all bounded inputs, the ABC classes are the Pareto classes
(`AbcHolds`), the forecast's line is the least-squares line and its history
has a value for every day (`ForecastHolds`, `HistoryIsWhole`), few points can
be outliers at two standard deviations (`AnomaliesAreFew`), and a reorder
suggestion covers the lead time (`SuggestionCovers`).

**TradingDays** - several days of a company: drafts, confirmations, payments,
till sales and refunds, goods receipts, stock put in, taken out or adjusted by
hand (`PutIn`, `TakeOut`, `Adjust`), deletions of documents and receipts, the
journal per day and its closing (`ClosePeriod`), the notices all of these raise, and the hours in which the local day
has begun and the UTC day has not (`early`). It composes the documents, the
stock at its average cost, the journal (`FinancialReports`), the reports and
`Notices`. Requests are whole here: how they race is the matter of the modules
above.

**SumTheorems** - facts about `SumFunctionOnSet`, proved from
well-foundedness of strict inclusion.
**StockLedgerProofs**, **SalesPipelineProofs**, **GeneralLedgerProofs**,
**PurchasingProofs**, **PosTillProofs** - the theorems of one component each;
**TradingProofs** - those of invoices and payments, and of the days of trading
with their reports and notices; **PlatformProofs** - those of `Tenancy`,
`Sessions` and `StockLocks`, on which every component stands. See
[Proofs](#proofs).

The modules meet where the code does: a confirmed invoice, a sale or a receipt
appears in `StockLedger` as the `stock_out`/`stock_in` calls it makes, in
`StockLocks` as the rows it locks, in `GeneralLedger` as its entry, in its own
module as one count (`confirmations`, `stocked`, `returned`), and in
`TradingDays` as one step that does all of it, so that each module has few
enough states to check under interleaving and one checks that the parts agree.

## Runs

The code keeps two kinds of promise. Some hold under any interleaving; many
hold only as long as requests do not overlap, nothing is deleted under a
request, or no process dies half-way. Most MC modules therefore carry history
variables that remember what has happened so far, and state the second kind as
an implication:

| Variable | Module | Remembers | Names of what is implied |
|---|---|---|---|
| `past` | `MCInvoicePayments`, `MCSalesPipeline` | which of an overlap of two requests and a deletion have happened; in the pipeline also an invoice put on an order by hand (`link`) and taken off one (`unlink`) | `Alone...` (no overlap; of bills also no `link`), `Kept...` (no deletion, no `unlink`) |
| `past` | `MCPosTill` | the worst of `plain`, `edited` (an edit or a deletion), `overlapped` | `Plain...`, `Alone...` (not overlapped) |
| `calm` | `MCPurchasing`, `MCGeneralLedger` | that nothing irregular happened: overlap, crash or lost entry, edited expense, switched account, an item listed twice in one receipt or received as another product, a row deleted under a request | `Calm...` |
| `calm` | `MCAccess` | that no request was served while another was under way, and none died | `Alone...` |
| `decided`, `chosen`, `granted`, `issued` | `MCAccess` | the status decided last, the password chosen last, the credentials granted last, the owner of every portal token | |
| `reshaped` | `MCStockLedger` | that tracking flags were changed, or a variant deleted that had stock | `Kept...` |
| `plain`, `kept`, `prompt`, `alone` | `MCTradingDays` | that no stock was put in, taken out or adjusted by hand; that no sale or receipt was deleted and the books were not closed; that documents were confirmed and refunded on their own day; that scans did not overlap | `Plain...`, `Prompt...`, `Alone...` |
| `theme` | `MCAccess`, `MCTradingDays` | nothing: it is chosen at first and says which part of the state a behaviour explores | |

The variables never disable a step: `MCNext` (`MCDaysNext`) is `Next` (`DaysNext`)
with their update. The
runs explore irregular behaviours too, with a narrower bound
(`ACTION_CONSTRAINT`) once they are irregular; properties without a prefix are
checked in all of them. Every passing run exhausts the states within its
bounds. The type invariants are theorems.

| Run | Asks | Bounds, and why they are enough |
|---|---|---|
| `StockUnits` | units mirror on hand, sold units stay out, the average stays within prices paid | 2 warehouses (a transfer needs two), 2 variants (units carry none), 2 serials, quantities of a half, one and two units (`Whole = 2`: the whole-quantity check can fail), 2 prices, on hand to 4: rounding accumulates over receipts, transfers and draws. `SerialOrNone`: with flags changed or a variant deleted, one unit per warehouse and one price |
| `StockGoods` | movements explain on hand, batches mirror it, nothing appears uncounted | one kit of one batch-tracked part, whole parts; 2 batches, with and without an expiry date, so that orders of expiry and of receipt disagree and a draw spans both; on hand to 2. `KitsOrDates`: kits in one warehouse without dates, or dates and transfers between two without kits, because assembly works in one warehouse and only draws look at dates |
| `Locks` | whatever transactions wait, fail or are ended by a deadlock, requests are carried out whole or not at all and numbers run on (the refinement of `StockPromise`); no key is inserted twice unless its unique constraint lets it; a request that has begun ends; only requests that take rows in two orders wait in a circle | 15 operations over two variants of a batch-tracked product, two of one with serials and an untracked product, in two warehouses and three counters, among them opposite transfers, an adjustment that redates the batch another variant is drawn from, and two documents with their lines in opposite orders; 3 requests, which a circle of three needs. `BeginInOrder`: requests begin in the order of their names, which mean nothing, and the third has at most three rows |
| `Invoice` | whatever overlaps, nobody is credited beyond what was collected; alone, an invoice is confirmed once, never overpaid, agrees with its payments and the books, and a webhook counts once | one invoice of two units paid in one or two parts, two intents that compete for it, two requests with edits and deletions. `OneTrouble`: not an overlap and a deletion in one behaviour (both together refute `CreditedIsCollected`: an edit that read the invoice before it was deleted inserts it again, without its payments) |
| `InvoiceSettles` | a completed checkout is recorded, or something named stands in the way | two intents compete for one balance; one request at a time; no symmetry |
| `Pipeline` | a status always has its reason behind it; counts are never ahead of the bills until something is deleted or an invoice is taken off its order; alone, and until an invoice is put on an order by hand, no line is billed beyond the order; a quotation is answered once and a rejected one is not ordered | one quotation, two orders, two invoices, a line billed in two parts and one billed whole, two requests. `OneTrouble`: an overlap, deletions, or invoices moved between orders by hand, not two of them in one behaviour; and one order once requests overlap (orders share nothing but their quotation) |
| `Purchase` | nothing is ordered unapproved, as much as a received order asks for was stocked under it, what an order that was not deleted claims as paid was paid, whatever overlaps, is edited, deleted or crashes; in calm behaviours nothing is over-received or overpaid, the status tells what arrived, a request is decided once | two orders, two items of which one can come in two parts, receipts of up to two entries, payments to 3. `Bounds`: purchase requests, or goods and payments of one order, not both: no action reads the one and writes the other; another product arrives in one receipt of one entry, and after a deletion only the requests under way go on |
| `Pos` | a refunded sale that kept its lines is returned, whatever overlaps; otherwise drawer, postings and goods mirror the sales, one session is open per cashier and closing is final | one cashier, two tills, two sales, two requests, an opening float of 0 or 1. `OneSale`: one sale, refunded twice at most, and no float once anything but sales, refunds and closings happened |
| `Ledger` | the reports reconcile (with inactive accounts counted in) and every document can post its next entry, whatever happens; in calm behaviours a close retains what was earned | two documents, one expense, two requests that close or book, two subtotals and taxes in whole cents (`Cent = 2`). `OneDocument`: one document once irregular, and revenue the one account switched off (the others enter `ClosingEntry` in the same way) |
| `Access` | an owner is never locked out, a portal token stays with its owner, nobody enters a blocked company, whatever overlaps; alone, what was decided last stands and nobody grows beyond his plan | two companies of one name, two users, two plans with two caps, two roles, two secrets, two customers of which one has an address that differs in case only, two requests. Four themes: `growth` (sign-up, invitations, branches, plans), `company` (settings against the operator's form and suspension), `people` (users, roles, passwords), `portal` (grants, revocations, logins). What a theme leaves alone is not read by its actions |
| `Days` | until a sale or receipt is deleted or the books are closed, the sales, purchase and best-seller reports meet the books; until stock is moved by hand the valuation is the inventory account; dead stock is what did not move, one reminder per subject, nobody hears of what is not listed; and the assumptions of `ReportChecks` | two days with their early hours, each of two documents with up to two lines, with and without discount, costs of 1440 and 2880 so that averages stay whole (their rounding is the matter of `StockUnits`), three movements out, two notices, two scans. Three themes: `sales` (with deletions and closing), `stock` (with stock moved by hand), `notices`; deletions and closings must leave the valuation alone, moves by hand the reports. A report over n days is asked for every n |
| `RoundedSale` (`expect: violation`) | a till sale with parts of a cent stores an unbalanced entry | the smallest instance that shows it |

Bounds in the guards (`MaxOnHand`, `MaxConfirmations`, `MaxCollected`,
`MaxAnswers`, `MaxPayments`, `MaxStocked`, `MaxDecisions`, `MaxIds`,
`MaxHeld`, `MaxAccounts`) only keep counters finite where races let
them grow; each is above the value at which the property would break. Runs with
such bounds, or whose documents or requests reach a final state, set
`CHECK_DEADLOCK FALSE`: a shop that has nothing left to do is not an error.
(Requests that wait for each other are not left to the deadlock check:
`RequestsEnd` forbids them.) `GeneralLedger` can always close again and checks
deadlock. Requests, intents, invoices, batches, serials, warehouses, users and
scans are symmetric where a run says so; no liveness run uses symmetry. TLC
warns that `Locks` checks liveness under a constraint: the constraint only says
which requests begin, which no fairness assumption is about, so it cuts off no
fair behaviour of those that have begun.

**Fairness.** A request that has been received is worked on to its end: the
server runs each handler in a thread that is never suspended for good, which is
weak fairness of a handler's commit or refusal (`Fairness` of
`InvoicePayments`). In `StockLocks` it is weak fairness of `Work(r)`: the
thread takes its next row when it is free, and PostgreSQL's deadlock timeout
looks for circles. A gateway redelivers a webhook until it is accepted, while
other requests come and go in between: strong fairness of `Settle`. Nothing is
assumed of staff, customers or the scheduler between requests, nor that a
request is sent again after it was ended by a deadlock: the code does not retry.

## Where the code and what is said of it disagree

The run `RoundedSale` shows one; the sentence it contradicts is quoted in
`PROJECT.json`. The others are the reason for the prefixes: TLC refutes the
property below, without its prefix, in the run's own instance with the
constants named here. They were each met that way.

| Property | Refuted with | What happens |
|---|---|---|
| `NeverOverpaid`, `BooksMatchInvoice` | `Invoice`, 2 requests | two payments at once overpay; a draft is confirmed twice: goods and revenue twice |
| `OnePaymentPerIntent` | `Invoice`, 2 requests | two deliveries of one webhook at once pay an invoice twice, though `payments/services.py:37-39` has them counted once |
| `BooksMatchInvoice` | `Invoice`, 2 requests, `"edit"` | a note's PATCH writes back the old status and amount paid |
| `NeverOverbilled` | `Pipeline`, 1 request, `MaxEntries = 2` | one request with a line listed twice bills more than was ordered (`sales/views.py:127`; `src/README.md:222-223` has over-invoicing blocked per line) |
| `DecidedOnce` | `Pipeline`, 2 requests | a quotation is accepted and rejected; ordered though rejected |
| `CountedIsBilled` | `Pipeline`, `"delete"` or `"edit"` | deleting an invoice, or taking it off its order by `PATCH`, leaves the order counting it (`sales/serializers.py:97`) |
| `NeverOverbilled`, `BilledIsCounted` | `Pipeline`, 1 request | an invoice written with a `sales_order` bills it without being counted, beyond what was ordered |
| `NeverOverreceived` | `Purchase`, 1 request, `MaxEntries = 2` | a receipt that lists an item twice takes in more than ordered |
| `StatusTellsReceipts` | `Purchase`, `Items = {i1, i3}`, `Irregular = {"foreign"}`, no `Bounds` | a receipt for another order's item leaves that order's status behind |
| `SupplierNotOverpaid` | `Purchase`, `"crash"` | a crash between two commits lets a supplier be paid twice |
| `AsOrdered(i) >= Quantity[i]` for a received order | `Purchase`, `"swap"` | a receipt completes an order with another product (`purchasing/serializers.py:116`) |
| `ClaimedIsPaid` for deleted orders too | `Purchase`, `"delete"` | the payment rows are gone with the order, its entries are not |
| `DecidedOnce` | `Purchase`, 2 requests | a request is approved and rejected, or converted twice |
| `OneOpenSession`, `ClosedForGood`, `GoodsMatchSales` | `Pos`, 2 requests | two open tills; a sale in a closed till; goods put back twice |
| `RefundedIsReturned` for `stripped` sales too | `Pos`, `"edit"` and `"delete"`, 2 requests | a `PATCH` inserts a deleted sale again without its lines; its refund puts nothing back |
| `PostingsMirror` | `Pos`, `"edit"` | an edited payment method sends the refund to the wrong account |
| `RefundsRestore` | `Pos` under `MCFairSpec`, 1 request, `"tracked"` | a tracked product can be sold and never refunded (`pos/views.py:91`; `src/README.md:265-266` has a refund restore stock) |
| `DocumentsPostable` | `Ledger`, a subtotal of 5 and a tax of 1 | three roundings that do not add up: an invoice that can never be confirmed |
| `TrialBalances` | `Ledger`, `"deactivate"` | a deactivated account is missing from the trial balance |
| `RetainedWasEarned` | `Ledger`, 2 requests | income closed twice |
| `ExpensesBooked` | `Ledger`, an amount of 0 or `"crash"` | an expense row without an entry |
| `SerialsMirrorOnHand`, `BatchesMirrorOnHand` | `StockUnits`; `StockGoods` without `KitsOrDates` | changed tracking leaves stock without batches or units; a deleted variant leaves units and batches without stock |
| `LedgerExplainsOnHand` | `StockGoods`, `Bom <- HalfParts` | assembling below the stored precision rounds movement and on hand apart |
| `OneRowPerKey` without its exception | `Locks` | two first receipts of a product without variant leave two stock rows; every later operation on it is refused |
| `NumbersRunOn` without its last alternative | `Locks` | a document created outside a transaction is lost after its number was taken: a gap in what is called gap-free |
| `CirclesNeedTwoOrders` for every request | `Locks` | opposite transfers, invoices with the same lines in another order, or a stock-out of one variant and a dated adjustment of another wait for each other; the one PostgreSQL ends is answered with an error and not tried again |
| `AloneGrowsWithinPlan` without `calm` | `Access` | two invitations at once exceed the plan's limit |
| `AloneLastWordStands` without `calm` | `Access` | saving the settings undoes a suspension decided meanwhile; a profile saved undoes a new password |
| `PortalOpensTo` with two addresses that differ in case | `Access` | the portal's look-up ignores case, the unique constraint does not: with both granted, neither can log in |
| `PromptSalesMeetTheBooks` day by day without `prompt` | `Days` | the sales summary dates an invoice by the day it was drafted and takes a refunded sale off its day; the journal has the day of the entry |
| `PromptSalesMeetTheBooks` without `kept` | `Days` | a deleted invoice, sale or receipt is missing from the reports and not from the journal; a closing empties the income account |
| `PlainWorthIsInventory` without `plain` | `Days` | stock put in, taken out or adjusted by hand makes no journal entry |
| `AloneRemindedOnce` without `alone` | `Days` | two scans at once remind twice of one invoice |

Met on the way, and modelled as they are: `Role.is_system` keeps no role from
being deleted; `month_total` of the sales summary spans only the days asked for,
so that a report of 30 days misses the first on the 31st (`reports/views.py:85`);
a product that alone earned everything is of class C; a fifth of the movements
can never be anomalies, so five movements have none; a reorder suggestion
divides the demand of a window that is one day longer than its divisor.

`SettledOrBlocked` names one more in its last alternative: of two payers who
complete checkouts for one balance the second is charged and never recorded.

## Proofs

TLAPS checks these for every value of the constants, under the `ASSUME`s of
the modules (finite index sets, finitely many requests in flight where money is
summed over them, naturals where amounts are meant, distinct row identities),
which TLC evaluates in the runs.

* `StockLedgerProofs!TypeCorrect` - `Spec => []TypeOK`. Inductive as it
  stands; the work is that draws never exceed balances and that the average's
  divisor is positive.
* `StockLedgerProofs!LedgerCorrect` - if every bill of materials takes whole
  parts (`ExactBom`), on hand is the sum of the movements. Every operation
  writes row and movement from the same number, except assembly, which
  multiplies first and rounds each apart: the assumption is exactly what makes
  the two roundings agree, and TLC refutes the property with `HalfParts`.
* `StockLedgerProofs!SoldUnitsStaySold` - a serial unit that is out stays out:
  receipts refuse recorded numbers, and picks come from the units in stock.
* `StockLedgerProofs!NeverOvervalued` - no stock row is ever valued above the
  highest price paid for its kind. A rounded average of values within a whole
  bound stays within it (`BlendAtMost`). An assembly rounds twice, the unit cost
  it records and the average it keeps, and the two never add up to one more
  (`AssembledAtMost`).
* `StockLedgerProofs!AppearancesAreCounted` - an action property of every
  operation: units and balances appear in a warehouse only in a step that raises
  its on-hand quantity.
* `StockLedgerProofs!SerialsMirrorStock` - while nobody changes the tracking
  flags or deletes a variant that has stock, the units in a warehouse are as many as its stock rows count. A request
  for a fraction of a unit is refused, so every pick takes exactly the quantity
  asked for out of the set, and a receipt adds as many fresh numbers.
* `StockLedgerProofs!BatchesMirrorStock` - the same of batch balances, where
  each row is rounded on its own. The strengthening `BatchesRanked` says that
  the batches of a product were created in some order and only recorded ones
  hold stock. So a FEFO draw empties some batches, leaves others alone and draws
  at most one in part (`OnePartial`): the balances left add up to the rounded
  remainder (`DrawnBalance`).
* `TradingProofs!TypeCorrect`, with the strengthening `Linked` (a
  handler that settles an intent has one, and an intent names an invoice).
* `TradingProofs!RacesNeverOvercredit` - if invoices are not deleted,
  then whatever number of requests race, an invoice never shows more paid than
  was collected and is never shown as paid before its total was collected. The
  inductive invariant says the same of every *snapshot* a handler holds:
  payments only grow, so what was true of a row when it was read stays true of
  the snapshot, and what a stale handler writes is bounded by its snapshot plus
  the payment it makes.
* `TradingProofs!AloneTheBooksMatch` and `AloneSettlesOnce` - served one
  at a time, with edits, deletions and late webhooks in between, payment rows,
  ledger and invoice agree, nothing is overpaid and an intent makes one payment.
  The invariants of the proofs of this sort (`AloneInv`, `CalmInv`, `PlainInv`)
  say that at most one handler is at work and that its snapshot *is* the
  current row; what it checked on the snapshot is then true of the row, and the
  identities between the tables are inductive.
* `SalesPipelineProofs!TypeCorrect` and `StatusesStayBacked` - under any
  interleaving, edit and deletion a status of a quotation is backed by an answer
  or an order, and so is every snapshot an edit may write back.
  `KeptOrdersStayBacked` (`RaceInv`): counts never exceed what the invoices bill
  and a fulfilled order is billed in full, under any interleaving, until a
  document is deleted or an invoice taken off its order; invoices written by
  hand only add to what is billed.
* `SalesPipelineProofs!AloneDecides` and `AloneOrdersAddUp` - served one at a
  time, a quotation is answered once and becomes at most one order, and the
  invoices of an order bill what it counts and no more than was ordered. The
  second holds until an invoice is put on an order by hand, and assumes that a request lists a line once (`ListedOnce`): the code
  compares each entry with the line on its own.
* `PurchasingProofs!TypeCorrect`, and three properties that hold under every
  interleaving, stale edit, deletion and crash, each from an inductive invariant about
  rows and snapshots:
  * `OrdersAreApproved` (`SignedInv`): a status of approved or converted, on the
    row or in a snapshot, has an approval behind it, and approvals are never
    taken back.
  * `GoodsAreStocked` (`GoodsInv`): counts, on the rows or in a snapshot, lie
    within what is in stock, and a snapshot that says received has all goods of
    its order there, under each item as much as it orders (what a receipt called
    another product included, which is as much as the code checks). Stock taken in only grows, so neither becomes false while
    a request waits. That a receipt which lists an item twice counts its last
    entry only is bounded by what arrives (`CountedType`, `EntryArrives`).
  * `ClaimsArePaid` (`PaidInv`): a payment is three commits, and posting is the
    last. Of the orders not deleted, what is posted plus what the requests in flight have yet to post
    (`DueFor`, a sum over the requests) never exceeds the payment rows; an
    order's `amount_paid`, and what a handler is about to make of it
    (`ToCredit`), does not either.
* `PurchasingProofs!CalmAddsUp` - in a calm behaviour (requests one at a time, no
  crash, no receipt that lists an item twice or as another product, no deletion
  under a request; `OwnItemsOnly`: none that lists another order's items) over-receiving and overpayment are blocked, an order's
  status tells what has arrived, payment rows, order and ledger agree, and a
  purchase request is decided once.
* `PosTillProofs!TypeCorrect` and `RefundsAreReturned` (`ReturnInv`) - a sale
  shown as refunded, on the row or in a snapshot that an edit may write back,
  has had its goods put back, whatever overlaps, unless its lines were deleted
  with it before (`stripped`).
* `PosTillProofs!AloneOneSession` and the action property `AloneClosedStays` -
  served one at a time, edits and deletions included, a register has one open
  session and a closed one keeps its outcome.
* `PosTillProofs!PlainTillBalances` (`PlainInv`) - without edits and deletions a
  closed session expects what its drawer holds, sale and refund mirror each
  other in the ledger, and missing goods are those of completed sales.
* `GeneralLedgerProofs!TypeCorrect`, and `LedgerStaysBalanced` - if all amounts
  are whole cents (`WholeCents`), the accounts balance under any interleaving of
  closes, expenses, edits, crashes and switched accounts. `Postable` says the
  sides of an entry are equal before rounding. The invariant `InWholeCents`
  says that everything an entry can be made from is a whole number of cents:
  the rows, the accounts, and for a close the sums the request has read; so
  rounding is the identity, and summing over the accounts distributes over the
  entry. `RoundedSale` shows that the assumption is needed.
* `GeneralLedgerProofs!ReportsAlwaysReconcile` - under the same assumption the
  balance sheet over all accounts, inactive ones included, misses Assets =
  Liabilities + Equity by exactly the result the profit and loss report shows:
  the sum over all accounts splits into the five kinds, and their total is zero.
* `GeneralLedgerProofs!CalmClosesRetain` - while closes do not overlap and no
  account is switched off, closing retains what the business had earned by some
  moment, although business goes on between what a close reads and what it
  posts, and whatever is rounded.
* `GeneralLedgerProofs!DocumentsStayPostable` - with whole cents and no document
  that comes to nothing (`Priced`), every entry a document has still to post has
  equal sides and a total. A document worth nothing is left out because
  `create_journal_entry` does refuse it.
* `TradingProofs!DaysTypeCorrect` and `BooksTypeCorrect` - types of the days of
  trading, first without the journal, then with it: the proofs below use the
  smaller invariant where it is enough.
* `TradingProofs!ReportsAgreeWithTheJournal` (`ReportsOK`) - the inductive
  invariant says that what the documents on sale come to, net and in tax, is
  what all days of the journal carry on revenue and tax - and what each day
  carries as long as documents are decided on the day they are made, as report
  and journal date them apart otherwise (`SalesBooked`) - and that every day's
  receipts are what it carries on the inventory account and on the cost of goods
  sold together (`PurchasesBooked`): a sale or refund moves its cost between the
  two. Both hold until a sale or receipt is deleted or the books are closed (`kept`). The
  summary adds up by day and the journal by entry; the best sellers add up by
  product what documents add up by line, which is summing a table by columns
  instead of rows (`SumSwap`), and list it in the order of the ranking
  (`SumReindex`; that there is a ranking is `RankingExists`).
* `TradingProofs!StockIsWorthItsAccount` (`PlainWorth`) - quantity times average cost,
  summed over the products, is the inventory account: a receipt or a refund adds
  to both what it is worth at its own cost, a draw takes from both at the
  average. The hypothesis `WholeAverages` says that the new averages of receipts
  and refunds are whole numbers of the smallest unit, as they are in the run.
  Without it the property is false of code and model alike, by what was
  rounded off; `StockLedgerProofs!NeverOvervalued` bounds that. It holds until
  stock is moved by hand; deletions and closings touch neither side.
* `TradingProofs!DeadStockWasIdle` - the UTC date is the local day or the day before
  it, so a movement after the cutoff is never dated before it, and one on the
  day of the cutoff is never reported as later.
* `TradingProofs!RemindersAreNotRepeated` (`ScansAlone`) - a scan adds a reminder in a
  later commit than it looked. While one scans at a time, what it is about to
  add is not pending, and it holds one reminder at a time. Low-stock alerts
  need no such assumption: they are looked for and added in the step that
  trades.
* `TradingProofs!NobodyHearsTooMuch` - every socket message and mail is of a row that
  is in the table and addressed to its reader, because hooks run after the
  commit and rows are never taken back.
* `PlatformProofs!TypeCorrect`, `RowsAreUnique` and `NumbersHaveNoGap` - under
  every interleaving, refusal, crash and deadlock quantities stay natural, no
  key the database can tell apart is inserted twice, no number is on two
  documents, and as long as no document is numbered ahead of being saved the
  numbers run on without a gap. `LockInv` is why: of a row that has to be
  unique or that exists one transaction at most holds a copy (`Exclusive`), so
  until it commits the table has the row as it was found (`Kept`). `ReckonInv`
  adds that a copy is what the table holds plus the steps taken so far, and
  that every partial sum was one the row could pay. `NumberInv` adds that the
  numbers given out, on documents or still in hand, are 1 to the counter, each
  once.
* `PlatformProofs!LocksKeepThePromise` - the refinement. A commit of `StockLocks` is
  a step of `StockPromise` (`CommitServes`): by `Exclusive` and `ReckonInv` all its
  rows move by what its operation asks for, on what is in the table at the
  commit. Every other step, `Take`, a rollback, the saving or loss of a document
  included, is a stutter. The assumption is `OperationConstants`: a transaction
  numbers at most one document of a kind. Each caller of `next_value` and of
  `create_journal_entry` does so once in its transaction.
* `PlatformProofs!CirclesTakeTwoOrders` - sales, stock-outs and downward
  adjustments of one line, and receipts without a batch, take the till's counter,
  the stock row, the batch's balance, the batch, the serial units and the
  journal's counter in this order (`LockRank`, `OneLineClimbs`). A transaction
  holds only rows of steps it has come past (`CirclesInv`), so whoever it waits
  for waits, if at all, for a row of higher rank (`WaitsClimb`). Those `r` waits
  for whose rank is higher, and those who do not lead back to `r`, are closed
  under waiting and without `r`: hence no circle (`CirclesClimb`), however many
  wait. The assumption is `MixedOperations`, which only says what `mixes` means.
* `PlatformProofs!TenancyTypeCorrect` and `SessionsTypeCorrect` - types. `Founded`
  has to be added (the company a request in flight will write to has a row), and
  for the portal that keys are numbers given out before and never twice
  (`AccountIds`; for users `UserIds`).
* `PlatformProofs!DoorsOnlyRestrict` - `Sessions` implements `Tenancy`: each of its
  steps is a step of `Tenancy` or leaves its tables alone. What is proved of
  `Tenancy` holds behind the doors as well.
* `PlatformProofs!OwnersAlwaysPass` - a role has the codes it was seeded with or
  those it was last granted, and a user's role exists (`RolesKnown`); and every code
  the guards of the API ask for is in the catalogue (`GuardsInCatalogue`), all of
  which sign-up seeds for Owner.
* `PlatformProofs!NobodyEnters` - an action property: whoever logs in, opens a
  socket, gets a portal token, starts a request or has one served in a single
  statement (a role, a branch, a user, portal access), the step itself looks at
  the company as it is. What was let in before goes on: requests in flight,
  sockets, and the access tokens a refresh token is renewed for. That needs the users behind tokens to be the ones they were issued to.
* `PlatformProofs!PassesNeverChangeHands` - an account that is in force and has a
  token was issued it (`PassInv`), because an account granted anew has a new key.
* `PlatformProofs!PlansAreKept` and `LastWordStands` - served one at a time. What a
  request read is still what the tables hold (`Fresh`), so what
  `enforce_plan_limit` counted still counts, and saving a whole row puts back
  nothing that was decided, chosen or granted since (`WordInv`; a grant between
  its two commits has its account, and it is the one it created,
  `GrantedStand`).

`SumTheorems` has the facts about sums over finite sets these proofs share: what
a sum does when one element changes, joins or leaves, when all but one to three
elements are zero, that it distributes over addition, that a table has one sum by
rows and by columns, and that a sum may be taken along an injection. They are
proved from the recursion equation of the folds by induction on finite subsets.

## What is only model-checked

* Liveness: `SettledOrBlocked` and `RequestsEnd`. TLAPS has no
  rules here for `ENABLED` and the fairness built on it.
* The algorithms of `DemandInsights` and the ABC classes, on the bounded inputs
  `ReportChecks` lists: they are about squares and ratios of sums, which the
  provers' arithmetic does not reach.

Every invariant and every action property a run checks without fairness is a
theorem; where the theorem has a hypothesis the run's constants satisfy, it is
named above.

## What is not modelled

* **Client session** (`src/frontend/lib/core`): the HTTP interceptor's refresh
  among concurrent requests, logins and logouts. It is a program of its own
  in Dart, next in the plan.
* **Screens of the client**, and the live list of notifications merged from a
  fetch, a socket and local marks: presentation.
* **Payment gateways**: signatures, HTTP and the checkout pages. Their effect,
  a checkout that succeeds or fails and a webhook that comes late or twice, is
  in `InvoicePayments`.
* **Live broadcasts of stock** and process plumbing (`config`): they carry
  nothing that is kept. Which sockets may be opened is in `Sessions`.
* **Migrations, admin pages, tests, generated code**: no behaviour at run time.
* In **Tenancy**: superusers and `create_platform_admin`, changing a user's
  e-mail by `PATCH` (the address is an identity here), the operator's overview,
  which only reads. The supplier portal differs from the customer's in its
  model only and is not repeated.
* In the **stock ledger**: deleting a warehouse (stock, balances and movements go
  with it; its serial units stay, in stock and without a warehouse) and deleting
  a product (nothing of it stays). `DeleteVariant` is of variants no document
  line names, as the others are protected. In **accounting**: renaming accounts.
* In **StockLocks**: more than one batch of a product in a warehouse, draws that
  name their serial numbers (the oldest unit stands for them), and the shared
  locks foreign keys take at commit.
* In the **pipeline**: the writable `quotation` of a sales order, which the code
  reads nowhere, and edits of the lines.
* `TradingDays` has one warehouse and carries out requests whole, which are the
  matter of `StockLedger` and the modules with handlers. Payments to suppliers
  and expenses are left out: no report or property there reads their accounts.
  So are deletions of products and edits of a due date. Receipts are a sum per
  day, of which `DeleteReceipt` takes one that may be in it.
* SQLite (`LOCAL_DEV_MODE`), which has no row locks. Names, wording, layout, CSV.
  Currency is a label. Discounts are in `TradingDays` and `TradeReports`; the
  other modules have what is left after them as a subtotal.

## Plan

The project keeps to a dozen runs, so that all of it can be checked again in
well under an hour: a new module brings one passing run, and merges or replaces
another.

Done: `StockLedger`, `InvoicePayments`, `SalesPipeline`, `Purchasing`,
`PosTill`, `GeneralLedger`; `StockLocks` with its refinement of `StockPromise`
and numbering; `Tenancy`, `PermissionCatalog`, `Sessions`; `Notices`;
`FinancialReports`, `TradeReports`, `DemandInsights` and their composition
`TradingDays`; the proofs above.

Left, in this order:

1. `ClientSession`: token refresh among concurrent requests, login and logout
   (every request ends, logout is final).
2. Abstract specifications of the documents: an invoice as a debt that is paid
   off, an order as a budget of quantities, with the serial behaviours of
   `InvoicePayments` and `SalesPipeline` shown to implement them.
3. The merge of live notifications in the client.
