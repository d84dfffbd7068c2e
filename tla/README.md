# Online Saler in TLA+

Online Saler sells second-hand garments in Kenya. Every garment is *one of
one*: there is exactly one inventory row for it, and once it is sold it is
gone. Shoppers pay with M-Pesa, whose answers arrive minutes later, twice, out
of order or never. What was sold is then picked, packed, sent to a store and
handed over by people who work on the same rows at the same time; some of it
comes back, and the money with it; affiliates and riders are paid weekly.

This directory holds TLA+ models of the sale, the fulfilment, the refunds and
the commission, the payout desk, the notification outbox and the warehouse
shelves, the TLC configurations that check them on small instances, and the
TLAPS proofs that hold for any number of orders, garments, payments, users and
overlapping transactions.

    tlc -workers 2 -config SaleContention.cfg MCSale.tla
    tlc -workers 2 -config ShelvesRoom.cfg MCShelves.tla
    tlapm SaleProofs.tla

## 1. Inventory of the system

Paths are relative to `src/`; `operations/` stands for `apps/api/src/operations/`.

### 1.1 The modelled components

| Component | Code | State it keeps | Operations |
| --- | --- | --- | --- |
| Checkout and cart reservations | `apps/storefront/src/checkout/checkout-service.ts`, `packages/database/src/reservation-maintenance.ts` | `InventoryItem.status`, `Order`, `CheckoutDraft`, `OrderItem` | `startCheckout`, `releaseCustomerCheckoutReservations`, `releaseExpiredReservations`, `releaseUnpaidOrderReservation` |
| Payment initiation, callbacks | `apps/storefront/src/payments/payment-service.ts` | `Payment`, `MpesaCallback` | `initiateMpesaPayment`, `handleMpesaCallback` |
| Status query job | `apps/storefront/src/payments/payment-reconciliation.ts` | `Payment.providerQueryCount` | `reconcilePendingPayments` |
| Settlement | `packages/database/src/payment-settlement.ts`, `deposit-settlement.ts` | all of the above, `OrderFulfillment` | `settleSuccessfulPayment`, `settleDepositPayment`, `lapseDepositHold` |
| Review desk | `operations/operations-payment-review.service.ts` | `Payment`, `MpesaCallback` | `settle`, `reject`, `resolveCallback` |
| Closure | `packages/database/src/order-closure.ts` | `Order`, `CheckoutDraft`, `InventoryItem` | `closeUnpaidOrder`, `writeOffPaidOrder`, `recordRefund` |
| Fulfilment | `operations/operations-fulfillment.service.ts`, `operations-fulfillment-state.ts` | `OrderFulfillment` (the task), `FulfillmentItem` (the scans), `Order`, `InventoryItem` | picking, packing, routing, transfer, hand-off, delivery by code, failed delivery, exception, write-off, refund |
| Refund requests and after-sales | `operations/operations-refund-request.service.ts`, `operations-after-sales.service.ts`, `operations-fulfillment.service.ts` (`recordRefund`) | `RefundRequest`, `RefundRecord`, `AfterSaleReturn`, `CustomerServiceCase` | request, review, cancel and complete a refund; request, decide, receive, refund and restock a return |
| Commission | `operations/operations-affiliate.service.ts`, `operations-commission-policy.ts` | `Commission`, its adjustments | created by the settlement, confirmed, held, reversed in full or by the share of an item, rejected, paid |
| Payout desk | `operations/operations-payout.service.ts`, `operations-payout-batch.service.ts`, `mpesa-bulk-format.ts`, `operations-payout-sheet.ts` | `Payout`, `PayoutBatch`, `PayoutBatchLine` | `markPaid`, `exportBatch`, `reconcile`, `cancelBatch` |
| Notification outbox | `packages/database/src/notification-outbox.ts`, `apps/storefront/src/notifications/` | `Notification` | `enqueueNotification`, `dispatchPendingNotifications`, retry and cancel by staff |
| Deposit plan, price rules | `packages/business-rules/src/deposit-plan.ts`, `commission-rate.ts` | none (pure) | the split of a total, of a lapsed deposit, the commission |
| Warehouse shelves | `operations/operations-warehouse.service.ts`, `warehouse-capacity.ts`, `operations-product-control.service.ts` | `WarehouseLocation`, `InventoryItem.locationId` | place, move, resize and close a shelf, pick, restock |
| Intake batches and products | `operations/operations-product-batch.service.ts`, `product-batch-cancellation.ts`, `product-restoration.ts`, `apps/api/src/product/prisma-product.repository.ts` | `ProductBatch`, `Product.status` | barcode, rework, publish, reject, complete, cancel and restore |

How they interact. All of them share one PostgreSQL database and nothing else.
The storefront and the back office (`apps/api`) are separate processes; the
sweeps and the status query are HTTP routes a scheduler calls (every minute;
the lapse sweep hourly), and the reservation sweep is also called inline by
the checkout, the payment handlers and the product pages. Safaricom is called
outside any transaction and answers to a callback route. The fulfilment starts
from the task that the settlement creates and shares the order and the inventory
rows with everything above.

Three things make this hard.

- **Ownership is inferred.** An inventory row does not say whose it is.
  `lockOrderReservationInventory` (`reservation-maintenance.ts:21-41`) decides
  that a garment belongs to an order if no *other* order that lists it has an
  ACTIVE draft. A garment is on the items of every order that ever tried to buy
  it, so each routine that touches stock depends on what other orders may be
  doing.
- **Money arrives late.** A prompt outlives the five-minute reservation it was
  sent for; its answer may find the order swept, released, lapsed, cancelled or
  paid by another prompt, and the garment sold to somebody else.
- **Half of the fulfilment does not lock.** Every handler reads the order and its
  task, checks them, and then opens a transaction. Some take the order lock there
  and check again (`scanItem`, `completePacking`, `completeOrder`, `receiveAtNode`,
  `assignNode`); others write the task by its id alone (`claimPicking`,
  `moveToHandoff`, `markDeliveryFailed`, `markException`, the assignments); others
  lock and check only part of it again (`sendToNode`, `resolveException`).

- **Money leaves through many doors.** Three desks record refunds against one
  payment, each with a sum of its own; a payee is paid by hand, by a bulk file
  of the M-Pesa portal that is reported on days later, or one commission at a
  time.
- **Counted, then written.** A placement counts the room of a shelf, a
  cancellation or a restore decides about a whole batch, a dispatcher reads what
  is due: all of them write later than they read.

What makes the sale correct: an open reservation holds its garments and holds
them alone; nothing is off sale for no reason; no leg of an order is charged
twice; no money is lost sight of; picking starts only on orders paid in full;
what is closed stays closed; every reservation and every hold ends. What makes
fulfilment correct: a garment goes out with one order only, and with all of that
order; nothing is sealed unscanned; a task, wherever stale writes send it, never
gets ahead of its stock. What makes the money
desks correct: no desk gives back more than came in; a commission that a return
may still take away is not paid; nobody is paid twice for one thing. The outbox
is correct if every message is sent, once, or given up; the warehouse, if no
shelf is given more than fits, and nothing that is on sale is cancelled away.

### 1.2 The rest of the system (not modelled)

| Component | State, operations | Why not |
| --- | --- | --- |
| Image and detail jobs (`apps/api/src/product/*-runner.service.ts`, `apps/api/src/ai`) | `ProductImageJob`, `AiJob`; claim, run, retry | see section 6 |
| Riders (`operations-rider.service.ts`) | identities, pages, pay rates | their steps are in `Fulfillment`, their pay in `Payouts`; the rest is records |
| Customer service desk | cases and notes | independent records; that a case blocks a commission is in `Refunds`, that it suspends a payout line in `Payouts` |
| Access control, integration API, reports, user interface, image processors, label printing, deployment | see `PROJECT.json` | static tables, pure input and output, or read only |

`PROJECT.json` lists every component with its status and, under `hazards`,
each place of the code that is hard to test, with the properties aimed at it.

## 2. The modules

| Module | What it is |
| --- | --- |
| `ReservationBook` | the abstract specification of the sale: reservations of one-of-one garments open whole, end whole and exclude each other. No payments, no clock |
| `Sale`, `MCSale` | every transaction of checkout, payment, settlement, review and closure as one action, and its properties; `MCSale` adds the symmetry sets TLC uses |
| `SaleProofs`, `SaleMoneyProofs` | the theorems about `Sale`: types, reservations and closed orders; and, on top of them, what money and stock stand for and the refinement of `ReservationBook` |
| `Parcels` | the abstract specification of fulfilment: the garments of a paid order move together, from shelf to customer, while no other paid order lists them. No tasks, no scans, no staff |
| `Fulfillment`, `MCFulfillment` | every handler of the task, in one step or two |
| `FulfillmentProofs` | the theorems about `Fulfillment` |
| `PriceRules`, `PriceRulesProofs` | the arithmetic of deposits and commissions as operators, and what holds of it for every amount |
| `Refunds`, `MCRefunds` | the refunds, returns and commission of one order; extends `PriceRules` |
| `RefundsProofs` | the theorems about `Refunds` |
| `PayLedger` | the abstract specification of the payout desk: what is owed is paid once, and a receipt accounts for one payout |
| `Payouts`, `MCPayouts` | the payout desk with its transactions, files and reports |
| `PayoutsProofs` | the theorems about `Payouts` |
| `Outbox`, `MCOutbox`, `OutboxProofs` | the notification outbox and its dispatcher |
| `Shelves`, `MCShelves`, `ShelvesProofs` | shelves, garments and one intake batch under overlapping transactions |

The modules meet where the code does. `Fulfillment` starts from the payments
that `Sale` settles, with the double sale that `Sale` exhibits as a possible
start; `Refunds` takes the order up where it was paid, in full or in part, and
computes with `PriceRules`; `Payouts` starts from commissions and fees that
`Refunds` and `Fulfillment` earn, and knows of a return or a freeze as a mark on
the item; `Shelves` has the sale and the fulfilment of a garment as single
steps of its stock row, since all that matters there is where it lies.

### How `Sale` corresponds to the code

**State.** Tables are functions over `Orders`, `Payments` and `Garments`
(a draft and an order are one-to-one in the code, so both are indexed by
the order). `prompt` is what Safaricom knows and the database does not: no
prompt, an open one, or its result code. `call` is the server process between
its two transactions of `initiateMpesaPayment`.

**Atomicity.** Each transaction locks the order row (`FOR UPDATE`), then the
inventory rows, and only then reads the drafts of other orders; two
transactions that could disagree about a garment wait for each other. So a
transaction is one action. What is *not* one transaction is several actions:
claiming the attempt (`InitiatePayment`), Safaricom accepting it
(`PromptArrives`), and storing the outcome (`RequestAcknowledged`,
`RequestRefused`, `RequestOutcomeUnknown`) or crashing before that
(`ServerStops`). The sweep that handlers call first is a transaction of its
own and appears as `SweepReservation`, which may run at any time. The status
query is two: a run of the job lists the payments that were asked about less
often than the limit (`ListForQuery`; `asking` counts the runs that hold a
payment on their list), and later asks about one and records the answer under
the lock of the order, if the payment is still PENDING (`QueryWithoutAnswer`,
`QueryFindsMoney`, `QueryFindsFailure`, else `QueryComesToNothing`). Nobody
looks at the count again when it is raised, so runs that overlap go beyond
the limit, and `TypeOK` says by how much. Safaricom's answer is final, so asking
and recording are one action.

**Time.** The code asks two questions of the clock: has the draft expired
(`expired`), is the balance overdue (`overdue`). `ReservationRunsOut` and
`BalanceFallsDue` may happen at any moment after the clock starts.

**Data.** Prices, receipts, phone comparisons and the amount of a callback are
one Boolean, `matches`. Failure codes keep only the distinctions
`classifyMpesaFailure` makes. Refunds are modelled where they change the order:
once they reach what was paid (`RefundInFull`).

**Environment.** `PromptArrives`, `PromptEnds` and `Answered` stand for
Safaricom and the shopper and are marked external in the map. A callback may
come at any time after the prompt ended, repeatedly, before the request id is
stored, or never. A reviewer settles money that arrived and rejects money that
did not: the desk exists to compare with the merchant statement.

**Not in `Sale`.** Changes of the delivery details or of the phone in an open
checkout, the PUBLISHED check, reminders, notifications, commission, and every
step of fulfilment after the picking task exists. A resubmission of an
identical cart returns the existing order and is no step. A customer is the
phone they pay with. Of `OrderStatus`, `Sale` has
the values its components write, plus `UNPLACED` for a row that does not exist
yet; `FULFILLING` and `COMPLETED` are in `Fulfillment`.

**Refinement.** `ImplementsBook` maps the open reservations (`held`: the
garments of ACTIVE drafts) and the garments on sale (`shelf`) to
`ReservationBook`. It says that a checkout takes all of its cart or nothing,
including what it takes back from the shopper's earlier attempts; that a
reservation ends as a whole; and that nothing else touches a reserved garment.

### How `Fulfillment` corresponds to the code

**State.** `order`, `inv`, `node` and `method` are columns of the order and of the
inventory; `task[o]` is the `OrderFulfillment` row, or `None` before the payment;
`verified[o]` is the set of scanned items. `task[o].code` is the code that
`deliveryCodeHash` answers to, counted from 1 (0: none), `label` the store that
`packageCode` names, and `printed` the label that was on the sheet when
`packageLabelPrintedAt` was set. The code stores only the time: `printed` is there to
say what the sheet says.

**Atomicity.** A handler that checks everything again under the order lock is
one action: for it, whatever happened between read and lock either does not
matter or makes it refuse. (`completePacking` even compares `updatedAt`.) A
handler that writes from what it read before is two actions, `...Reads` and the
write, with `call[c]` as its memory; `CallDies` is a refusal in between, a
conflict or a crash. `moveWithEvent` looks at the status again in its
transaction but locks nothing, so the two ways back of a failed delivery are two
actions as well. The verification of a customer's code and the completion are
two transactions, hence `VerifyCode` and `CompleteOrder`. A stale write that lands
inside the transaction of a handler that holds the lock is taken as written
before or after it.

**What the model assumes of the sale.** A payment that settles is `Settle`: the
stock of the order is reserved for it (`AVAILABLE` here stands for every
status before `PAID`) or already PAID, which is how a garment comes to be sold
twice (`SoldOnce`). Drafts are not in this module: a garment that is PAID or
further is in no ACTIVE draft (`ReservationExclusive`), so `Owned` only asks
for the status and for other paid orders. The amount is covered by every
settlement, so the check of the payments at the handover is left out. A
lapsed deposit (`DEPOSIT_EXPIRED`) can be paid late, written off and refunded.
What a write-off does to garments under another order's deposit is the
subject of `Sale`.

**Not in `Fulfillment`.** Wrong codes and their lockout, barcodes that do not
match, rider fees and identities, drop-off photos, notifications, which node an
employee belongs to and whether a node supports the method, packing details,
`assignAfterSale`, `recordDeliveryCost`, returns after completion, partial
refunds, and `cancel` (an unpaid order has no task; it is in `Sale`).

**Refinement.** `ImplementsParcels` hides tasks, scans, nodes, codes and
requests. It says that no step of a stale request ever reaches stock or order
in a way that `Parcels` does not allow: picking, packing and handing over move
all garments of one order from one status to the next, while no other paid order
lists any of them.

### How `Refunds` corresponds to the code

**State.** One order. `booked` is the sum of the `RefundRecord`s, by what they
hang on, `itemBack` the part that belongs to each return; `promised` is the sum
of the live requests; `receipts` are the references as they are spelled in the
table, because `recordRefund` stores what was typed while the two other desks
convert it to capitals. `case` has one case per return and one that customer
service keeps by hand. `clock` counts from the completion; `Window` ticks are
the 72 hours of the return window.

**Atomicity.** Every handler locks the order, or its own request, reads again
and writes, so each is one action. What can go wrong goes wrong between
handlers: `CompleteRequest` does not look at the ceiling again, `RecordRefund`
does not count what is promised, `LapseDeposit` raises its request whatever
requests there are, and `RefundReturn` counts returns only.

**Data.** Prices are natural numbers, and the shares of the commission are
computed as in the code, by largest remainder. `Amounts` are the sums a desk
may type in. Staff are `Agents`; four eyes are checked where the code does
(`ReviewRequest`). Evidence, notes and notifications are left out; a repeated
`RecordRefund` of a part is taken as going through, as it does for a customer
who cannot be texted (`Outbox` has the other case).

### How `Payouts` corresponds to the code

**State.** The items of one week, commissions and rider fees: `item` is as
much of the row as concerns its pay, `key` the payee it comes under on the
sheet (the key of a walk-in rider is made of phone and name, which can be
edited), `payout` is indexed by its unique M-Pesa code. `portal` is what became
of each line outside: it may be executed late, after the file was cancelled,
or, when the file is sent again, twice (`Tries`).

**Atomicity.** `markPaid`, `exportBatch` and `reconcile` find the items they are
about, lock them, read the sheet again and write. They are split at the lock
and at the commit; `tx` is the memory of the user's transaction. A row that is
locked does not change; a row that was *not* on the first sheet may. The export
has an advisory lock (`OneExport`), the reconciliation the lock of its file
(`BatchLocked`); payment by hand has neither.

**Reports.** A report is any set of at most `MaxRows` rows, each an execution of
a line, of this file or another, with our reference or with a number, in full or
masked (`Printed`; rows of all kinds may be in one report). `matchResults` is a
loop in which one row decides where the next may go, and so it is here:
`ReconcileRow` takes the next row, the successes before the failures and either in
any order. A row with our reference is tied to that line; another to the lines of
its amount and number that no other row has claimed, or, when all are claimed, to
those (`Candidates`), and to none if there are several. A masked number fits
every number with the same digits in view (`PhoneFits`, `Shown`); one with fewer
than six digits in view fits none, and such a row is left out. What follows for
paid lines is `PaidLineHasItsReceipt`: the receipt is of the line's amount and of
the digits in view, of the line's *number* only if no row is masked, and the
line's *own* only if all rows carry our references. `PayoutsTwins` (section 3.2)
shows a line paid by a colleague's receipt.

**Left out.** Weeks, the layout of sheet and file, chunking of large files.

### How `Outbox` corresponds to the code

A change and its message are one transaction (`Change`); the insert of a key
that exists makes PostgreSQL refuse the rest of that transaction, although
the code catches the error. A run reads the due rows with their attempts
(`Start`), claims one by comparing the attempts (`Claim`), which also sets the
backoff, sends outside any transaction (the provider's steps), and writes the
outcome by id. `Crash` ends a run at any point; `LosesAnswer` and `LosesNote`
are a text that was sent without the row knowing. `due` stands for
`nextAttemptAt`; a backoff may end while the text is still being sent. A crash,
a lost answer and an outlived backoff mark the message in `mishap`: those are
the cases in which a second text is unavoidable with this design.

### How `Shelves` corresponds to the code

**State.** `product`, `item` and `shelf` are the rows; `batch` and `cancelled`
the intake batch with its `archivedProductIds`; `tx` are the transactions that
have read and not yet written; `holder` the row locks (`FOR UPDATE`) of the
shelves. The comment of the module names the statuses that are merged.
`excused` is a history variable: garments that were put on a shelf which nobody
held for them.

**Isolation.** A placement runs READ COMMITTED: it lists its garments, locks the
shelves that are *in use* (`Lock`), plans on what it sees under the lock, and
writes by id (`Place`). `moveInventoryItem` and the after-sales desk lock every
shelf. Cancelling and restoring run SERIALIZABLE: such a transaction fails
when a row it is to write was written since it began (`Loses`), and of two that
each read what the other writes only the first commits (`Pivot`). A last scan
(`Pick`, `Picked`) and `completeBatchIfDone` (`Count`, `Complete`) read and write
without either. `Abort` is a refusal, a failure, a deadlock broken by the
database or a crash.

**Simplified.** Locks are taken at once, and the refresh of a shelf row is one
step with the transaction that causes it, except for a pick, where it matters.
A garment whose order was written off may be in any step from PICKED on, which
allows more than the code does. Unpublished garments, image and calibration
checks, barcode numbers, dry runs and the creation of shelves are left out.

### Faults

The operators commented `fault:` are plausible bugs. No action uses
them; each property is shown able to fail by replacing a definition of the
model with one of them (`mutants` in `PROJECT.json`).

## 3. The runs

| Run | Instance | Shows |
| --- | --- | --- |
| `sale_contention` | 2 orders, 2 garments, 1 phone, 2 payments, one failure code, 1 query each; 3.5 million states | `ReservationExclusive`, `OffSaleIsAccountedFor`, `ReportedMoneyIsKept`, `ClosedStaysClosed`, `ImplementsBook` when two orders compete while late answers, sweeps, staff and the job interleave |
| `sale_legs` | 1 order, 1 garment, 3 payments, three failure codes; 1.3 million states | `OneSuccessPerLeg`, `DepositIsAccountedFor`, `PickingOnlyWhenPaidInFull`, `SuccessIsFinal` over a deposit, a failed or doubtful attempt and a balance |
| `sale_deadlines` | 1 order, 2 garments, 2 payments, 2 runs of the query job, no symmetry; 0.5 million states | `TypeOK` (the query limit when runs overlap), `EveryReservationEnds`, `EveryHoldEnds`, `PaidMoneySurfaces` |
| `fulfillment_stock` | 2 orders, 2 garments, 1 employee, 1 request, no nodes; 1.2 million states | `ParcelHasOneOwner`, `DeliveredWithItsOrder`, `StockFollowsTheTask`, `ClosedStaysClosed`, `ImplementsParcels`: stock and orders are right whatever stale writes make of the tasks |
| `fulfillment_hands` | 1 order, 2 garments, an employee and a supervisor, 2 requests; 1.0 million states | `SealedMeansVerified`, `PackingIsAssigned` through partial scans, takeovers and double claims |
| `fulfillment_route` | 1 order, 1 garment, 2 stores and the warehouse, 2 requests, 2 codes; 2.8 million states | `TypeOK` (also: an exception of an order still to be served can be resolved), `PathsAreExclusive` over routes, transfers, failed deliveries and exceptions |
| `refunds_desks` | items at KSh 4 and 2, sums of 2, 4 and 6, 1 request, 2 agents, 2 receipts, window of 1 tick; 3.8 million states | `TypeOK`, `EachDeskWithinPaid`, `PaidCommissionIsPastReturns`, `CommissionFollowsReturns`, `RestockedIsPaidBack` while three desks refund one order |
| `payouts_files` | 2 commissions of one affiliate, 2 users, 2 files whose lines the portal executes, 1 receipt of a payment by hand, reports of 1 row with our reference; 1.9 million states | `OnePendingLine`, `PayoutsOwnTheirItems`, `PaysOnce` while two users export, pay by hand and reconcile and other desks act between export and report |
| `payouts_reports` | 2 fees, one with a key that changes, 3 payees of which two look the same when masked, 1 user, 1 file executed up to twice, reports of 2 rows with our reference or a masked number; 0.9 million states | `PaidLineHasItsReceipt`, `ResultsStand` for reports in any order and repeated |
| `outbox_runs` | 3 changes, 2 messages, 2 runs, 2 attempts, 1 crash, 1 retry by hand; 0.4 million states | `TypeOK`, `OverlapSendsOnce`, `SentStaysSent`, `EveryMessageSettles` |
| `shelves_room` | 2 garments, 2 shelves of capacity 1 or 2, 2 transactions, 1 change by the desk; 1.8 million states | `TypeOK`, `OverfullIsExplained`, `NothingOntoAClosedShelf`, `CancellationSparesSales` |

**Bounds.** `Orders`, `Garments`, `Payments`: a row of an order or a payment is
used once, so their number bounds the history. Two orders are what every
ownership rule compares ("another order"). Two garments make a
cart that is partly taken. Three payments are a deposit, a failed or doubtful
attempt and a balance. `MaxPieces` is 2 (the code: 50), so that the second
order can meet the limit; `MaxHolds` is 2 (the code: 3), and 1 where the limit
is the question; `MaxQueries` is 1 or 2 (the code: 8); `MaxJobs`, the runs of the
query job that may overlap on one payment, is 2 in `sale_deadlines`, where the
limit is checked, and 1 elsewhere. One phone is enough for competition,
since a shopper's orders compete with one another and an order with a live
prompt never gives way.

In the fulfilment, two orders are enough for "another paid order"; two requests
in flight are a read that two writes may follow in either order. The
properties speak of one task at a time, so `fulfillment_hands` and
`fulfillment_route` have one order and spend their states on staff and on
routes. `MaxCodes` bounds the delivery codes of an order: two are a code and its
replacement. It is the only counter.

In `Refunds`, the two items differ in price so that their shares of the
commission round differently, and the sums let a return be paid back in two
parts; one request is enough for a sum promised beside a sum recorded, and two
receipts for a reference used twice; the request names a case or none (`Named`). A
window of one tick has a moment before, at and after its end. In `Payouts`, two
users and two files are the two exports that must not overlap, and what a report
meets that another file, a payment by hand or another desk has paid; with one
execution of each line and one row to a report, since rows matter to one another
only in `payouts_reports`. That run gives up the commissions, the second user and
the second file for two rows, two executions and keys that change: an execution
and its repetition, or the rows of two riders that cannot be told apart, and one
more reports than the file has open lines. Reports of another file and keys that change
under a payment by hand meet in no run together; the theorems cover them. The
symmetric constants are the ones that no definition tells apart. In `Outbox`,
two attempts are one that fails and the last; `MaxCrashes` and `MaxRetries` bound
what may happen again and again, and three changes queue two messages because the
second refund has the key of the first. In `Shelves`, a capacity of 1 or 2 makes
a shelf full with one garment or with both, two transactions are every pair that
can overlap, and `MaxChanges` is the one decision of the desk that falls between
a read and a write. The proofs of section 4 do not depend on any of these bounds.

**Deadlock** is not checked: when every order is closed and every payment
finished, every message settled or every bounded resource used, the system
really has nothing left to do.

**Fairness.** `FairSpec` of `Sale` assumes that time passes and that both sweeps
keep running (`configure-production-scheduler.sh` schedules the reservation
sweep every minute and the lapse sweep every hour). `FairDelivery` adds that a
callback is delivered at least once; `FairQueries` does not, and assumes instead
that the server stores its answers and the status query keeps running. No
fairness is assumed of the shopper, of staff or of the prompts. `FairSpec` of
`Outbox` assumes that the scheduler calls the dispatcher (every minute), that a
run goes on unless it crashes, that the provider answers somehow or the request
times out, and that backoffs end. No fairness is assumed of staff; crashes are
bounded, since a dispatcher that crashed for ever would settle nothing.

### 3.1 Where the code departs from what it says

`sale_sold_once` is a listed counterexample to a sentence of the repository,
quoted in `findings` of `PROJECT.json`: order A is swept while its prompt is
open, B reserves and pays; A's late money is settled too, since stock that is
PAID counts as paid by A (`SoldOnce`: `docs/modules/payment-exceptions.md:31-32`).
Two PAID orders, two picking tasks, one garment.

### 3.2 Further disagreements

More sentences are refuted by configurations that are kept for rerunning by
hand; each ends in a short counterexample. The properties stand, with the
sentence they state, at the end of their module. A configuration that names
several properties has all but one commented out: uncomment the one to check.

| Configuration | Sentence refuted | What happens |
| --- | --- | --- |
| `SaleWriteOff` | `WriteOffSparesOthers`: `order-closure.ts:63-64` | a lapsed deposit order is written off after its garment was sold to another order, and takes the garment with it |
| `SaleLostCallback` | `PaidMoneySurfaces` without callbacks: `payment-reconciliation.ts:27-32` | the sweep (or the shopper) closes the payment with the reservation; the status query asks about PENDING payments only, so the lost callback is never made up for |
| `SaleHoldsPerPhone` | `HoldsPerPhone`: `docs/business-rules/mvp-rules.md:64` | two deposit prompts in flight each pass a check that counts confirmed holds only |
| `SaleRefundedHold` | `HeldStockHasAWaitingOrder`: `order-closure.ts:13-17` | a deposit order refunded in full leaves its garments DEPOSIT_HELD, which no sweep will ever release |
| `SaleExhausted` | `ExhaustedGoesToAHuman`: `payment-reconciliation.ts:36` | a payment whose queries are used up stays PENDING, and the review queue does not list it |
| `FulfillmentSpentCode` | `SpentCodeClosesNothing`: `docs/architecture/state-machines.md:368-369` | the customer's code is verified, then replaced by a new one, and the order completes on the old one |
| `FulfillmentPicking` | `PickingHasWorkLeft`: `docs/modules/picking-and-dispatch.md:73-74` | of two claims read at once, the second is written after the last scan; nothing is left to scan, and the order cannot leave picking |
| `FulfillmentCompleted` | `CompletedTaskStays`: `operations-fulfillment.service.ts:1502` | `markException` reads the task, the customer collects the parcel, the exception is written over the completed task |
| `FulfillmentClosed` | `ClosedOrderStaysOut`: `operations-fulfillment.service.ts:1951` | a claim, a hand-off or a resolution read before the write-off puts the cancelled order back in a work queue |
| `FulfillmentNoCode` | `OutForDeliveryHasCode`: `operations-fulfillment.service.ts:1163-1165` | an exception read during the delivery is written after the delivery failed; resolving it sends the parcel out again, without a code |
| `FulfillmentSticker` | `StickerNamesTheRecord`: `operations-fulfillment.service.ts:1764` | `sendToNode` reads; the order is routed to another store and labelled again; the parcel is sent to the first |
| `FulfillmentClaim` | `ClaimStays`: `operations-fulfillment.service.ts:475-477` | two employees claim at once; the second takes the task from the first |
| `FulfillmentReroute` | `RerouteKeepsCode`: `docs/modules/fulfillment-nodes.md:64-65` | a re-route rebuilds the package code |
| `RefundsCeiling` | `RefundsWithinPaid`: `docs/modules/payment-exceptions.md:66` | a refund is requested and approved, finance records the same money on the order, the request is completed: the ceiling is not looked at again |
| `RefundsSaid` | `ReceiptRecordedOnce`: `docs/modules/customer-service.md:130` | `recordRefund` stores the reference as typed, the other desks in capitals: one receipt is recorded twice under two spellings |
| `RefundsSaid` | `CoveredOrderIsRefunded`: `docs/modules/payment-exceptions.md:63-64` | the refund that covers the payment is a completed request, which leaves the order as it is |
| `RefundsSaid` | `ReceivedReturnCanClose`: `docs/modules/customer-service.md:137` | a request that names a return pays its whole price back; the desk has nothing left to record, and recording is what closes a return |
| `PayoutsSelf` | `NobodyPaysThemselves`: `docs/business-rules/mvp-rules.md:183` | the payee is off the sheet when the report is uploaded, and the guard looks for them there |
| `PayoutsHand` | `HandPaymentAvoidsFiles`: `schema.prisma:1805-1808` | an export looks before a commission is confirmed, so does not lock it, but finds it when it makes its file; a payment by hand locks it and looks at the files before the export commits, and commits after it |
| `PayoutsTwins` | `LineIsPaidByItsOwnReceipt`: `mpesa-bulk-format.ts:428` | the portal executes a rider's line twice; one row carries our reference and claims the line, the other is masked and also fits a colleague's line of the same amount: as the rider's is claimed, it settles the colleague's, who got nothing |
| `PayoutsTwoFiles` | `ItemWaitsInOneFile`: `schema.prisma:1805-1808` | a rider's name is edited after the export; the fee comes under a new key, which is in no file |
| `OutboxSaid` | `NoChangeIsLost`: `notification-outbox.ts:40-41` | the insert of a message that was queued before fails inside the caller's transaction, and PostgreSQL refuses the rest of it |
| `OutboxSaid` | `OneRunSends`: `notification-dispatch.ts:34` | a send outlives its backoff, and a second run sends the same message |
| `OutboxUnconfigured` | `QueueStaysPut`: `sms-provider.ts:33` | without a provider every attempt fails, so the queue is given up |
| `ShelvesSaid` | `NeverOverfull`: `docs/staging-product-factory-setup.md:282` | the desk takes a shelf back into use after two placements took their locks: neither has locked it, both count the same room |
| `ShelvesSaid` | `OutOfUseStays`: what `setLocationStatus` decides | the last scan reads a shelf in use, the desk closes it, the refresh after the scan writes back what it read |
| `ShelvesSaid` | `PaidStaysPut`: `operations-product-control.service.ts:315-316` | a garment is paid between the plan of a move and its write, which goes by id |
| `ShelvesSaid` | `ComesBackWhole`: `product-restoration.ts:10-11` | `completeBatchIfDone` overwrites a cancellation; or restoring a garment that was rejected earlier reopens the batch without the others |

Nothing of the fulfilment part reaches the stock: `fulfillment_stock` checks with the same stale
writes that what a task says wrongly is caught where garments move.
`PaidMoneySurfaces` holds when every callback is delivered (`sale_deadlines`) and
not otherwise.

## 4. The proofs

### 4.1 The sale

`SaleProofs` proves, for every value of the constants that satisfies
`SaleAssumption` (finite sets of orders and garments, natural limits, a `None`
that is neither an order nor a phone, failure codes among the ones the code
tells apart):

| Theorem | States |
| --- | --- |
| `TypeCorrect` | `Spec => []TypeOK`, in which the query limit is exceeded by less than the runs of the job that overlap |
| `ReservationsAreExclusive` | `Spec => []ReservationExclusive` |
| `ConfirmedMoneyStays` | `Spec => SuccessIsFinal` |
| `ClosedOrdersStayClosed` | `Spec => ClosedStaysClosed` |

**The inductive invariant** is `IInv`, the conjunction of

- `TypeOK`;
- `LegsHaveOrders`: a payment that was used belongs to an order. Without it a
  settlement could write the row of no order;
- `UnplacedHasNoLegs`: no payment belongs to an order that was never placed,
  so a checkout cannot open a draft under a payment that already succeeded;
- `PaidClosesDraft`: a confirmed payment has closed its order's draft. This is
  why a refund or a write-off, which need a confirmed payment, never meet
  an ACTIVE draft;
- `ReservationExclusive` itself.

**The argument.** The steps are first classified by what they do to a payment
(`Confirms`, `ConfirmsNothing`) and to an order (`OrderMoves`): `StepMoves`
proves the classification once, action by action, and the invariants about
payments and orders use it instead of going through Next again. The stock part
has one lemma per way of writing stock: `ReleaseKeepsReservations`
(giving back), `OwnedStockKeepsReservations` (a routine that touches only
garments it owns), `SettleKeepsReservations`, `ClosingKeepsReservations` and
`CheckoutKeepsReservations`. The heart of all of them is one fact: if another
order has an ACTIVE draft on a garment, then the garment is not *owned* in the
sense of the code, and every routine that writes stock asks for ownership.

`SaleMoneyProofs` extends it, under the same assumption:

| Theorem | States |
| --- | --- |
| `NoLegIsPaidTwice` | `Spec => []OneSuccessPerLeg` |
| `PickingIsPaidFor` | `Spec => []PickingOnlyWhenPaidInFull` |
| `DepositsAreAccountedFor` | `Spec => []DepositIsAccountedFor` |
| `ReportedMoneyIsNotDropped` | `Spec => []ReportedMoneyIsKept` |
| `OffSaleHasAnOrder` | `Spec => []OffSaleIsAccountedFor` |
| `SaleImplementsBook` | `Spec => ImplementsBook` |
| `SaleIsOneOfOne` | `Spec => []Book!OneOfOne`: what the book promises holds of the sale |

**The legs** (`LegInv`). That no leg is collected twice cannot be seen from the
statuses of payments: an STK request whose outcome stayed unknown puts a payment
in review while its prompt may still be on the phone, and a failed payment is
revived when a reviewer finds its money. So the invariant says when a
payment can bring no money any more (`Spent`): it has failed, and either its
request id was never stored and never will be, so that a callback for it is
an orphan, or its prompt was answered without money. `EndedBalanceIsSpent` says that a
failed balance of an order on hold is spent, `OneOpenBalance` that of two balances
one is, and `OneFirstLeg` that an order has one leg that is not a balance. The
other parts (`HoldHasDeposit`, `BalanceFollowsDeposit`, `EndedLegsCloseDraft`,
`ReviewHasAReason`, ...) are what these need. `StatusStep` says once how the status of a
payment can change; every part is proved from it.

**The money** (`MoneyInv`) adds the three properties and `StoredIsAnswered`: a
callback is stored only for a prompt that has its result.

**The stock.** `StockStep` classifies the steps by what they do to garments
(`StockMoves`): nothing, a release, a lapse, a closure, a settlement, a checkout. For
each there is one lemma that the explanation of every garment off sale survives
or is replaced (`...Explains`), and one that the step is a step of
`ReservationBook` or none (`...IsBooked`). The refinement also needs that an open
reservation has garments (`OpenHasItems`): the book knows an open reservation
only by its entries.

### 4.2 The fulfilment

`FulfillmentProofs` proves, for every value of the constants that satisfies
`FulfillmentAssumption` (supervisors are staff, stores are nodes, `None` is
neither, a natural bound on codes) and `UnsetAssumption` (`None` is no step of a
task and no row):

| Theorem | States |
| --- | --- |
| `TypeCorrect` | `Spec => []TypeOK`, that is `ColumnsOK` and that the task of a live order can be resolved from every exception |
| `Implements` | `Spec => ImplementsParcels` |
| `ParcelsHaveOneOwner` | `Spec => []ParcelHasOneOwner` |
| `DeliveredOnlyWithItsOrder` | `Spec => []DeliveredWithItsOrder` |
| `ClosedOrdersStayClosed` | `Spec => ClosedStaysClosed` |
| `PastPickingIsScanned` | `Spec => []SealedMeansVerified` |
| `PackingHasHands` | `Spec => []PackingIsAssigned` |
| `PathsStayApart` | `Spec => []PathsAreExclusive` |
| `StockIsWhereTheTaskIs` | `Spec => []StockFollowsTheTask` |

**The inductive invariant** of the first five is `ColumnsOK`, the types of the
rows, with `RequestsAreGrounded`: a request that has read holds on to an order
that has a task, and a resolution to a step that was on record. `ColumnsOK` alone
is not inductive, because the write of a request does not look at the task
again: from a well-typed state in which `call` names an order without a task, it
would make a task out of nothing, and `ResolveException` would put a task back to no
step at all.

**The way out of an exception.** `TypeOK` also says that the task of a *live* order
is in no exception that cannot be resolved; a write-off does leave such a task, with
no step to return to, and it is the order that is closed then. That this is kept needs
the same fact of every exception that a request is about to write or write back
(`ExceptionsEnd`): both are written with a step that was read before, over whatever
the task is at by then.

**The argument.** Reads, writes and one-step handlers preserve the invariant
through one lemma about writing a single row (`RowKeepsIInv`). Under
it, each step is shown to be a step of `Parcels` or none (`NextMovesParcels`):
eight actions touch an order's status or stock, and each of them checks what it
needs in the step in which it writes. Everything else about stock is then proved from
`Parcels` alone, in which there is no request and nothing stale: the
refinement is the reason why stale writes to tasks, of which section 3.2 lists the
consequences, cannot reach stock.

**The steps on record.** The other four relate the step of a task to its scans,
its staff, its delivery method and its stock, and here stale writes do matter: a
request writes the step it read, or one it chose when it read, long after the
task has moved; an exception keeps the step it will be resolved to. None of the four is
inductive for the step a task is *at*. `OnRecord(o, s)` says that the task of `o` is at
step `s`, would be resolved to it, or that a request in progress read it or
will write it unseen; `RecordInv` states the four properties of every step on
record. The lemma the proof rests on is `StepGetsTo`: a step past picking gets on
record by the last scan (`READY_TO_PACK`), by the completion of the packing
(`PACKED`), or when a sealed step of the same task is on record already. So
whatever a stale write puts back, it puts back something that was earned
before, and what was earned is never undone: scans only accumulate
(`ScannedByScan`), a packer and a start once written stay
(`HandsStay`), and packed stock stays packed while the order is live (`StockStays`).

### 4.3 The price rules

`PriceRulesProofs` proves, for every total and every amount collected: the two
legs of a deposit plan add up to the total, neither is empty, and the odd
shilling is on the deposit (`LegsAddUp`); the deposit is part of the total
also where no plan is offered (`DepositIsPartOfTotal`); the refund of a lapsed
deposit stays within the deposit and the shop keeps a fifth of the total, to
the shilling (`LapseStaysWithinDeposit`); refund and forfeit are together what
was collected (`LapseSplitsWhatWasPaid`); the rate follows its setting
(`RateFollowsSetting`), and the commission is within half of the price
(`CommissionIsBounded`). `Refunds` computes with the same operators.

A setting is a number, a text or something else (`Settings`); what `Number(text)`
makes of a text is part of the setting, as a fraction, because `Math.round`
sees it. `RateFollowsSetting` says that what is no number gives the default, that
rounding moves a rate within the range by half a basis point at most, that a
higher setting never gives a lower rate, and that the rate stays in its range. At
this commit nothing but its tests calls `resolveDefaultCommissionRate`; new
commissions take a fixed 25 per cent.

### 4.4 The refunds

`RefundsProofs`, under `RefundsAssumption` (any finite set of numbered items,
any prices, any rate up to the maximum, any window, requests, agents, sums and
receipts):

| Theorem | States |
| --- | --- |
| `TypesAreKept` | `Spec => []TypeOK` |
| `EachDeskIsCapped` | `Spec => []EachDeskWithinPaid` |
| `PaymentIsPastReturns` | `Spec => []PaidCommissionIsPastReturns` |
| `RestockedGarmentsArePaidBack` | `Spec => []RestockedIsPaidBack` |
| `CommissionIsNeverLost` | what was taken off the commission and what is left are what the order earned |
| `SharesAddUp` | the largest-remainder shares of any amount add up to it |
| `CommissionIsOfKeptItems` | `Spec => []CommissionFollowsReturns` |

Each has its strengthening. The caps need that the lapse is the first and only
request that nobody raised (`LapseComesOnce`); the window needs that returns
and payment come after the completion and the payment not before the window
has passed, and that a closed return has had its share taken
(`CompletionComesFirst`, `ClosedIsAdjusted`); the restocking needs that a closed
return is paid back (`ClosedIsPaidBack`).

**The shares.** `CommissionFollowsReturns` speaks of sums over all items, and the
sum of the community modules is a recursive function over sets. The prover has no
induction over an operator, but it has one over *sets*: `SubsetInduction` says that a
family of subsets of a finite set contains all of them if it contains each whose
proper subsets it contains, and a fact becomes such a family by comprehension. It
gives that the recursive function exists and is unique (`UnfoldingExists`,
`UnfoldingIsUnique`), that a sum does not depend on the order in which elements are
taken out (`SumWithout`), and that linear equations and bounds of the terms carry over
to sums (`SumsAreLinear`, `SumIsBounded`, `SumCounts`). With these: the floors leave at
least nothing and at most one shilling for each item (`FloorsLeaveOneEach`); the ranks are
a bijection onto `0..n-1`, so exactly as many items as there are shillings left get
one (`RanksAreDistinct`, `FirstRanks`); so the shares add up to the amount. The
invariant then needs `CommissionIsConserved`, because a share is computed from
the amount before all reversals, and `CompletionComesFirst`, because the balance
earns a new commission and must not meet a return that already took a share.

### 4.5 The payouts

`PayoutsProofs`, under `PayoutsAssumption` (any finite set of items, any
amounts, payees and keys, numbers and masks, users, files, rows of a report, and
any number of times the portal may execute a line):

| Theorem | States |
| --- | --- |
| `TypesAreKept` | `TypeOK`, with what an open transaction knows |
| `NobodyWaitsTwice` | `Spec => []OnePendingLine` |
| `FilesCloseWithTheirLastLine` | `Spec => []OpenFileWaits` |
| `PayoutsOwnWhatTheyPay` | `Spec => []PayoutsOwnTheirItems` |
| `DeskPaysOnce` | `Spec => PaysOnce`, the refinement of `PayLedger` |
| `ResultsAreFinal` | `Spec => ResultsStand` |
| `PaidLinesWerePaid` | `Spec => []PaidLineHasItsReceipt`: by its amount and the digits in view, or by more if the report shows more |

The steps are classified once (`StepKinds`): a transaction opens, takes its
locks or ends; the portal acts; an item changes; a payment is recorded; a file
is exported, cancelled or reconciled. The files rest on `ExportInv`: there is one
export at a time, its file is still new, and from its lock on it knows of every
payee who waits in another file, since only an export can add one. The
payouts rest on `Record`: whoever records checks again, in the step that writes,
that the items are not paid and the receipt is new. `PaidLineHasItsReceipt` is not
inductive without what a transaction has in hand between the rows of its report
and its commit (`ClaimsInv`): what claims a line is of its amount and fits it, and no
two lines that are still to be paid are claimed by the same.

### 4.6 The outbox

`OutboxProofs`, for any number of changes, messages, runs and attempts, and any
bounds on crashes and retries: `TypesAreKept`, `OverlapIsHarmless`
(`OverlapSendsOnce`), `NoneIsGivenUpEarly` (`GivenUpAfterAllAttempts`) and
`SentIsFinal` (`SentStaysSent`). The inductive invariant adds to `TypeOK` that a
run knows of queued messages only (`AtHandInv`), that what it has read of a row is
what the row says or less, because attempts only grow until somebody retries
(`ReadInv`), that it is alone with the message it is sending, and that whoever
else read the row did so before its claim (`AloneInv`), and that a text that went
out is on record or about to be (`TextInv`).

### 4.7 The shelves

`ShelvesProofs`, under `ShelvesAssumption` (finitely many garments; any
shelves, transactions and capacities):

| Theorem | States |
| --- | --- |
| `TypesHold` | `Spec => []TypeOK` |
| `ShelvesHoldTheirLoad` | `Spec => []OverfullIsExplained` |
| `NothingOntoClosed` | `Spec => NothingOntoAClosedShelf` |
| `SalesAreSpared` | `Spec => CancellationSparesSales` |

The inductive invariant is `TypeOK`, `OverfullIsExplained` and one conjunct for
each kind of transaction that has read and not yet written. `PlaceInv`: a
placement that holds the lock of its shelf still has room on it, because nobody
else may write the row. `RestoreInv`: a restore that still exists has room on
every shelf it is to write, because whoever would have used that room, or closed
the shelf, wrote its row and so ended the restore. `CancelInv`: a cancellation
that still exists is about garments that are still unfinished, and deletes
none that anybody ordered. The proof goes action by action: `GoesOn` says what a
transaction keeps while another writes rows that are not its own, `OwnStep` what
it needs of its own step.

### 4.8 What is only model-checked

The liveness properties, since fairness and ENABLED are beyond the prover:
`EveryReservationEnds`, `EveryHoldEnds`, `PaidMoneySurfaces` and
`EveryMessageSettles`. Every other property of a passing run is stated by a
theorem.

## 5. Plan

1. **Done.** The sale, the fulfilment, the refunds and the commission, the price
   rules, the payout desk, the outbox, the shelves: modelled and checked, and every
   safety property, action property and refinement that the passing runs check proved.
2. **To prove next.** What stays with TLC is liveness. Its safety part could
   be proved: that in every reachable state with an open reservation, a hold, money
   that nobody has seen or a pending message, the guard of a step that ends it
   will become true by the clock alone.
3. **To model next.** The phone change of an open checkout; unpublishing; the
   two job runners, as described below.

## 6. Not modelled

**The greater part of the lines.** Two thirds of the repository are pages,
components, dictionaries and forms (`apps/operations/src`, `apps/storefront/src/app`,
`i18n`, `components`), and much of the services is reading and shaping rows for
them. None of it decides anything that these models could get wrong or right; a
definition that stood for it would say nothing. What is mapped is the code that
writes the rows the properties are about.

**Image and detail jobs.** The runners claim a job by a conditional update, call
an outside model and write the result by id. Reading them for a model showed what
a later module should be about: a failed AI job restores the product status it
read before it started, also when the product was unpublished meanwhile
(`apps/api/src/ai/ai-job.service.ts:136-139`); a job whose server stops stays
RUNNING or GENERATING, as nothing takes the claim over; a detail run in flight
replaces copy that was approved after it started. They share no row with the
modelled components except `Product.status`.

**Lock order.** `startCheckout` locks the garments of the earlier attempts before
those of the new cart (`checkout-service.ts:527`), so two shoppers may lock the
same garments in opposite orders. PostgreSQL aborts one of them, and the code
tries three times. A transaction is one action here and an aborted one no step, so
the models cannot show it. For the same reason, deadlocks in `Payouts` and
`Shelves` are `Abort`.

**Two paid orders for one garment** refuse each other at every inventory check
until staff write one off. That both stop is what the code intends; what leads
there is `SoldOnce`, what follows is `ParcelHasOneOwner`.

**The rest** of section 1.2: static tables, records without a protocol, pure
input and output.
