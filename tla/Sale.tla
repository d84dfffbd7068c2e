-------------------------------- MODULE Sale --------------------------------
(***************************************************************************)
(* The sale of one-of-one garments: checkout reservations, M-Pesa prompts  *)
(* and their callbacks, the status-query job, the human review queue, the  *)
(* seven-day deposit hold, the two expiry sweeps and order closure.        *)
(*                                                                         *)
(* The tables of the database are functions, one row per element of        *)
(* Orders, Payments and Garments.  Every transaction of the code starts by *)
(* locking its order row and then its inventory rows, so a transaction is  *)
(* one action; a call to Safaricom is made outside any transaction, so     *)
(* what happens around it is several actions.  Time is the two facts the   *)
(* code asks of it: whether the five-minute cart reservation of an order   *)
(* has run out (expired) and whether its balance is past due (overdue).    *)
(***************************************************************************)
EXTENDS Naturals, FiniteSets

CONSTANTS
  Orders,         \* order rows; each has one checkout draft
  Garments,       \* one inventory row per garment
  Phones,         \* shoppers, known by the phone they pay with
  Payments,       \* payment rows
  None,           \* the value of a column that is not set
  MaxPieces,      \* MAX_ACTIVE_RESERVATIONS_PER_PHONE
  MaxHolds,       \* MAX_DEPOSIT_HOLDS_PER_PHONE
  MaxQueries,     \* MAX_QUERIES_PER_PAYMENT
  MaxJobs,        \* bound: runs of the status-query job at the same time
  FailureCodes    \* the M-Pesa result codes other than "0" that can come back

ASSUME SaleAssumption ==
  /\ None \notin Orders \cup Phones
  /\ IsFiniteSet(Orders) /\ IsFiniteSet(Garments)
  /\ MaxPieces \in Nat /\ MaxHolds \in Nat
  /\ MaxQueries \in Nat \ {0} /\ MaxJobs \in Nat \ {0}
  /\ FailureCodes \subseteq {"1", "1032", "1037", "2001"}

VARIABLES
  inv,            \* InventoryItem.status
  order,          \* Order.status
  draft,          \* CheckoutDraft.status
  items,          \* the garments of the order's items
  buyer,          \* the phone of the order's customer
  plan,           \* Order.paymentPlan
  expired,        \* orders whose draft has expiresAt <= now
  overdue,        \* orders with balanceDueAt <= now
  tasks,          \* orders with a picking task (OrderFulfillment row)
  lapseRefunds,   \* orders with a LAPSED_DEPOSIT refund request
  pord,           \* Payment.orderId
  pkind,          \* Payment.kind
  pstat,          \* Payment.status
  ref,            \* payments with a stored providerCheckoutRequestId
  queries,        \* Payment.providerQueryCount
  asking,         \* how many runs of the job have the payment on their list
  call,           \* the server's STK request for the payment
  prompt,         \* what Safaricom knows of the prompt
  cb              \* the MpesaCallback row of the prompt

orderVars == <<inv, order, draft>>
placedVars == <<items, buyer, plan>>
clockVars == <<expired, overdue>>
followUps == <<tasks, lapseRefunds>>
legVars == <<pord, pkind>>
outsideVars == <<call, prompt>>
jobVars == <<queries, asking>>
vars == <<orderVars, placedVars, clockVars, followUps, legVars, pstat, ref,
          jobVars, outsideVars, cb>>

-----------------------------------------------------------------------------
(* Statuses.                                                               *)

Unpaid == {"PENDING_PAYMENT", "PAYMENT_PROCESSING"}
OrderStatus == Unpaid \cup {"UNPLACED", "DEPOSIT_PAID", "DEPOSIT_EXPIRED",
                            "PAID", "CANCELLED", "EXPIRED", "REFUNDED"}
DraftStatus == {"NONE", "ACTIVE", "CONVERTED", "ABANDONED", "EXPIRED"}
StockStatus == {"AVAILABLE", "RESERVED", "DEPOSIT_HELD", "PAID", "LOST"}
SettleableWhenShelved ==                 \* fault: unsold stock is settled too
  {"RESERVED", "DEPOSIT_HELD", "AVAILABLE"}
Settleable == {"RESERVED", "DEPOSIT_HELD"}
CloseableBeforeDeposits == {"RESERVED", "PAID"}   \* fault: holds forgotten
Closeable == {"RESERVED", "DEPOSIT_HELD", "PAID"}
PaymentStatus == {"NONE", "PENDING", "SUCCESS", "FAILED", "CANCELLED",
                  "TIMEOUT", "EXPIRED", "MANUAL_REVIEW"}
LiveWithoutReview == {"PENDING"}         \* fault: a payment in review forgotten
Live == {"PENDING", "MANUAL_REVIEW"}
CallbackStatus == {"NONE", "APPLIED", "IGNORED", "HELD", "ORPHAN", "RESOLVED"}

\* What a failure code does to the payment, to its draft and to its order.
FailureStatus(code) == CASE code = "1032" -> "CANCELLED"
                         [] code \in {"1037", "1"} -> "TIMEOUT"
                         [] OTHER -> "FAILED"
DraftAfter(status) == IF status = "TIMEOUT" THEN "EXPIRED" ELSE "ABANDONED"
OrderAfter(status) == IF status = "TIMEOUT" THEN "EXPIRED" ELSE "CANCELLED"

-----------------------------------------------------------------------------
(* Reservations.                                                           *)

LegsOf(o) == {p \in Payments : pord[p] = o}
Succeeded(o, kinds) ==
  \E p \in LegsOf(o) : pkind[p] \in kinds /\ pstat[p] = "SUCCESS"
EverPaid(o) == Succeeded(o, {"FULL", "DEPOSIT", "BALANCE"})

OwnedAnyhow(o, g) == g \in items[o]   \* fault: competing drafts not looked at

\* There is no owner column: a garment of the order is the order's own unless
\* another order that lists it still has an ACTIVE draft.
Owned(o, g) ==
  \A other \in Orders \ {o} : g \in items[other] => draft[other] # "ACTIVE"

\* Fault: an order whose prompt is unanswered is not released.
ReleasableUnprompted(o) ==
  ~EverPaid(o) /\ order[o] = "PENDING_PAYMENT" /\ draft[o] = "ACTIVE"

Releasable(o) ==
  /\ ~EverPaid(o)
  /\ order[o] \in Unpaid
  /\ draft[o] = "ACTIVE"

\* Stock once the reservations of the orders in R are given back, one by one.
StockWithout(R) ==
  [g \in Garments |->
     IF /\ inv[g] = "RESERVED"
        /\ \E o \in R : g \in items[o]
        /\ \A other \in Orders \ R :
             g \in items[other] => draft[other] # "ACTIVE"
     THEN "AVAILABLE"
     ELSE inv[g]]

ReleaseReservation(o, draftStatus, orderStatus) ==
  /\ inv' = StockWithout({o})
  /\ draft' = [draft EXCEPT ![o] = draftStatus]
  /\ order' = [order EXCEPT ![o] = orderStatus]

ReleaseUnpaid(o, draftStatus, orderStatus) ==
  IF Releasable(o)
  THEN ReleaseReservation(o, draftStatus, orderStatus)
  ELSE UNCHANGED orderVars

\* Every payment of the order that is in one of the given statuses moves on.
MoveLegs(o, from, to) ==
  pstat' = [p \in Payments |->
              IF pord[p] = o /\ pstat[p] \in from THEN to ELSE pstat[p]]

-----------------------------------------------------------------------------
(* Settlement.  Both routines throw, and roll back, unless they can run.   *)

NotRefunded(o) == order[o] # "REFUNDED"  \* fault: a cancelled order is open
NotClosed(o) == order[o] \notin {"CANCELLED", "REFUNDED"}

CanSell(o) ==
  /\ NotClosed(o)
  /\ items[o] # {}
  /\ \A g \in items[o] : Owned(o, g)
  /\ \/ \A g \in items[o] : inv[g] = "PAID"
     \/ \A g \in items[o] : inv[g] \in Settleable

\* settleSuccessfulPayment: the garments are sold, picking starts.
Sell(p) ==
  LET o == pord[p] IN
  /\ inv' = [g \in Garments |-> IF g \in items[o] THEN "PAID" ELSE inv[g]]
  /\ order' = [order EXCEPT ![o] = "PAID"]
  /\ draft' = [draft EXCEPT ![o] = "CONVERTED"]
  /\ tasks' = tasks \cup {o}
  /\ pstat' = [pstat EXCEPT ![p] = "SUCCESS"]

CanHold(o) ==
  /\ plan[o] = "DEPOSIT_50"
  /\ NotClosed(o)
  /\ items[o] # {}
  /\ \A g \in items[o] : Owned(o, g)
  /\ \/ \A g \in items[o] : inv[g] = "DEPOSIT_HELD"
     \/ \A g \in items[o] : inv[g] = "RESERVED"

\* settleDepositPayment: the garments wait for the balance, nothing is picked.
Hold(p) ==
  LET o == pord[p] IN
  /\ inv' = [g \in Garments |->
               IF g \in items[o] THEN "DEPOSIT_HELD" ELSE inv[g]]
  /\ order' = [order EXCEPT ![o] = "DEPOSIT_PAID"]
  /\ draft' = [draft EXCEPT ![o] = "CONVERTED"]
  /\ pstat' = [pstat EXCEPT ![p] = "SUCCESS"]
  /\ UNCHANGED tasks

CanSettle(p) ==
  IF pkind[p] = "DEPOSIT" THEN CanHold(pord[p]) ELSE CanSell(pord[p])
SettleAnyLeg(p) ==                       \* fault: a deposit finishes the sale
  Sell(p)
Settle(p) == IF pkind[p] = "DEPOSIT" THEN Hold(p) ELSE Sell(p)

-----------------------------------------------------------------------------
(* Checkout.                                                               *)

OpenAttempts(ph) ==
  {e \in Orders : draft[e] = "ACTIVE" /\ e \notin expired /\ buyer[e] = ph}

MayStillBePaid(e) ==
  \E p \in LegsOf(e) : pstat[p] \in {"PENDING", "MANUAL_REVIEW", "SUCCESS"}

Pieces(os) ==
  Cardinality({line \in os \X Garments : line[2] \in items[line[1]]})

HeldOnDeposit(ph) ==
  {e \in Orders : order[e] = "DEPOSIT_PAID" /\ buyer[e] = ph}

\* startCheckout: the shopper's earlier attempts that no prompt was sent for
\* give way, and the garments of the new cart are reserved, all or none.
StartCheckout(o, ph, cart, payPlan) ==
  LET earlier == {e \in OpenAttempts(ph) : Releasable(e) /\ ~MayStillBePaid(e)}
      freed == StockWithout(earlier)
  IN
  /\ order[o] = "UNPLACED"
  /\ cart # {}
  /\ \A g \in cart : freed[g] = "AVAILABLE"
  /\ Pieces(OpenAttempts(ph) \ earlier) + Cardinality(cart) <= MaxPieces
  /\ payPlan = "DEPOSIT_50" =>
       Pieces(HeldOnDeposit(ph)) + Cardinality(cart) <= MaxHolds
  /\ inv' = [g \in Garments |-> IF g \in cart THEN "RESERVED" ELSE freed[g]]
  /\ order' = [e \in Orders |-> IF e = o THEN "PENDING_PAYMENT"
                                ELSE IF e \in earlier THEN "CANCELLED"
                                ELSE order[e]]
  /\ draft' = [e \in Orders |-> IF e = o THEN "ACTIVE"
                                ELSE IF e \in earlier THEN "ABANDONED"
                                ELSE draft[e]]
  /\ items' = [items EXCEPT ![o] = cart]
  /\ buyer' = [buyer EXCEPT ![o] = ph]
  /\ plan' = [plan EXCEPT ![o] = payPlan]
  /\ UNCHANGED <<clockVars, followUps, legVars, pstat, ref, jobVars,
                 outsideVars, cb>>

\* releaseCustomerCheckoutReservations: "release my lock" in the bag.
ReleaseByShopper(o) ==
  /\ Releasable(o)
  /\ ReleaseReservation(o, "ABANDONED", "CANCELLED")
  /\ MoveLegs(o, {"PENDING"}, "CANCELLED")
  /\ UNCHANGED <<placedVars, clockVars, followUps, legVars, ref, jobVars,
                 outsideVars, cb>>

ReservationRunsOut(o) ==
  /\ draft[o] = "ACTIVE"
  /\ o \notin expired
  /\ expired' = expired \cup {o}
  /\ UNCHANGED <<orderVars, placedVars, overdue, followUps, legVars, pstat,
                 ref, jobVars, outsideVars, cb>>

\* releaseExpiredReservations, for one draft: each has its own transaction.
SweepReservation(o) ==
  /\ o \in expired
  /\ Releasable(o)
  /\ ReleaseReservation(o, "EXPIRED", "EXPIRED")
  /\ MoveLegs(o, {"PENDING"}, "EXPIRED")
  /\ UNCHANGED <<placedVars, clockVars, followUps, legVars, ref, jobVars,
                 outsideVars, cb>>

-----------------------------------------------------------------------------
(* Asking for money: one transaction, the STK request, one transaction.    *)

LegKind(o) == IF order[o] = "DEPOSIT_PAID" THEN "BALANCE"
              ELSE IF plan[o] = "DEPOSIT_50" THEN "DEPOSIT" ELSE "FULL"
StockFor(kind) == IF kind = "BALANCE" THEN "DEPOSIT_HELD" ELSE "RESERVED"

StockInPlace(o, kind) ==
  /\ items[o] # {}
  /\ \A g \in items[o] : Owned(o, g) /\ inv[g] = StockFor(kind)

InitiatePayment(o, p) ==
  /\ pstat[p] = "NONE"
  /\ ~Succeeded(o, {"FULL", "BALANCE"})
  /\ \/ order[o] = "DEPOSIT_PAID" /\ o \notin overdue
     \/ order[o] \in Unpaid /\ draft[o] = "ACTIVE" /\ o \notin expired
  /\ \A q \in LegsOf(o) : pstat[q] \notin Live
  /\ StockInPlace(o, LegKind(o))
  /\ pord' = [pord EXCEPT ![p] = o]
  /\ pkind' = [pkind EXCEPT ![p] = LegKind(o)]
  /\ pstat' = [pstat EXCEPT ![p] = "PENDING"]
  /\ call' = [call EXCEPT ![p] = "CALLING"]
  /\ order' = IF order[o] = "DEPOSIT_PAID" THEN order
              ELSE [order EXCEPT ![o] = "PAYMENT_PROCESSING"]
  /\ UNCHANGED <<inv, draft, placedVars, clockVars, followUps, ref, jobVars,
                 prompt, cb>>

\* Safaricom accepts the request and the prompt is on the shopper's phone.
PromptArrives(p) ==
  /\ call[p] = "CALLING"
  /\ prompt[p] = "NONE"
  /\ prompt' = [prompt EXCEPT ![p] = "OPEN"]
  /\ UNCHANGED <<orderVars, placedVars, clockVars, followUps, legVars, pstat,
                 ref, jobVars, call, cb>>

\* The shopper pays ("0"), or the prompt ends with a failure code.
PromptEnds(p, code) ==
  /\ prompt[p] = "OPEN"
  /\ prompt' = [prompt EXCEPT ![p] = code]
  /\ UNCHANGED <<orderVars, placedVars, clockVars, followUps, legVars, pstat,
                 ref, jobVars, call, cb>>

\* The request id is stored whatever became of the payment meanwhile.
RequestAcknowledged(p) ==
  /\ call[p] = "CALLING"
  /\ prompt[p] # "NONE"
  /\ call' = [call EXCEPT ![p] = "OVER"]
  /\ ref' = ref \cup {p}
  /\ UNCHANGED <<orderVars, placedVars, clockVars, followUps, legVars, pstat,
                 jobVars, prompt, cb>>

\* A definite refusal: no prompt exists. Only a first leg gives stock back.
RequestRefused(p) ==
  /\ call[p] = "CALLING"
  /\ prompt[p] = "NONE"
  /\ call' = [call EXCEPT ![p] = "OVER"]
  /\ IF pstat[p] = "PENDING"
     THEN /\ pstat' = [pstat EXCEPT ![p] = "FAILED"]
          /\ IF pkind[p] # "BALANCE"
             THEN ReleaseUnpaid(pord[p], "ABANDONED", "CANCELLED")
             ELSE UNCHANGED orderVars
     ELSE UNCHANGED <<orderVars, pstat>>
  /\ UNCHANGED <<placedVars, clockVars, followUps, legVars, ref, jobVars,
                 prompt, cb>>

\* A transport failure: the prompt may or may not be on the phone.
RequestOutcomeUnknown(p) ==
  /\ call[p] = "CALLING"
  /\ call' = [call EXCEPT ![p] = "OVER"]
  /\ pstat' = IF pstat[p] = "PENDING"
              THEN [pstat EXCEPT ![p] = "MANUAL_REVIEW"] ELSE pstat
  /\ UNCHANGED <<orderVars, placedVars, clockVars, followUps, legVars, ref,
                 jobVars, prompt, cb>>

\* The server stops, or cannot store the answer: the attempt stays claimed.
ServerStops(p) ==
  /\ call[p] = "CALLING"
  /\ call' = [call EXCEPT ![p] = "OVER"]
  /\ UNCHANGED <<orderVars, placedVars, clockVars, followUps, legVars, pstat,
                 ref, jobVars, prompt, cb>>

-----------------------------------------------------------------------------
(* handleMpesaCallback.  A callback is the prompt's result; it may come at *)
(* any time after the result, more than once, or never.  The first one to  *)
(* be stored wins: a later copy finds the row and writes nothing.          *)

Answered(p) == prompt[p] \notin {"NONE", "OPEN"}

WindowOpen(p) ==
  LET o == pord[p] IN
  /\ pstat[p] = "PENDING"
  /\ IF pkind[p] = "BALANCE"
     THEN order[o] = "DEPOSIT_PAID" /\ o \notin overdue
     ELSE draft[o] = "ACTIVE" /\ o \notin expired /\ order[o] \in Unpaid

\* No payment carries the request id yet, or ever will.
OrphanCallback(p) ==
  /\ Answered(p) /\ cb[p] = "NONE" /\ p \notin ref
  /\ cb' = [cb EXCEPT ![p] = "ORPHAN"]
  /\ UNCHANGED <<orderVars, placedVars, clockVars, followUps, legVars, pstat,
                 ref, jobVars, outsideVars>>

NotPending(p) == pstat[p] # "PENDING"    \* fault: late money is ignored too

\* The payment was settled without the callback, or failed and so it stays.
NothingToApply(p) ==
  \/ pstat[p] = "SUCCESS"
  \/ prompt[p] # "0" /\ pstat[p] # "PENDING"

LateCallbackIgnored(p) ==
  /\ Answered(p) /\ cb[p] = "NONE" /\ p \in ref
  /\ NothingToApply(p)
  /\ cb' = [cb EXCEPT ![p] = "IGNORED"]
  /\ UNCHANGED <<orderVars, placedVars, clockVars, followUps, legVars, pstat,
                 ref, jobVars, outsideVars>>

\* Only a first leg's failure gives the garments back.
FailPayment(p) ==
  LET status == FailureStatus(prompt[p]) IN
  /\ pstat' = [pstat EXCEPT ![p] = status]
  /\ IF pkind[p] # "BALANCE"
     THEN ReleaseUnpaid(pord[p], DraftAfter(status), OrderAfter(status))
     ELSE UNCHANGED orderVars

FailureCallback(p) ==
  /\ Answered(p) /\ cb[p] = "NONE" /\ p \in ref
  /\ prompt[p] # "0" /\ pstat[p] = "PENDING"
  /\ cb' = [cb EXCEPT ![p] = "APPLIED"]
  /\ FailPayment(p)
  /\ UNCHANGED <<placedVars, clockVars, followUps, legVars, ref, jobVars,
                 outsideVars>>

\* matches: amount, receipt and phone agree with what was asked for.
AppliesCleanly(p, matches) ==
  matches /\ WindowOpen(p) /\ StockInPlace(pord[p], pkind[p])

SuccessCallback(p, matches) ==
  /\ prompt[p] = "0" /\ cb[p] = "NONE" /\ p \in ref /\ pstat[p] # "SUCCESS"
  /\ AppliesCleanly(p, matches)
  /\ cb' = [cb EXCEPT ![p] = "APPLIED"]
  /\ Settle(p)
  /\ UNCHANGED <<placedVars, clockVars, lapseRefunds, legVars, ref, jobVars,
                 outsideVars>>

DoubtfulCallback(p, matches) ==
  /\ prompt[p] = "0" /\ cb[p] = "NONE" /\ p \in ref /\ pstat[p] # "SUCCESS"
  /\ ~AppliesCleanly(p, matches)
  /\ cb' = [cb EXCEPT ![p] = "HELD"]
  /\ pstat' = [pstat EXCEPT ![p] = "MANUAL_REVIEW"]
  /\ UNCHANGED <<orderVars, placedVars, clockVars, followUps, legVars, ref,
                 jobVars, outsideVars>>

-----------------------------------------------------------------------------
(* reconcilePendingPayments.  The job lists its candidates, asks Safaricom  *)
(* about one after the other and records what it hears under the lock of   *)
(* the order: another run of the job may have listed the same payment, and *)
(* the record looks at the payment again, not at how often it was asked    *)
(* about.  An answer is final, so asking and recording it is one step.     *)

\* Fault: one query too many.
ReconcilableAgain(p) ==
  pstat[p] = "PENDING" /\ p \in ref /\ queries[p] <= MaxQueries
Reconcilable(p) ==
  pstat[p] = "PENDING" /\ p \in ref /\ queries[p] < MaxQueries

ListForQuery(p) ==
  /\ Reconcilable(p)
  /\ asking[p] < MaxJobs
  /\ asking' = [asking EXCEPT ![p] = @ + 1]
  /\ UNCHANGED <<orderVars, placedVars, clockVars, followUps, legVars, pstat,
                 ref, queries, outsideVars, cb>>

\* Fault: the payment is not looked at again after the query came back.
ListedOnce(p) == asking[p] > 0
Listed(p) == asking[p] > 0 /\ pstat[p] = "PENDING"

CountQuery(p) ==
  /\ queries' = [queries EXCEPT ![p] = @ + 1]
  /\ asking' = [asking EXCEPT ![p] = @ - 1]

\* The payment was finished meanwhile, or the server stopped: no record.
QueryComesToNothing(p) ==
  /\ asking[p] > 0
  /\ asking' = [asking EXCEPT ![p] = @ - 1]
  /\ UNCHANGED <<orderVars, placedVars, clockVars, followUps, legVars, pstat,
                 ref, queries, outsideVars, cb>>

\* Still processing, or the query itself failed.
QueryWithoutAnswer(p) ==
  /\ Listed(p)
  /\ CountQuery(p)
  /\ UNCHANGED <<orderVars, placedVars, clockVars, followUps, legVars, pstat,
                 ref, outsideVars, cb>>

QueryFindsMoney(p) ==
  /\ Listed(p) /\ prompt[p] = "0"
  /\ CountQuery(p)
  /\ IF CanSettle(p)
     THEN Settle(p)
     ELSE /\ pstat' = [pstat EXCEPT ![p] = "MANUAL_REVIEW"]
          /\ UNCHANGED <<orderVars, tasks>>
  /\ UNCHANGED <<placedVars, clockVars, lapseRefunds, legVars, ref,
                 outsideVars, cb>>

QueryFindsFailure(p) ==
  /\ Listed(p) /\ Answered(p) /\ prompt[p] # "0"
  /\ CountQuery(p)
  /\ FailPayment(p)
  /\ UNCHANGED <<placedVars, clockVars, followUps, legVars, ref, outsideVars,
                 cb>>

-----------------------------------------------------------------------------
(* The review queue.  The reviewer reads the merchant statement, so money  *)
(* that is settled by hand has arrived, and money that is refused has not. *)

ResolveCallback(p) ==
  cb' = IF cb[p] = "HELD" THEN [cb EXCEPT ![p] = "RESOLVED"] ELSE cb

ReviewSettle(p) ==
  /\ pstat[p] = "MANUAL_REVIEW"
  /\ prompt[p] = "0"
  /\ CanSettle(p)
  /\ Settle(p)
  /\ ResolveCallback(p)
  /\ UNCHANGED <<placedVars, clockVars, lapseRefunds, legVars, ref, jobVars,
                 outsideVars>>

ReviewReject(p) ==
  /\ pstat[p] = "MANUAL_REVIEW"
  /\ prompt[p] # "0"
  /\ pstat' = [pstat EXCEPT ![p] = "FAILED"]
  /\ ReleaseUnpaid(pord[p], "ABANDONED", "CANCELLED")
  /\ ResolveCallback(p)
  /\ UNCHANGED <<placedVars, clockVars, followUps, legVars, ref, jobVars,
                 outsideVars>>

\* A human closes a stored callback; nothing else moves.
CloseCallback(p) ==
  /\ cb[p] \in {"HELD", "ORPHAN"}
  /\ cb' = [cb EXCEPT ![p] = "RESOLVED"]
  /\ UNCHANGED <<orderVars, placedVars, clockVars, followUps, legVars, pstat,
                 ref, jobVars, outsideVars>>

-----------------------------------------------------------------------------
(* The end of a deposit hold, and orders closed by staff.                  *)

BalanceFallsDue(o) ==
  /\ order[o] = "DEPOSIT_PAID"
  /\ o \notin overdue
  /\ overdue' = overdue \cup {o}
  /\ UNCHANGED <<orderVars, placedVars, expired, followUps, legVars, pstat,
                 ref, jobVars, outsideVars, cb>>

\* Fault: a balance prompt in flight pauses the deadline.
HoldLapsedUnprompted(o) ==
  /\ order[o] = "DEPOSIT_PAID" /\ o \in overdue
  /\ \A p \in LegsOf(o) : pstat[p] \notin Live

HoldLapsed(o) ==
  /\ order[o] = "DEPOSIT_PAID"
  /\ o \in overdue
  /\ ~Succeeded(o, {"FULL", "BALANCE"})

\* Fault: no refund is raised when a balance prompt was ever sent.
RaiseLapseRefundUnprompted(o) ==
  lapseRefunds' = IF \E p \in LegsOf(o) : pkind[p] = "BALANCE"
                  THEN lapseRefunds ELSE lapseRefunds \cup {o}

RaiseLapseRefund(o) == lapseRefunds' = lapseRefunds \cup {o}

\* lapseDepositHold: stock back on sale, part of the deposit to be refunded.
LapseHold(o) ==
  /\ HoldLapsed(o)
  /\ inv' = [g \in Garments |->
               IF g \in items[o] /\ Owned(o, g) /\ inv[g] = "DEPOSIT_HELD"
               THEN "AVAILABLE" ELSE inv[g]]
  /\ order' = [order EXCEPT ![o] = "DEPOSIT_EXPIRED"]
  /\ MoveLegs(o, Live, "EXPIRED")
  /\ RaiseLapseRefund(o)
  /\ UNCHANGED <<draft, placedVars, clockVars, tasks, legVars, ref, jobVars,
                 outsideVars, cb>>

\* settleOrderInventory: every garment the order still owns gets the outcome.
StockAfterClosing(o, outcome) ==
  [g \in Garments |->
     IF g \in items[o] /\ Owned(o, g) /\ inv[g] \in Closeable
     THEN outcome ELSE inv[g]]

CloseDraft(o) ==
  draft' = IF draft[o] = "ACTIVE"
           THEN [draft EXCEPT ![o] = "ABANDONED"] ELSE draft

\* cancel: staff close an order nobody has paid for.
CancelOrder(o) ==
  /\ ~EverPaid(o)
  /\ order[o] \in Unpaid
  /\ inv' = StockAfterClosing(o, "AVAILABLE")
  /\ CloseDraft(o)
  /\ order' = [order EXCEPT ![o] = "CANCELLED"]
  /\ MoveLegs(o, Live, "CANCELLED")
  /\ UNCHANGED <<placedVars, clockVars, followUps, legVars, ref, jobVars,
                 outsideVars, cb>>

\* writeOff: staff close an order that money was received for.
WriteOff(o, outcome) ==
  /\ EverPaid(o)
  /\ NotClosed(o)
  /\ inv' = StockAfterClosing(o, outcome)
  /\ CloseDraft(o)
  /\ order' = [order EXCEPT ![o] = "CANCELLED"]
  /\ UNCHANGED <<placedVars, clockVars, followUps, legVars, pstat, ref,
                 jobVars, outsideVars, cb>>

\* recordRefund, once the recorded refunds reach what was paid.
RefundInFull(o) ==
  /\ EverPaid(o)
  /\ order[o] # "REFUNDED"
  /\ order' = [order EXCEPT ![o] = "REFUNDED"]
  /\ UNCHANGED <<inv, draft, placedVars, clockVars, followUps, legVars, pstat,
                 ref, jobVars, outsideVars, cb>>

-----------------------------------------------------------------------------
Init ==
  /\ inv = [g \in Garments |-> "AVAILABLE"]
  /\ order = [o \in Orders |-> "UNPLACED"]
  /\ draft = [o \in Orders |-> "NONE"]
  /\ items = [o \in Orders |-> {}]
  /\ buyer = [o \in Orders |-> None]
  /\ plan = [o \in Orders |-> "FULL"]
  /\ expired = {} /\ overdue = {} /\ tasks = {} /\ lapseRefunds = {}
  /\ pord = [p \in Payments |-> None]
  /\ pkind = [p \in Payments |-> "FULL"]
  /\ pstat = [p \in Payments |-> "NONE"]
  /\ ref = {}
  /\ queries = [p \in Payments |-> 0]
  /\ asking = [p \in Payments |-> 0]
  /\ call = [p \in Payments |-> "NONE"]
  /\ prompt = [p \in Payments |-> "NONE"]
  /\ cb = [p \in Payments |-> "NONE"]

OrderStep(o) ==
  \/ \E ph \in Phones, cart \in SUBSET Garments, payPlan \in {"FULL", "DEPOSIT_50"} :
       StartCheckout(o, ph, cart, payPlan)
  \/ ReleaseByShopper(o)
  \/ ReservationRunsOut(o)
  \/ SweepReservation(o)
  \/ BalanceFallsDue(o)
  \/ LapseHold(o)
  \/ CancelOrder(o)
  \/ \E outcome \in {"AVAILABLE", "LOST"} : WriteOff(o, outcome)
  \/ RefundInFull(o)

PaymentStep(p) ==
  \/ \E o \in Orders : InitiatePayment(o, p)
  \/ PromptArrives(p)
  \/ \E code \in {"0"} \cup FailureCodes : PromptEnds(p, code)
  \/ RequestAcknowledged(p)
  \/ RequestRefused(p)
  \/ RequestOutcomeUnknown(p)
  \/ ServerStops(p)
  \/ OrphanCallback(p)
  \/ LateCallbackIgnored(p)
  \/ FailureCallback(p)
  \/ \E matches \in BOOLEAN :
       SuccessCallback(p, matches) \/ DoubtfulCallback(p, matches)
  \/ ListForQuery(p)
  \/ QueryComesToNothing(p)
  \/ QueryWithoutAnswer(p)
  \/ QueryFindsMoney(p)
  \/ QueryFindsFailure(p)
  \/ ReviewSettle(p)
  \/ ReviewReject(p)
  \/ CloseCallback(p)

Next == (\E o \in Orders : OrderStep(o)) \/ (\E p \in Payments : PaymentStep(p))

Spec == Init /\ [][Next]_vars

\* Time passes, and the scheduler calls both sweeps again and again.
Fairness ==
  \A o \in Orders :
    /\ WF_vars(ReservationRunsOut(o)) /\ WF_vars(SweepReservation(o))
    /\ WF_vars(BalanceFallsDue(o)) /\ WF_vars(LapseHold(o))

FairSpec == Spec /\ Fairness
-----------------------------------------------------------------------------
(* Properties.                                                             *)

\* Every row has its type.  The limit on queries is looked at when a run of the
\* job lists its candidates, and not when an answer is recorded: a payment is
\* asked about at most MaxQueries times, and once more for every further run
\* of the job that overlaps (payment-reconciliation.ts:60-70, 83-90).
TypeOK ==
  /\ inv \in [Garments -> StockStatus]
  /\ order \in [Orders -> OrderStatus]
  /\ draft \in [Orders -> DraftStatus]
  /\ items \in [Orders -> SUBSET Garments]
  /\ buyer \in [Orders -> Phones \cup {None}]
  /\ plan \in [Orders -> {"FULL", "DEPOSIT_50"}]
  /\ expired \subseteq Orders /\ overdue \subseteq Orders
  /\ tasks \subseteq Orders /\ lapseRefunds \subseteq Orders
  /\ pord \in [Payments -> Orders \cup {None}]
  /\ pkind \in [Payments -> {"FULL", "DEPOSIT", "BALANCE"}]
  /\ pstat \in [Payments -> PaymentStatus]
  /\ ref \subseteq Payments
  /\ queries \in [Payments -> Nat] /\ asking \in [Payments -> 0 .. MaxJobs]
  /\ \A p \in Payments : queries[p] + asking[p] < MaxQueries + MaxJobs
  /\ call \in [Payments -> {"NONE", "CALLING", "OVER"}]
  /\ prompt \in [Payments -> {"NONE", "OPEN", "0"} \cup FailureCodes]
  /\ cb \in [Payments -> CallbackStatus]

\* An open reservation really holds its garments, and holds them alone: every
\* garment of an ACTIVE draft is RESERVED and is in no other ACTIVE draft, and
\* the order still waits for its money.  Ownership is only inferred from the
\* drafts, so a late settlement, a lapse or a write-off of another order that
\* lists the same garment is what could break it.
ReservationExclusive ==
  \A o \in Orders : draft[o] = "ACTIVE" =>
    /\ order[o] \in Unpaid
    /\ \A g \in items[o] : inv[g] = "RESERVED" /\ Owned(o, g)

PaidInFull(o) ==
  \/ Succeeded(o, {"FULL"})
  \/ Succeeded(o, {"DEPOSIT"}) /\ Succeeded(o, {"BALANCE"})

\* No garment is off sale without an order that explains it: RESERVED by an
\* open checkout, DEPOSIT_HELD for a deposit, PAID by an order paid in full.
\* A refund in full leaves the stock where it was, hence REFUNDED.
OffSaleIsAccountedFor ==
  \A g \in Garments :
    /\ inv[g] = "RESERVED" =>
         \E o \in Orders : g \in items[o] /\ draft[o] = "ACTIVE"
    /\ inv[g] = "DEPOSIT_HELD" =>
         \E o \in Orders : /\ g \in items[o]
                           /\ order[o] \in {"DEPOSIT_PAID", "REFUNDED"}
    /\ inv[g] = "PAID" =>
         \E o \in Orders : /\ g \in items[o] /\ PaidInFull(o)
                           /\ order[o] \in {"PAID", "REFUNDED"}

\* Half the money never buys a picking task: the callback, the status query
\* and the review queue all confirm money, and each must tell the legs apart.
PickingOnlyWhenPaidInFull == \A o \in tasks : PaidInFull(o)

\* No leg of an order is collected twice: two confirmed payments of one order
\* are its deposit and its balance.
OneSuccessPerLeg ==
  \A p, q \in Payments :
    (p # q /\ pstat[p] = "SUCCESS" /\ pstat[q] = "SUCCESS" /\ pord[p] = pord[q])
      => {pkind[p], pkind[q]} = {"DEPOSIT", "BALANCE"}

\* Money a callback reported is never dropped: it is on a confirmed payment,
\* in front of a reviewer, or closed by one.
ReportedMoneyIsKept ==
  \A p \in Payments : prompt[p] = "0" /\ cb[p] # "NONE" =>
    pstat[p] = "SUCCESS" \/ cb[p] \in {"HELD", "ORPHAN", "RESOLVED"}

\* A collected deposit always stands for something: a hold, a finished sale,
\* a refund raised at the lapse, or an order a human closed.
DepositIsAccountedFor ==
  \A o \in Orders : Succeeded(o, {"DEPOSIT"}) =>
    \/ order[o] \in {"DEPOSIT_PAID", "CANCELLED", "REFUNDED"}
    \/ o \in tasks \cup lapseRefunds

\* Confirmed money is never taken back by a later callback, sweep or closure.
SuccessIsFinal ==
  [][\A p \in Payments : pstat[p] = "SUCCESS" => pstat'[p] = "SUCCESS"]_vars

\* A closed order never comes back to life, whatever arrives for it later.
ClosedStaysClosed ==
  [][\A o \in Orders :
       /\ order[o] = "CANCELLED" => order'[o] \in {"CANCELLED", "REFUNDED"}
       /\ order[o] = "REFUNDED" => order'[o] = "REFUNDED"]_vars

\* Every reservation ends, paid or not: an unanswered prompt does not keep it.
EveryReservationEnds ==
  \A o \in Orders : draft[o] = "ACTIVE" ~> draft[o] # "ACTIVE"

\* Every deposit hold ends: an unanswered balance prompt does not pause it.
EveryHoldEnds ==
  \A o \in Orders : order[o] = "DEPOSIT_PAID" ~> order[o] # "DEPOSIT_PAID"

\* The two sweeps, and every callback is delivered at least once.
FairDelivery ==
  /\ FairSpec
  /\ \A p \in Payments :
       /\ WF_vars(OrphanCallback(p)) /\ WF_vars(LateCallbackIgnored(p))
       /\ WF_vars(FailureCallback(p))
       /\ WF_vars(\E matches \in BOOLEAN :
                    SuccessCallback(p, matches) \/ DoubtfulCallback(p, matches))

\* The two sweeps, and the status query runs; a callback may be lost.
FairQueries ==
  /\ FairSpec
  /\ \A p \in Payments : /\ WF_vars(RequestAcknowledged(p))
                           /\ WF_vars(ListForQuery(p))
                           /\ SF_vars(QueryFindsMoney(p))

\* Money the shopper sent is in the end confirmed, or a reviewer has it.
PaidMoneySurfaces ==
  \A p \in Payments : prompt[p] = "0" ~>
    pstat[p] \in {"SUCCESS", "MANUAL_REVIEW"} \/ cb[p] \in {"HELD", "ORPHAN", "RESOLVED"}

\* The checkout keeps the promise of the reservation book: whatever payments,
\* callbacks and sweeps do, reservations open and end whole and exclusively.
Book == INSTANCE ReservationBook WITH
  held <- {e \in Orders \X Garments : draft[e[1]] = "ACTIVE" /\ e[2] \in items[e[1]]},
  shelf <- {g \in Garments : inv[g] = "AVAILABLE"}
ImplementsBook == Book!Spec

-----------------------------------------------------------------------------
(* What the documents say and the code does not do.                        *)

\* "If the garment has already gone - released and sold to someone else -
\* settlement refuses": no two paid orders share a garment.
SoldOnce ==
  \A a, b \in Orders : a # b /\ order[a] = "PAID" /\ order[b] = "PAID" =>
    items[a] \cap items[b] = {}

\* "One phone number may hold at most 3 items on deposit at a time."
HoldsPerPhone == \A ph \in Phones : Pieces(HeldOnDeposit(ph)) <= MaxHolds

\* Closing an order must not "hand another order's item back to sale": here
\* a write-off of a lapsed deposit order, whose garment was sold again.
WriteOffSparesOthers ==
  [][\A a, b \in Orders :
       (/\ a # b
        /\ order[a] = "DEPOSIT_EXPIRED" /\ order'[a] = "CANCELLED"
        /\ order[b] = "PAID")
       => \A g \in items[a] \cap items[b] : inv[g] = "PAID" => inv'[g] = "PAID"]_vars

\* "Closing an order has to decide what happens to the physical garment":
\* stock held for a deposit is held for an order that still waits.
HeldStockHasAWaitingOrder ==
  \A g \in Garments : inv[g] = "DEPOSIT_HELD" =>
    \E o \in Orders : g \in items[o] /\ order[o] = "DEPOSIT_PAID"

\* "Stop querying eventually; what is left goes to a human."
ExhaustedGoesToAHuman ==
  \A p \in Payments : queries[p] >= MaxQueries => pstat[p] # "PENDING"
=============================================================================
