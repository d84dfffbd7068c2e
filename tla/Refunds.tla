------------------------------ MODULE Refunds -------------------------------
(***************************************************************************)
(* The money that goes back, for one order with an affiliate: the refund   *)
(* requests of customer service and finance, the refund that finance       *)
(* records on the order, the returns of the after-sales desk, and the      *)
(* commission these take away.                                             *)
(*                                                                         *)
(* Every handler here locks the order, or its own request, before it reads *)
(* and writes, so each is one action.  What goes wrong does so between     *)
(* handlers: three desks record money against the same payment, each with  *)
(* a sum of its own.                                                       *)
(***************************************************************************)
EXTENDS Integers, FiniteSets, Functions, PriceRules

CONSTANTS
  Items,          \* the items of the order, numbered: the order of their ids
  LineTotal,      \* OrderItem.lineTotalKsh
  DeliveryFee,    \* Order.deliveryFeeKsh
  Amounts,        \* the sums that a desk may type in
  Rate,           \* commissionRateBps when the order is settled
  Window,         \* RETURN_REQUEST_WINDOW_HOURS, in ticks after the completion
  Requests,       \* refund requests
  Named,          \* what a request may name: the set of one case, or of none
  Agents,         \* back-office users
  Receipts,       \* M-Pesa references; one is used up per refund
  Spellings,      \* how a reference may be typed
  None            \* the value of a column that is not set

Subtotal == SumFunction(LineTotal)
Total == Subtotal + DeliveryFee
Deposit == DepositAmount(Total)
LapseRefund == LapsedRefund(Total)
Commission == CommissionAmount(Subtotal, Rate)

ASSUME RefundsAssumption ==
  /\ Items \subseteq Nat /\ IsFiniteSet(Items)
  /\ LineTotal \in [Items -> Nat \ {0}]
  /\ DeliveryFee \in Nat /\ Subtotal \in Nat \ {0}
  /\ Amounts \subseteq Nat \ {0}
  /\ Rate \in 0..MAX_RATE_BPS /\ Window \in Nat
  /\ "UPPER" \in Spellings
  /\ None \notin Items \cup Agents \cup Nat

VARIABLES
  order,          \* Order.status
  paid,           \* the sum of the SUCCESS payments
  request,        \* RefundRequest
  promised,       \* the sum of the requests that are still live
  booked,         \* the sums of the RefundRecords, by what they hang on
  itemBack,       \* the sums of the RefundRecords of each return
  receipts,       \* RefundRecord.externalReference, as spelled in the table
  return,         \* AfterSaleReturn
  case,           \* CustomerServiceCase
  commission,     \* Commission and its adjustments
  clock           \* ticks since OrderFulfillment.completedAt

moneyVars == <<paid, booked, itemBack, receipts>>
requestVars == <<request, promised>>
vars == <<order, moneyVars, requestVars, return, case, commission, clock>>

-----------------------------------------------------------------------------
(* The rows.                                                               *)

OrderStatus == {"DEPOSIT_PAID", "DEPOSIT_EXPIRED", "PAID", "COMPLETED",
                "CANCELLED", "REFUNDED"}

\* A record hangs on the order (recordRefund), on a request, on a request that
\* names a return, or on a return (the after-sales desk).
Desks == {"ORDER", "REQUEST", "REQUEST_FOR_RETURN", "RETURN"}

OpenReturn == {"REQUESTED", "APPROVED", "RECEIVED"}
Return == [st : OpenReturn \cup {"REJECTED", "REFUND_RECORDED"}, at : Nat,
           fit : BOOLEAN, restocked : BOOLEAN,
           adjusted : {"NO", "REVERSAL", "RECOVERY_REQUIRED"}]

\* One case per return, and one that customer service keeps by hand under None.
\* refund is requiresRefund; other stands for requiresReturn and
\* affectsAffiliateCommission, which are set and cleared together.
Cases == Items \cup {None}
Case == [open : BOOLEAN, refund : BOOLEAN, other : BOOLEAN]

ASSUME NamedAssumption == Named \subseteq {{c} : c \in Cases} \cup {{}}

\* A request may name a return, a case, both or neither.
LiveRequest == {"PENDING_APPROVAL", "APPROVED"}
Request == [st : LiveRequest \cup {"REJECTED", "REFUNDED", "CANCELLED"},
            amount : Nat, item : Items \cup {None}, cases : Named \cup {{}},
            by : Agents \cup {None}]

CommissionRow == [st : {"PENDING", "CONFIRMED", "PAID", "REJECTED"},
                  amount : Nat, hold : BOOLEAN, reversed : Nat]

ASSUME NoneIsNoRow == None \notin Request \cup Return \cup CommissionRow

Refunded == booked["ORDER"] + booked["REQUEST"] + booked["REQUEST_FOR_RETURN"]
              + booked["RETURN"]
ReturnsRefunded == booked["REQUEST_FOR_RETURN"] + booked["RETURN"]
Least(a, b) == IF a < b THEN a ELSE b

-----------------------------------------------------------------------------
(* The share of an item in the commission: largest remainder.              *)

Floor(amount, i) == (amount * LineTotal[i]) \div Subtotal
Remainder(amount, i) == (amount * LineTotal[i]) % Subtotal
Before(amount, i, j) ==
  \/ Remainder(amount, i) > Remainder(amount, j)
  \/ Remainder(amount, i) = Remainder(amount, j) /\ i < j
Rank(amount, i) == Cardinality({j \in Items : Before(amount, j, i)})
Left(amount) == amount - SumFunction([i \in Items |-> Floor(amount, i)])

Share(amount, i) ==
  Floor(amount, i) + (IF Rank(amount, i) < Left(amount) THEN 1 ELSE 0)

-----------------------------------------------------------------------------
(* What the handlers ask.                                                  *)

Unused(ref, spelling) == <<ref, spelling>> \notin receipts

Promisable(amount) == Refunded + promised + amount <= paid

RecordableAgain(amount) == amount <= paid    \* fault: refunds already recorded
Recordable(amount) == amount <= paid - Refunded

RefundableItem(i, amount) ==
  /\ amount + itemBack[i] <= LineTotal[i]
  /\ amount + ReturnsRefunded <= Least(Total, paid)

CaseBlocks(c) == case[c].open \/ case[c].refund \/ case[c].other

EligibleEarly ==                             \* fault: before the window closes
  /\ ~commission.hold /\ order = "COMPLETED" /\ paid >= Total
  /\ clock # None /\ clock + 1 >= Window
  /\ \A c \in Cases : ~CaseBlocks(c)
  /\ \A i \in Items : return[i] # None => return[i].st \notin OpenReturn
Eligible ==
  /\ ~commission.hold /\ order = "COMPLETED" /\ paid >= Total
  /\ clock # None /\ clock >= Window
  /\ \A c \in Cases : ~CaseBlocks(c)
  /\ \A i \in Items : return[i] # None => return[i].st \notin OpenReturn

\* reverseCommissionForClosedOrder
ReverseCommission ==
  commission' =
    IF commission = None \/ commission.st \in {"PAID", "REJECTED"}
    THEN commission
    ELSE [commission EXCEPT !.hold = TRUE,
            !.st = IF @ = "PENDING" THEN "REJECTED" ELSE @]

Books(desk, amount, ref, spelling) ==
  /\ Unused(ref, spelling)
  /\ receipts' = receipts \cup {<<ref, spelling>>}
  /\ booked' = [booked EXCEPT ![desk] = @ + amount]

ClosedCase == [open |-> FALSE, refund |-> FALSE, other |-> FALSE]
Asking(row) == [row EXCEPT !.refund = TRUE]
PaidOut(row) == [row EXCEPT !.refund = FALSE, !.open = FALSE]

-----------------------------------------------------------------------------
(* Refund requests.                                                        *)

\* create.  i is the return that it names, if any, and named the case, which
\* may be that of another return; a case that is closed asks for a refund again.
CreateRequest(q, by, amount, i, named) ==
  /\ request[q] = None
  /\ paid > 0
  /\ Promisable(amount)
  /\ \A c \in named : c # None => return[c] # None
  /\ i # None => return[i] # None /\ return[i].st # "REJECTED"
  /\ request' = [request EXCEPT ![q] = [st |-> "PENDING_APPROVAL",
                   amount |-> amount, item |-> i, cases |-> named, by |-> by]]
  /\ promised' = promised + amount
  /\ case' = [c \in Cases |-> IF c \in named THEN Asking(case[c]) ELSE case[c]]
  /\ UNCHANGED <<order, moneyVars, return, commission, clock>>

Ends(q, st) ==
  /\ request' = [request EXCEPT ![q].st = st]
  /\ promised' = promised - request[q].amount

ReviewRequest(q, by, approved) ==
  /\ request[q] # None /\ request[q].st = "PENDING_APPROVAL"
  /\ request[q].by # by
  /\ IF approved
     THEN request' = [request EXCEPT ![q].st = "APPROVED"] /\ UNCHANGED promised
     ELSE Ends(q, "REJECTED")
  /\ UNCHANGED <<order, moneyVars, return, case, commission, clock>>

CancelRequest(q) ==
  /\ request[q] # None /\ request[q].st = "PENDING_APPROVAL"
  /\ Ends(q, "CANCELLED")
  /\ UNCHANGED <<order, moneyVars, return, case, commission, clock>>

\* The ceiling is not looked at again, and the order and its commission stay
\* as they are.
CompleteRequest(q, ref) ==
  /\ request[q] # None /\ request[q].st = "APPROVED"
  /\ LET i == request[q].item
     IN  /\ Books(IF i = None THEN "REQUEST" ELSE "REQUEST_FOR_RETURN",
                  request[q].amount, ref, "UPPER")
         /\ itemBack' = IF i = None THEN itemBack
                        ELSE [itemBack EXCEPT ![i] = @ + request[q].amount]
  /\ Ends(q, "REFUNDED")
  /\ case' = [c \in Cases |->
                IF c \in request[q].cases THEN PaidOut(case[c]) ELSE case[c]]
  /\ UNCHANGED <<order, paid, return, commission, clock>>

-----------------------------------------------------------------------------
(* The refund that finance records on the order.                           *)

RecordRefund(amount, ref, spelling) ==
  /\ paid > 0
  /\ Recordable(amount)
  /\ Books("ORDER", amount, ref, spelling)
  /\ IF Refunded + amount >= paid
     THEN order' = "REFUNDED" /\ ReverseCommission
     ELSE UNCHANGED <<order, commission>>
  /\ UNCHANGED <<paid, itemBack, requestVars, return, case, clock>>

-----------------------------------------------------------------------------
(* Returns.  A replay of a request under its idempotency key writes         *)
(* nothing.                                                                *)

RequestReturn(i) ==
  /\ order = "COMPLETED" /\ paid > 0
  /\ clock # None /\ clock <= Window
  /\ return[i] = None
  /\ return' = [return EXCEPT ![i] = [st |-> "REQUESTED", at |-> clock,
                  fit |-> FALSE, restocked |-> FALSE, adjusted |-> "NO"]]
  /\ case' = [case EXCEPT ![i] = [open |-> TRUE, refund |-> TRUE, other |-> TRUE]]
  /\ UNCHANGED <<order, moneyVars, requestVars, commission, clock>>

DecideReturn(i, approved) ==
  /\ return[i] # None /\ return[i].st = "REQUESTED"
  /\ return' = [return EXCEPT ![i].st =
                  IF approved THEN "APPROVED" ELSE "REJECTED"]
  /\ case' = IF approved THEN case ELSE [case EXCEPT ![i] = ClosedCase]
  /\ UNCHANGED <<order, moneyVars, requestVars, commission, clock>>

\* fit is restockable: the inspector's word and the barcode.
ReceiveReturn(i, fit) ==
  /\ return[i] # None /\ return[i].st = "APPROVED"
  /\ return' = [return EXCEPT ![i].st = "RECEIVED", ![i].fit = fit]
  /\ UNCHANGED <<order, moneyVars, requestVars, case, commission, clock>>

OriginalNow == commission.amount             \* fault: earlier reversals
Original == commission.amount + commission.reversed

\* The commission loses the share of the item, once per return.
Adjust(i) ==
  LET share == Share(Original, i)
      less == commission.amount - share
  IN  IF commission.st = "PAID"
      THEN UNCHANGED commission
      ELSE /\ less >= 0
           /\ commission' = [commission EXCEPT !.amount = less,
                !.reversed = @ + share,
                !.st = IF less = 0 THEN "REJECTED" ELSE @,
                !.hold = @ \/ less = 0]

AnyOfLine(i, amount) == TRUE                 \* fault: a part closes the return
WholeLine(i, amount) == itemBack[i] + amount = LineTotal[i]

RefundReturn(i, amount, ref) ==
  /\ return[i] # None /\ return[i].st \in {"RECEIVED", "REFUND_RECORDED"}
  /\ RefundableItem(i, amount)
  /\ Books("RETURN", amount, ref, "UPPER")
  /\ itemBack' = [itemBack EXCEPT ![i] = @ + amount]
  /\ case' = IF WholeLine(i, amount) THEN [case EXCEPT ![i] = ClosedCase]
             ELSE case
  /\ order' = IF ReturnsRefunded + amount = Total THEN "REFUNDED" ELSE order
  /\ LET adjust == commission # None /\ return[i].adjusted = "NO"
     IN  /\ IF adjust THEN Adjust(i) ELSE UNCHANGED commission
         /\ return' = [return EXCEPT
              ![i].st = IF WholeLine(i, amount) THEN "REFUND_RECORDED"
                        ELSE "RECEIVED",
              ![i].adjusted = IF ~adjust THEN @
                              ELSE IF commission.st = "PAID"
                              THEN "RECOVERY_REQUIRED" ELSE "REVERSAL"]
  /\ UNCHANGED <<paid, requestVars, clock>>

\* The stock side may refuse: the garment or the shelf has changed.
Restock(i) ==
  /\ return[i] # None /\ return[i].st = "REFUND_RECORDED"
  /\ return[i].fit /\ ~return[i].restocked
  /\ return' = [return EXCEPT ![i].restocked = TRUE]
  /\ UNCHANGED <<order, moneyVars, requestVars, case, commission, clock>>

\* assignAfterSale, for an order with a task: the case of a return is left to
\* the desk.  The case kept by hand is closed, or opened to ask for a refund.
EditCase(wanted) ==
  /\ paid = Total
  /\ case' = [case EXCEPT ![None] = [open |-> wanted, refund |-> wanted,
                                    other |-> FALSE]]
  /\ UNCHANGED <<order, moneyVars, requestVars, return, commission, clock>>

-----------------------------------------------------------------------------
(* The commission.                                                         *)

Moves(st) ==
  /\ commission' = [commission EXCEPT !.st = st, !.hold = @ \/ st = "REJECTED"]
  /\ UNCHANGED <<order, moneyVars, requestVars, return, case, clock>>

ConfirmCommission ==
  commission # None /\ commission.st = "PENDING" /\ Eligible /\ Moves("CONFIRMED")

RecordPayment ==
  /\ commission # None /\ commission.st = "CONFIRMED" /\ Eligible
  /\ commission.amount # 0
  /\ Moves("PAID")

RejectCommission ==
  commission # None /\ commission.st \in {"PENDING", "CONFIRMED"} /\ Moves("REJECTED")

-----------------------------------------------------------------------------
(* What other parts do to the order.                                       *)

NewCommission == [st |-> "PENDING", amount |-> Commission, hold |-> FALSE,
                  reversed |-> 0]

\* The balance may also come late, when the hold has lapsed.
AwaitsBalance == order \in {"DEPOSIT_PAID", "DEPOSIT_EXPIRED"}

SettleTotal ==                               \* fault: the deposit counts twice
  /\ AwaitsBalance
  /\ order' = "PAID" /\ paid' = paid + Total /\ commission' = NewCommission
  /\ UNCHANGED <<booked, itemBack, receipts, requestVars, return, case, clock>>
SettleBalance ==
  /\ AwaitsBalance
  /\ order' = "PAID" /\ paid' = Total /\ commission' = NewCommission
  /\ UNCHANGED <<booked, itemBack, receipts, requestVars, return, case, clock>>

\* One LAPSED_DEPOSIT request, whatever other requests there are.
LapseDeposit(q) ==
  /\ order = "DEPOSIT_PAID" /\ request[q] = None
  /\ order' = "DEPOSIT_EXPIRED"
  /\ LET back == LapsedDeposit(Total, paid).refund
     IN  IF back > 0
         THEN /\ request' = [request EXCEPT ![q] = [st |-> "PENDING_APPROVAL",
                    amount |-> back, item |-> None, cases |-> {}, by |-> None]]
              /\ promised' = promised + back
         ELSE UNCHANGED requestVars
  /\ UNCHANGED <<moneyVars, return, case, commission, clock>>

CompleteOrder ==
  /\ order = "PAID"
  /\ order' = "COMPLETED" /\ clock' = 0
  /\ UNCHANGED <<moneyVars, requestVars, return, case, commission>>

WriteOff ==
  /\ order \in {"DEPOSIT_PAID", "DEPOSIT_EXPIRED", "PAID"}
  /\ order' = "CANCELLED" /\ ReverseCommission
  /\ UNCHANGED <<moneyVars, requestVars, return, case, clock>>

\* Bound: nothing changes any more one tick after the window.
Tick ==
  /\ clock # None /\ clock <= Window
  /\ clock' = clock + 1
  /\ UNCHANGED <<order, moneyVars, requestVars, return, case, commission>>

-----------------------------------------------------------------------------

Init ==
  /\ \/ /\ QualifiesForDeposit(Total)
        /\ order = "DEPOSIT_PAID" /\ paid = Deposit /\ commission = None
     \/ order = "PAID" /\ paid = Total /\ commission \in {None, NewCommission}
  /\ request = [q \in Requests |-> None] /\ promised = 0
  /\ booked = [d \in Desks |-> 0]
  /\ itemBack = [i \in Items |-> 0]
  /\ receipts = {}
  /\ return = [i \in Items |-> None]
  /\ case = [c \in Cases |-> ClosedCase]
  /\ clock = None

RequestSteps ==
  \E q \in Requests :
    \/ \E by \in Agents, amount \in Amounts, i \in Items \cup {None},
          named \in Named : CreateRequest(q, by, amount, i, named)
    \/ \E by \in Agents, approved \in BOOLEAN : ReviewRequest(q, by, approved)
    \/ CancelRequest(q)
    \/ \E ref \in Receipts : CompleteRequest(q, ref)

ReturnSteps ==
  \E i \in Items :
    \/ RequestReturn(i)
    \/ \E approved \in BOOLEAN : DecideReturn(i, approved)
    \/ \E fit \in BOOLEAN : ReceiveReturn(i, fit)
    \/ \E amount \in Amounts, ref \in Receipts : RefundReturn(i, amount, ref)
    \/ Restock(i)

OrderSteps ==
  \/ \E amount \in Amounts, ref \in Receipts, spelling \in Spellings :
       RecordRefund(amount, ref, spelling)
  \/ \E wanted \in BOOLEAN : EditCase(wanted)
  \/ SettleBalance
  \/ \E q \in Requests : LapseDeposit(q)
  \/ CompleteOrder
  \/ WriteOff
  \/ Tick

CommissionSteps == ConfirmCommission \/ RecordPayment \/ RejectCommission

Next == RequestSteps \/ ReturnSteps \/ OrderSteps \/ CommissionSteps
Spec == Init /\ [][Next]_vars

-----------------------------------------------------------------------------
(* Properties.                                                             *)

\* The rows hold what their columns can hold.
TypeOK ==
  /\ order \in OrderStatus /\ paid \in {Deposit, Total}
  /\ request \in [Requests -> Request \cup {None}] /\ promised \in Int
  /\ booked \in [Desks -> Nat] /\ itemBack \in [Items -> Nat]
  /\ receipts \subseteq Receipts \X Spellings
  /\ return \in [Items -> Return \cup {None}]
  /\ case \in [Cases -> Case]
  /\ commission \in CommissionRow \cup {None}
  /\ clock \in (0..Window + 1) \cup {None}

\* Each desk alone stays within what was paid: what finance records on the
\* order, what the after-sales desk records, and what is requested, approved or
\* refunded on request - except that a lapsed deposit raises its request
\* without counting those that are there.
EachDeskWithinPaid ==
  /\ booked["ORDER"] <= paid
  /\ ReturnsRefunded - booked["REQUEST_FOR_RETURN"] <= paid
  /\ booked["REQUEST"] + booked["REQUEST_FOR_RETURN"] + promised
       <= paid + (IF \E q \in Requests : request[q] # None /\ request[q].by = None
                  THEN LapseRefund ELSE 0)

\* A paid commission is out of the reach of returns: a return that is still
\* open, or that found the commission paid, was asked for in the last tick of
\* the window, which is the first in which the commission can be paid.
PaidCommissionIsPastReturns ==
  \A i \in Items : return[i] # None =>
    /\ commission # None /\ commission.st = "PAID" /\ return[i].st \in OpenReturn
         => return[i].at = Window
    /\ return[i].adjusted = "RECOVERY_REQUIRED" => return[i].at = Window

\* The commission is the shares of the items that were not taken off it: none is
\* taken twice, and when all are nothing is left to pay.
CommissionFollowsReturns ==
  commission # None =>
    LET kept == {i \in Items : return[i] # None => return[i].adjusted # "REVERSAL"}
    IN  /\ commission.amount =
             SumFunctionOnSet([i \in Items |-> Share(Commission, i)], kept)
        /\ kept = {} => commission.st = "REJECTED"

\* A garment goes back on the shelf only when its customer has the whole of its
\* price back, whichever desk recorded it.
RestockedIsPaidBack ==
  \A i \in Items : return[i] # None /\ return[i].restocked
                     => itemBack[i] >= LineTotal[i]

\* docs/modules/payment-exceptions.md:66, "Recorded refunds can never exceed
\* what was actually paid."
RefundsWithinPaid == Refunded <= paid

\* docs/modules/customer-service.md:130, "The M-Pesa reference is unique;
\* recording the same payout twice is refused."
ReceiptRecordedOnce ==
  \A a, b \in receipts : a[1] = b[1] => a = b

\* docs/modules/payment-exceptions.md:63-64, "When recorded refunds cover the
\* payment, the order becomes REFUNDED."
CoveredOrderIsRefunded == paid > 0 /\ Refunded >= paid => order = "REFUNDED"

\* docs/modules/customer-service.md:137, "RECEIVED -> REFUND_RECORDED": a return
\* that was received still has money to record, or has been closed.
ReceivedReturnCanClose ==
  \A i \in Items : return[i] # None /\ return[i].st = "RECEIVED"
                     => itemBack[i] < LineTotal[i]
=============================================================================
