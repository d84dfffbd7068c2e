--------------------------- MODULE SaleMoneyProofs ---------------------------
(***************************************************************************)
(* Theorems about the money and the stock of Sale: what the legs of an     *)
(* order can add up to, what a collected deposit and a garment off sale    *)
(* stand for, and that Sale implements ReservationBook.  Every invariant   *)
(* here holds for any number of orders, garments, shoppers and payments.   *)
(***************************************************************************)
EXTENDS SaleProofs

Ended == {"FAILED", "CANCELLED", "TIMEOUT", "EXPIRED"}

\* No answer to the STK request will be stored any more, and none was.
NeverAcknowledged(p) == call[p] = "OVER" /\ p \notin ref

\* The prompt ended, and no money came of it.
PromptFailed(p) == Answered(p) /\ prompt[p] # "0"

\* A payment that failed and that no late callback can revive.
Spent(p) == pstat[p] \in Ended /\ (NeverAcknowledged(p) \/ PromptFailed(p))

\* A payment row has an order from the moment it is used.
UnusedHasNoOrder == \A p \in Payments : pstat[p] = "NONE" => pord[p] = None

\* The request id is stored when the STK request returns, and once.
AcknowledgedIsOver == \A p \in ref : call[p] = "OVER"

\* A payment in review was paid, or its request id was never stored.
ReviewHasAReason ==
  \A p \in Payments : pstat[p] = "MANUAL_REVIEW" =>
    prompt[p] = "0" \/ NeverAcknowledged(p)

\* The failure of a leg ends the checkout of its order.
EndedLegsCloseDraft ==
  \A p \in Payments : pstat[p] \in Ended => draft[pord[p]] # "ACTIVE"

\* A hold is paid for.
HoldHasDeposit ==
  \A o \in Orders : order[o] = "DEPOSIT_PAID" => Succeeded(o, {"DEPOSIT"})

\* A balance is only asked for after its deposit.
BalanceFollowsDeposit ==
  \A p \in Payments : pord[p] \in Orders /\ pkind[p] = "BALANCE"
                        => Succeeded(pord[p], {"DEPOSIT"})

\* An order has one leg that is not a balance: when it ends the order is over.
OneFirstLeg ==
  \A p, q \in Payments :
    p # q /\ pord[p] \in Orders /\ pord[p] = pord[q]
      => "BALANCE" \in {pkind[p], pkind[q]}

\* While a hold waits for its balance, what ended of it stays ended.
EndedBalanceIsSpent ==
  \A p \in Payments :
    /\ pord[p] \in Orders /\ pkind[p] = "BALANCE" /\ pstat[p] \in Ended
    /\ order[pord[p]] = "DEPOSIT_PAID"
    => Spent(p)

\* So no two balances of one order can both still be paid.
OneOpenBalance ==
  \A p, q \in Payments :
    /\ p # q /\ pord[p] \in Orders /\ pord[p] = pord[q]
    /\ pkind[p] = "BALANCE" /\ pkind[q] = "BALANCE"
    => Spent(p) \/ Spent(q)

\* The job only asks about prompts whose id was stored.
AskedIsStored == \A p \in Payments : asking[p] > 0 => p \in ref

LegInv ==
  /\ UnusedHasNoOrder
  /\ AskedIsStored
  /\ AcknowledgedIsOver
  /\ ReviewHasAReason
  /\ EndedLegsCloseDraft
  /\ HoldHasDeposit
  /\ BalanceFollowsDeposit
  /\ OneFirstLeg
  /\ EndedBalanceIsSpent
  /\ OneOpenBalance

\* A callback is stored for a prompt that has its result.
StoredIsAnswered == \A p \in Payments : cb[p] # "NONE" => Answered(p)

\* An open reservation has something in it.
OpenHasItems == \A o \in Orders : draft[o] = "ACTIVE" => items[o] # {}

-----------------------------------------------------------------------------
(* What a step does to one payment and its prompt.                         *)

\* The result of a prompt is final, and so is the end of an STK request.
OutsideMoves(p) ==
  /\ Answered(p) => prompt'[p] = prompt[p]
  /\ call[p] = "OVER" => call'[p] = "OVER" /\ (p \in ref' <=> p \in ref)
  /\ p \in ref' => p \in ref \/ call'[p] = "OVER"

\* Every step keeps the result of a prompt and the end of an STK request.
LEMMA OutsideStep ==
  ASSUME TypeOK, LegsHaveOrders, UnusedHasNoOrder, Next
  PROVE  \A p \in Payments : OutsideMoves(p)
<1> USE DEF OutsideMoves, outsideVars
<1>1. ASSUME NEW o \in Orders, OrderStep(o)
      PROVE  UNCHANGED <<outsideVars, ref>>
  BY <1>1 DEF OrderStep, StartCheckout, ReleaseByShopper, ReservationRunsOut,
     SweepReservation, BalanceFallsDue, LapseHold, CancelOrder, WriteOff,
     RefundInFull
<1>2. ASSUME NEW p \in Payments, PaymentStep(p)
      PROVE  \A q \in Payments : OutsideMoves(q)
  <2>1. ASSUME NEW o \in Orders, InitiatePayment(o, p)
        PROVE  \A q \in Payments : OutsideMoves(q)
    <3>1. call[p] # "OVER"
      BY <2>1, SaleAssumption
         DEF InitiatePayment, LegsHaveOrders, UnusedHasNoOrder
    <3> QED BY <2>1, <3>1 DEF InitiatePayment, TypeOK
  <2>2. CASE PromptArrives(p)
    BY <2>2 DEF PromptArrives, Answered, TypeOK
  <2>3. ASSUME NEW code \in {"0"} \cup FailureCodes, PromptEnds(p, code)
        PROVE  \A q \in Payments : OutsideMoves(q)
    BY <2>3 DEF PromptEnds, Answered, TypeOK
  <2>4. CASE \/ RequestAcknowledged(p) \/ RequestRefused(p)
             \/ RequestOutcomeUnknown(p) \/ ServerStops(p)
    BY <2>4 DEF RequestAcknowledged, RequestRefused, RequestOutcomeUnknown,
       ServerStops, TypeOK
  <2>5. CASE UNCHANGED <<outsideVars, ref>>
    BY <2>5
  <2> QED
    BY <1>2, <2>1, <2>2, <2>3, <2>4, <2>5
       DEF PaymentStep, OrphanCallback, LateCallbackIgnored, FailureCallback,
           SuccessCallback, DoubtfulCallback, ListForQuery,
           QueryComesToNothing, QueryWithoutAnswer, QueryFindsMoney,
           QueryFindsFailure, ReviewSettle, ReviewReject, CloseCallback
<1> QED BY <1>1, <1>2 DEF Next

\* Only the job itself moves its list, and ids once stored stay stored.
LEMMA AskingStep ==
  ASSUME TypeOK, AskedIsStored, Next
  PROVE  AskedIsStored'
<1> USE DEF jobVars, AskedIsStored
<1>1. ASSUME NEW o \in Orders, OrderStep(o)
      PROVE  UNCHANGED <<asking, ref>>
  BY <1>1 DEF OrderStep, StartCheckout, ReleaseByShopper, ReservationRunsOut,
     SweepReservation, BalanceFallsDue, LapseHold, CancelOrder, WriteOff,
     RefundInFull
<1>2. ASSUME NEW p \in Payments, PaymentStep(p)
      PROVE  AskedIsStored'
  <2>1. CASE ListForQuery(p) \/ QueryComesToNothing(p)
    BY <2>1 DEF ListForQuery, QueryComesToNothing, Reconcilable, TypeOK
  <2>2. CASE CountQuery(p) /\ asking[p] > 0 /\ UNCHANGED ref
    BY <2>2 DEF CountQuery, TypeOK
  <2>3. CASE UNCHANGED asking /\ ref \subseteq ref'
    BY <2>3
  <2> QED
    BY <1>2, <2>1, <2>2, <2>3
       DEF PaymentStep, InitiatePayment, PromptArrives, PromptEnds,
           RequestAcknowledged, RequestRefused, RequestOutcomeUnknown,
           ServerStops, OrphanCallback, LateCallbackIgnored, FailureCallback,
           SuccessCallback, DoubtfulCallback, QueryWithoutAnswer,
           QueryFindsMoney, QueryFindsFailure, Listed, ReviewSettle,
           ReviewReject, CloseCallback
<1> QED BY <1>1, <1>2 DEF Next

\* How a payment ends without money: with its order, or by itself.
EndsWithOrder(p) ==
  /\ pstat[p] \in Live /\ pstat'[p] \in Ended
  /\ draft'[pord[p]] # "ACTIVE" /\ order'[pord[p]] # "DEPOSIT_PAID"

EndsAlone(p) ==
  /\ pstat[p] \in Live
  /\ Spent(p)'
  /\ pkind[p] # "BALANCE" => draft'[pord[p]] # "ACTIVE"

GoesToReview(p) ==
  /\ pstat'[p] = "MANUAL_REVIEW"
  /\ \/ p \in ref /\ prompt[p] = "0"
     \/ pstat[p] = "PENDING" /\ NeverAcknowledged(p)'

StatusMoves(p) ==
  \/ pstat'[p] = pstat[p]
  \/ pstat[p] = "NONE" /\ pstat'[p] = "PENDING"
  \/ pstat[p] \in Live /\ pstat'[p] = "SUCCESS"
  \/ EndsWithOrder(p)
  \/ EndsAlone(p)
  \/ GoesToReview(p)

\* Whether or not there was a reservation to release, none is open afterwards.
LEMMA ReleaseUnpaidClosesDraft ==
  ASSUME IInv, NEW o \in Orders, NEW ds \in DraftStatus \ {"ACTIVE"}, NEW os,
         ReleaseUnpaid(o, ds, os)
  PROVE  draft'[o] # "ACTIVE"
<1>1. CASE Releasable(o)
  BY <1>1 DEF ReleaseUnpaid, ReleaseReservation, IInv, TypeOK
<1>2. CASE ~Releasable(o)
  <2>1. draft' = draft
    BY <1>2 DEF ReleaseUnpaid, orderVars
  <2>2. EverPaid(o) => draft[o] # "ACTIVE"
    BY DEF EverPaid, Succeeded, LegsOf, IInv, PaidClosesDraft
  <2>3. draft[o] = "ACTIVE" => order[o] \in Unpaid
    BY DEF IInv, ReservationExclusive
  <2> QED BY <1>2, <2>1, <2>2, <2>3 DEF Releasable
<1> QED BY <1>1, <1>2

\* How the steps about an order change payments.
LEMMA OrderStepStatus ==
  ASSUME IInv, NEW o \in Orders, OrderStep(o)
  PROVE  \A p \in Payments : StatusMoves(p)
<1> USE DEF StatusMoves
<1>1. CASE UNCHANGED pstat
  BY <1>1
<1>2. ASSUME NEW from \in SUBSET Live, NEW to \in Ended, MoveLegs(o, from, to),
             draft'[o] # "ACTIVE", order'[o] # "DEPOSIT_PAID"
      PROVE  \A p \in Payments : StatusMoves(p)
  BY <1>2 DEF MoveLegs, EndsWithOrder, IInv, TypeOK
<1>3. CASE ReleaseByShopper(o)
  BY <1>2, <1>3 DEF ReleaseByShopper, ReleaseReservation, Live, Ended, IInv, TypeOK
<1>4. CASE SweepReservation(o)
  BY <1>2, <1>4 DEF SweepReservation, ReleaseReservation, Live, Ended, IInv, TypeOK
<1>5. CASE LapseHold(o)
  <2>1. draft'[o] # "ACTIVE"
    BY <1>5 DEF LapseHold, HoldLapsed, IInv, ReservationExclusive, Unpaid
  <2> QED BY <1>2, <1>5, <2>1 DEF LapseHold, Ended, IInv, TypeOK
<1>6. CASE CancelOrder(o)
  BY <1>2, <1>6 DEF CancelOrder, CloseDraft, Ended, IInv, TypeOK
<1> QED
  BY <1>1, <1>3, <1>4, <1>5, <1>6 DEF OrderStep, StartCheckout,
     ReservationRunsOut, BalanceFallsDue, WriteOff, RefundInFull

\* A failure that was reported ends the payment for good.
LEMMA FailPaymentStatus ==
  ASSUME IInv, NEW p \in Payments, pstat[p] = "PENDING", FailPayment(p),
         PromptFailed(p), UNCHANGED prompt
  PROVE  \A q \in Payments : StatusMoves(q)
<1> DEFINE status == FailureStatus(prompt[p])
<1>1. status \in Ended
  BY FailureTypes DEF Ended
<1>2. pord[p] \in Orders
  BY DEF IInv, LegsHaveOrders
<1>3. ASSUME pkind[p] # "BALANCE"
      PROVE  draft'[pord[p]] # "ACTIVE"
  <2>1. ReleaseUnpaid(pord[p], DraftAfter(status), OrderAfter(status))
    BY <1>3 DEF FailPayment
  <2>2. DraftAfter(status) \in DraftStatus \ {"ACTIVE"}
    BY FailureTypes
  <2> HIDE DEF status
  <2> QED BY <1>2, <2>1, <2>2, ReleaseUnpaidClosesDraft
<1>4. pstat' = [pstat EXCEPT ![p] = status]
  BY DEF FailPayment
<1>5. EndsAlone(p)
  BY <1>1, <1>3, <1>4
     DEF EndsAlone, Spent, PromptFailed, Answered, Live, IInv, TypeOK
<1> QED BY <1>4, <1>5 DEF StatusMoves, IInv, TypeOK

\* How the steps about a payment change payments.
LEMMA PaymentStepStatus ==
  ASSUME IInv, LegInv, NEW p \in Payments, PaymentStep(p)
  PROVE  \A q \in Payments : StatusMoves(q)
<1> USE DEF IInv, LegInv, StatusMoves, outsideVars
<1>1. CASE UNCHANGED pstat
  BY <1>1
<1>2. ASSUME NEW o \in Orders, InitiatePayment(o, p)
      PROVE  \A q \in Payments : StatusMoves(q)
  BY <1>2 DEF InitiatePayment, TypeOK
<1>3. ASSUME Settle(p), pstat[p] \in Live
      PROVE  \A q \in Payments : StatusMoves(q)
  BY <1>3 DEF Settle, Sell, Hold, TypeOK
<1>4. CASE RequestRefused(p) /\ pstat[p] = "PENDING"
  <2>1. pstat' = [pstat EXCEPT ![p] = "FAILED"]
    BY <1>4 DEF RequestRefused
  <2>2. NeverAcknowledged(p)'
    BY <1>4 DEF RequestRefused, NeverAcknowledged, AcknowledgedIsOver, TypeOK
  <2>3. pkind[p] # "BALANCE" => draft'[pord[p]] # "ACTIVE"
    <3>1. pord[p] \in Orders
      BY <1>4 DEF LegsHaveOrders
    <3>2. "ABANDONED" \in DraftStatus \ {"ACTIVE"}
      BY DEF DraftStatus
    <3> QED BY <1>4, <3>1, <3>2, ReleaseUnpaidClosesDraft DEF RequestRefused
  <2>4. EndsAlone(p)
    BY <1>4, <2>1, <2>2, <2>3 DEF EndsAlone, Spent, Ended, Live, TypeOK
  <2> QED BY <2>1, <2>4 DEF TypeOK
<1>5. CASE RequestOutcomeUnknown(p) /\ pstat[p] = "PENDING"
  <2>1. NeverAcknowledged(p)'
    BY <1>5 DEF RequestOutcomeUnknown, NeverAcknowledged, AcknowledgedIsOver,
       TypeOK
  <2> QED BY <1>5, <2>1 DEF RequestOutcomeUnknown, GoesToReview, TypeOK
<1>6. CASE FailureCallback(p)
  BY <1>6, FailPaymentStatus DEF FailureCallback, PromptFailed
<1>7. CASE QueryFindsFailure(p)
  BY <1>7, FailPaymentStatus DEF QueryFindsFailure, Listed, PromptFailed
<1>8. ASSUME NEW matches \in BOOLEAN, SuccessCallback(p, matches)
      PROVE  \A q \in Payments : StatusMoves(q)
  BY <1>3, <1>8 DEF SuccessCallback, AppliesCleanly, WindowOpen, Live
<1>9. ASSUME NEW matches \in BOOLEAN, DoubtfulCallback(p, matches)
      PROVE  \A q \in Payments : StatusMoves(q)
  BY <1>9 DEF DoubtfulCallback, GoesToReview, TypeOK
<1>10. CASE QueryFindsMoney(p)
  <2>1. CASE CanSettle(p)
    BY <1>3, <1>10, <2>1 DEF QueryFindsMoney, Listed, Live
  <2>2. CASE ~CanSettle(p)
    BY <1>10, <2>2
       DEF QueryFindsMoney, Listed, AskedIsStored, GoesToReview, TypeOK
  <2> QED BY <2>1, <2>2
<1>11. CASE ReviewSettle(p)
  BY <1>3, <1>11 DEF ReviewSettle, Live
<1>12. CASE ReviewReject(p)
  <2>1. pstat' = [pstat EXCEPT ![p] = "FAILED"]
    BY <1>12 DEF ReviewReject
  <2>2. NeverAcknowledged(p)'
    BY <1>12 DEF ReviewReject, NeverAcknowledged, ReviewHasAReason
  <2>3. draft'[pord[p]] # "ACTIVE"
    <3>1. pord[p] \in Orders
      BY <1>12 DEF ReviewReject, LegsHaveOrders
    <3>2. "ABANDONED" \in DraftStatus \ {"ACTIVE"}
      BY DEF DraftStatus
    <3> QED BY <1>12, <3>1, <3>2, ReleaseUnpaidClosesDraft DEF ReviewReject
  <2>4. EndsAlone(p)
    BY <1>12, <2>1, <2>2, <2>3
       DEF ReviewReject, EndsAlone, Spent, Ended, Live, TypeOK
  <2> QED BY <2>1, <2>4 DEF TypeOK
<1> QED
  BY <1>1, <1>2, <1>4, <1>5, <1>6, <1>7, <1>8, <1>9, <1>10, <1>11, <1>12
     DEF PaymentStep, PromptArrives, PromptEnds, RequestAcknowledged,
         RequestRefused, RequestOutcomeUnknown, ServerStops, OrphanCallback,
         LateCallbackIgnored, ListForQuery, QueryComesToNothing,
         QueryWithoutAnswer, CloseCallback

\* Both together.
LEMMA StatusStep ==
  ASSUME IInv, LegInv, Next
  PROVE  \A p \in Payments : StatusMoves(p)
BY OrderStepStatus, PaymentStepStatus DEF Next

-----------------------------------------------------------------------------
(* The invariant of the legs is inductive.                                 *)

\* A payment gets its order and its kind when it is initiated, and keeps them.
LEMMA OnlyInitiateNamesLegs ==
  ASSUME Next
  PROVE  \/ UNCHANGED legVars
         \/ \E o \in Orders, p \in Payments : InitiatePayment(o, p)
<1> USE DEF legVars
<1>1. ASSUME NEW o \in Orders, OrderStep(o)
      PROVE  UNCHANGED legVars
  BY <1>1 DEF OrderStep, StartCheckout, ReleaseByShopper, ReservationRunsOut,
     SweepReservation, BalanceFallsDue, LapseHold, CancelOrder, WriteOff,
     RefundInFull
<1>2. ASSUME NEW p \in Payments, PaymentStep(p),
             ~ \E o \in Orders : InitiatePayment(o, p)
      PROVE  UNCHANGED legVars
  BY <1>2 DEF PaymentStep, PromptArrives, PromptEnds, RequestAcknowledged,
     RequestRefused, RequestOutcomeUnknown, ServerStops, OrphanCallback,
     LateCallbackIgnored, FailureCallback, SuccessCallback, DoubtfulCallback,
     ListForQuery, QueryComesToNothing, QueryWithoutAnswer, QueryFindsMoney,
     QueryFindsFailure, ReviewSettle, ReviewReject, CloseCallback
<1> QED BY <1>1, <1>2 DEF Next

\* A payment that was used keeps its order and its kind, and confirmed money
\* keeps counting.
LEMMA UsedLegStays ==
  ASSUME IInv, Next, NEW p \in Payments, pstat[p] # "NONE"
  PROVE  /\ pord[p] \in Orders /\ order[pord[p]] # "UNPLACED"
         /\ pord'[p] = pord[p] /\ pkind'[p] = pkind[p]
<1>1. LegMoves(p)
  BY LegsMove DEF IInv
<1> QED BY <1>1 DEF LegMoves, IInv, LegsHaveOrders, UnplacedHasNoLegs

\* A confirmed payment stays confirmed.
LEMMA SuccessStays ==
  ASSUME IInv, Next
  PROVE  \A p \in Payments : pstat[p] = "SUCCESS" => pstat'[p] = "SUCCESS"
<1>1. ASSUME NEW p \in Payments, Confirms(p)
      PROVE  \A q \in Payments : pstat[q] = "SUCCESS" => pstat'[q] = "SUCCESS"
  BY <1>1 DEF IInv, TypeOK, Confirms, Settle, Sell, Hold
<1>2. ConfirmsNothing => \A q \in Payments : pstat[q] = "SUCCESS" => pstat'[q] = "SUCCESS"
  BY DEF ConfirmsNothing
<1> QED BY <1>1, <1>2, StepMoves DEF IInv

\* So does what an order has been paid for.
LEMMA SucceededStays ==
  ASSUME IInv, Next, NEW o \in Orders, NEW kinds, Succeeded(o, kinds)
  PROVE  Succeeded(o, kinds)'
<1>1. PICK p \in Payments : pord[p] = o /\ pkind[p] \in kinds /\ pstat[p] = "SUCCESS"
  BY DEF Succeeded, LegsOf
<1>2. pord'[p] = o /\ pkind'[p] = pkind[p] /\ pstat'[p] = "SUCCESS"
  BY <1>1, UsedLegStays, SuccessStays
<1> QED BY <1>1, <1>2 DEF Succeeded, LegsOf

\* The draft of a placed order, once closed, is not opened again.
LEMMA ClosedDraftStays ==
  ASSUME IInv, Next, NEW o \in Orders, order[o] # "UNPLACED", draft[o] # "ACTIVE"
  PROVE  draft'[o] # "ACTIVE"
<1>1. ASSUME NEW p \in Payments, Confirms(p)
      PROVE  draft'[o] # "ACTIVE"
  BY <1>1 DEF IInv, TypeOK, Confirms, Settle, Sell, Hold
<1>2. OrderMoves(o) => draft'[o] # "ACTIVE"
  BY DEF OrderMoves
<1> QED BY <1>1, <1>2, StepMoves DEF IInv

\* A payment that can bring no money any more stays so.
LEMMA SpentStays ==
  ASSUME IInv, LegInv, Next, NEW p \in Payments, Spent(p)
  PROVE  Spent(p)'
<1>1. OutsideMoves(p)
  BY OutsideStep DEF IInv, LegInv
<1>2. (NeverAcknowledged(p) \/ PromptFailed(p))'
  BY <1>1 DEF OutsideMoves, Spent, NeverAcknowledged, PromptFailed, Answered
<1>3. pstat'[p] = pstat[p]
  <2>1. StatusMoves(p)
    BY StatusStep
  <2>2. ~GoesToReview(p)
    BY DEF GoesToReview, Spent, Ended, NeverAcknowledged, PromptFailed
  <2> QED
    BY <2>1, <2>2 DEF StatusMoves, Spent, Ended, Live, EndsWithOrder, EndsAlone
<1> QED BY <1>2, <1>3 DEF Spent

\* A deposit is confirmed once, so a hold that is over does not come back.
LEMMA HoldStartsBeforeBalances ==
  ASSUME IInv, LegInv, Next, NEW o \in Orders,
         order[o] # "DEPOSIT_PAID", order'[o] = "DEPOSIT_PAID"
  PROVE  /\ ~Succeeded(o, {"DEPOSIT"})
         /\ Succeeded(o, {"DEPOSIT"})'
<1>1. PICK q \in Payments : Confirms(q)
  BY StepMoves DEF OrderMoves, IInv
<1>2. /\ o = pord[q] /\ pkind[q] = "DEPOSIT" /\ pstat[q] \in Live
      /\ pstat'[q] = "SUCCESS" /\ pord' = pord /\ pkind' = pkind
  BY <1>1 DEF Confirms, Settle, Sell, Hold, legVars, IInv, TypeOK
<1>3. Succeeded(o, {"DEPOSIT"})'
  BY <1>2 DEF Succeeded, LegsOf
<1>4. ASSUME NEW d \in Payments, pord[d] = o, pkind[d] = "DEPOSIT",
             pstat[d] = "SUCCESS"
      PROVE  FALSE
  <2>1. d # q
    BY <1>2, <1>4 DEF Live
  <2> QED BY <1>2, <1>4, <2>1 DEF LegInv, OneFirstLeg
<1> QED BY <1>3, <1>4 DEF Succeeded, LegsOf

\* The parts of LegInv about single payments.
LEMMA ReviewStep ==
  ASSUME IInv, LegInv, Next
  PROVE  UnusedHasNoOrder' /\ AcknowledgedIsOver' /\ ReviewHasAReason'
<1>1. \A p \in Payments : OutsideMoves(p)
  BY OutsideStep DEF IInv, LegInv
<1>2. UnusedHasNoOrder'
  <2> SUFFICES ASSUME NEW p \in Payments, pstat'[p] = "NONE"
               PROVE  pord'[p] = None
    BY DEF UnusedHasNoOrder
  <2>1. StatusMoves(p) /\ LegMoves(p)
    BY StatusStep, LegsMove DEF IInv
  <2>2. pstat[p] = "NONE" /\ pord'[p] = pord[p]
    BY <2>1 DEF StatusMoves, LegMoves, EndsWithOrder, EndsAlone, Spent, Ended,
       GoesToReview
  <2> QED BY <2>2 DEF LegInv, UnusedHasNoOrder
<1>3. AcknowledgedIsOver'
  <2>1. ref' \subseteq Payments
    BY OrderStepType, PaymentStepType DEF IInv, Next, TypeOK
  <2> QED BY <1>1, <2>1 DEF OutsideMoves, LegInv, AcknowledgedIsOver
<1>4. ReviewHasAReason'
  <2> SUFFICES ASSUME NEW p \in Payments, pstat'[p] = "MANUAL_REVIEW"
               PROVE  (prompt[p] = "0" \/ NeverAcknowledged(p))'
    BY DEF ReviewHasAReason
  <2>1. pstat[p] = "MANUAL_REVIEW" \/ GoesToReview(p)
    BY StatusStep DEF StatusMoves, EndsWithOrder, EndsAlone, Spent, Ended
  <2>2. prompt[p] = "0" => prompt'[p] = "0"
    BY <1>1 DEF OutsideMoves, Answered
  <2>3. NeverAcknowledged(p) => NeverAcknowledged(p)'
    BY <1>1 DEF OutsideMoves, NeverAcknowledged
  <2> QED
    BY <2>1, <2>2, <2>3 DEF LegInv, ReviewHasAReason, GoesToReview
<1> QED BY <1>2, <1>3, <1>4

\* The parts of LegInv about the first leg of an order.
LEMMA DepositLegsStep ==
  ASSUME IInv, LegInv, Next
  PROVE  EndedLegsCloseDraft' /\ HoldHasDeposit' /\ BalanceFollowsDeposit'
<1>1. EndedLegsCloseDraft'
  <2> SUFFICES ASSUME NEW p \in Payments, pstat'[p] \in Ended
               PROVE  draft'[pord'[p]] # "ACTIVE"
    BY DEF EndedLegsCloseDraft
  <2>1. pstat[p] # "NONE" /\ StatusMoves(p)
    BY StatusStep
       DEF StatusMoves, Ended, Live, EndsWithOrder, EndsAlone, GoesToReview
  <2>2. /\ pord[p] \in Orders /\ order[pord[p]] # "UNPLACED"
        /\ pord'[p] = pord[p]
    BY <2>1, UsedLegStays
  <2>3. CASE pstat[p] \in Ended
    BY <2>2, <2>3, ClosedDraftStays DEF LegInv, EndedLegsCloseDraft
  <2>4. CASE EndsWithOrder(p)
    BY <2>2, <2>4 DEF EndsWithOrder
  <2>5. CASE EndsAlone(p)
    <3>1. CASE pkind[p] = "BALANCE"
      <4>1. Succeeded(pord[p], {"DEPOSIT"})
        BY <2>2, <3>1 DEF LegInv, BalanceFollowsDeposit
      <4>2. draft[pord[p]] # "ACTIVE"
        BY <4>1 DEF Succeeded, LegsOf, IInv, PaidClosesDraft
      <4> QED BY <2>2, <4>2, ClosedDraftStays
    <3> QED BY <2>2, <2>5, <3>1 DEF EndsAlone
  <2> QED
    BY <2>1, <2>3, <2>4, <2>5 DEF StatusMoves, Ended, GoesToReview
<1>2. HoldHasDeposit'
  BY SucceededStays, HoldStartsBeforeBalances DEF LegInv, HoldHasDeposit
<1>3. BalanceFollowsDeposit'
  <2>1. ASSUME NEW p \in Payments, NEW o \in Orders, pord'[p] = o,
               pkind'[p] = "BALANCE"
        PROVE  Succeeded(o, {"DEPOSIT"})'
    <3>1. Succeeded(o, {"DEPOSIT"})
      BY <2>1, LegsMove
         DEF LegMoves, IInv, LegInv, BalanceFollowsDeposit, HoldHasDeposit
    <3> QED BY <3>1, SucceededStays
  <2>2. ASSUME NEW p \in Payments
        PROVE  (pord[p] \in Orders /\ pkind[p] = "BALANCE"
                  => Succeeded(pord[p], {"DEPOSIT"}))'
    BY <2>1 DEF Succeeded, LegsOf
  <2> QED BY <2>2 DEF BalanceFollowsDeposit
<1> QED BY <1>1, <1>2, <1>3

\* A new leg is asked for when no other leg of the order can still be paid.
LEMMA NewLegIsAlone ==
  ASSUME IInv, LegInv, NEW o \in Orders, NEW p \in Payments, InitiatePayment(o, p),
         NEW q \in Payments, q # p, pord[q] = o
  PROVE  \/ LegKind(o) = "BALANCE" /\ pkind[q] # "BALANCE"
         \/ LegKind(o) = "BALANCE" /\ Spent(q)
<1>1. pstat[q] # "NONE" /\ pstat[q] \notin Live
  BY SaleAssumption DEF InitiatePayment, LegsOf, LegInv, UnusedHasNoOrder
<1>2. pstat[q] = "SUCCESS" \/ pstat[q] \in Ended
  BY <1>1 DEF IInv, TypeOK, PaymentStatus, Live, Ended
<1>3. draft[o] # "ACTIVE"
  BY <1>2 DEF LegInv, EndedLegsCloseDraft, IInv, PaidClosesDraft
<1>4. order[o] = "DEPOSIT_PAID" /\ LegKind(o) = "BALANCE"
  BY <1>3 DEF InitiatePayment, LegKind
<1>5. pkind[q] = "BALANCE" => pstat[q] # "SUCCESS"
  BY DEF InitiatePayment, Succeeded, LegsOf
<1> QED
  BY <1>2, <1>4, <1>5 DEF LegInv, EndedBalanceIsSpent

\* The parts of LegInv about balances.
LEMMA BalanceLegsStep ==
  ASSUME IInv, LegInv, Next
  PROVE  OneFirstLeg' /\ EndedBalanceIsSpent' /\ OneOpenBalance'
<1>1. ASSUME NEW o \in Orders, NEW r \in Payments, InitiatePayment(o, r)
      PROVE  OneFirstLeg' /\ OneOpenBalance'
  <2>1. \A q \in Payments :
          /\ q # r => pord'[q] = pord[q] /\ pkind'[q] = pkind[q]
          /\ q = r => pord'[q] = o /\ pkind'[q] = LegKind(o)
    BY <1>1 DEF InitiatePayment, IInv, TypeOK
  <2>2. OneFirstLeg'
    BY <1>1, <2>1, NewLegIsAlone DEF LegInv, OneFirstLeg
  <2>3. OneOpenBalance'
    BY <1>1, <2>1, NewLegIsAlone, SpentStays DEF LegInv, OneOpenBalance
  <2> QED BY <2>2, <2>3
<1>2. ASSUME UNCHANGED legVars
      PROVE  OneFirstLeg' /\ OneOpenBalance'
  <2>1. OneFirstLeg'
    BY <1>2 DEF legVars, LegInv, OneFirstLeg
  <2>2. OneOpenBalance'
    BY <1>2, SpentStays DEF legVars, LegInv, OneOpenBalance
  <2> QED BY <2>1, <2>2
<1>3. EndedBalanceIsSpent'
  <2> SUFFICES ASSUME NEW p \in Payments, pord'[p] \in Orders,
                      pkind'[p] = "BALANCE", pstat'[p] \in Ended,
                      order'[pord'[p]] = "DEPOSIT_PAID"
               PROVE  Spent(p)'
    BY DEF EndedBalanceIsSpent
  <2>1. StatusMoves(p) /\ pstat[p] # "NONE"
    BY StatusStep
       DEF StatusMoves, Ended, Live, EndsWithOrder, EndsAlone, GoesToReview
  <2>2. pord'[p] = pord[p] /\ pkind'[p] = pkind[p]
    BY <2>1, UsedLegStays
  <2>3. Succeeded(pord[p], {"DEPOSIT"})
    BY <2>2 DEF LegInv, BalanceFollowsDeposit
  <2>4. order[pord[p]] = "DEPOSIT_PAID"
    BY <2>2, <2>3, HoldStartsBeforeBalances
  <2>5. CASE pstat[p] \in Ended
    BY <2>2, <2>4, <2>5, SpentStays DEF LegInv, EndedBalanceIsSpent
  <2> QED
    BY <2>1, <2>2, <2>5 DEF StatusMoves, Ended, Live, EndsWithOrder, EndsAlone,
       GoesToReview
<1> QED BY <1>1, <1>2, <1>3, OnlyInitiateNamesLegs

\* Nothing is used at the start.
LEMMA LegInvInit == Init => LegInv
BY SaleAssumption DEF Init, LegInv, AskedIsStored, UnusedHasNoOrder, AcknowledgedIsOver,
     ReviewHasAReason, EndedLegsCloseDraft, HoldHasDeposit,
     BalanceFollowsDeposit, OneFirstLeg, EndedBalanceIsSpent, OneOpenBalance,
     Ended

\* Every step keeps LegInv.
LEMMA LegInvStep == IInv /\ LegInv /\ [Next]_vars => LegInv'
<1> SUFFICES ASSUME IInv, LegInv, [Next]_vars PROVE LegInv'
  OBVIOUS
<1>1. CASE Next
  BY <1>1, ReviewStep, DepositLegsStep, BalanceLegsStep, AskingStep
     DEF LegInv, IInv
<1>2. CASE UNCHANGED vars
  BY <1>2 DEF LegInv, AskedIsStored, jobVars, UnusedHasNoOrder,
     AcknowledgedIsOver, ReviewHasAReason,
     EndedLegsCloseDraft, HoldHasDeposit, BalanceFollowsDeposit, OneFirstLeg,
     EndedBalanceIsSpent, OneOpenBalance, NeverAcknowledged, Spent,
     PromptFailed, Answered, Succeeded, LegsOf,
     vars, orderVars, legVars, outsideVars
<1> QED BY <1>1, <1>2

\* LegInv holds of every reachable state.
LEMMA LegsHold == Spec => [](IInv /\ LegInv)
BY IInvInit, IInvStep, LegInvInit, LegInvStep, PTL DEF Spec

\* No leg is collected twice, for any number of prompts, late callbacks and
\* reviews: the invariant leaves one payment per leg that can still succeed.
THEOREM NoLegIsPaidTwice == Spec => []OneSuccessPerLeg
<1>1. IInv /\ LegInv => OneSuccessPerLeg
  <2> SUFFICES ASSUME IInv, LegInv, NEW p \in Payments, NEW q \in Payments,
                      p # q, pstat[p] = "SUCCESS", pstat[q] = "SUCCESS",
                      pord[p] = pord[q]
               PROVE  {pkind[p], pkind[q]} = {"DEPOSIT", "BALANCE"}
    BY DEF OneSuccessPerLeg
  <2>1. pord[p] \in Orders
    BY DEF IInv, LegsHaveOrders
  <2>2. "BALANCE" \in {pkind[p], pkind[q]}
    BY <2>1 DEF LegInv, OneFirstLeg
  <2>3. ~(pkind[p] = "BALANCE" /\ pkind[q] = "BALANCE")
    BY <2>1 DEF LegInv, OneOpenBalance, Spent, Ended
  <2>4. PICK d \in Payments : pord[d] = pord[p] /\ pkind[d] = "DEPOSIT"
    BY <2>1, <2>2 DEF LegInv, BalanceFollowsDeposit, Succeeded, LegsOf
  <2>5. pkind[p] # "BALANCE" => p = d
    BY <2>1, <2>4 DEF LegInv, OneFirstLeg
  <2>6. pkind[q] # "BALANCE" => q = d
    BY <2>1, <2>4 DEF LegInv, OneFirstLeg
  <2> QED BY <2>2, <2>3, <2>4, <2>5, <2>6
<1> QED BY <1>1, LegsHold, PTL

-----------------------------------------------------------------------------
(* What collected money stands for.                                        *)

\* A confirmation finds the other leg confirmed when it starts the picking.
LEMMA PickingStep ==
  ASSUME IInv, LegInv, PickingOnlyWhenPaidInFull, Next
  PROVE  PickingOnlyWhenPaidInFull'
<1>1. ASSUME NEW o \in Orders, PaidInFull(o)
      PROVE  PaidInFull(o)'
  BY <1>1, SucceededStays DEF PaidInFull
<1>2. ASSUME NEW p \in Payments, Confirms(p), NEW o \in tasks' \ tasks
      PROVE  PaidInFull(o)'
  <2>1. o = pord[p] /\ o \in Orders /\ pkind[p] # "DEPOSIT"
    BY <1>2 DEF Confirms, Settle, Sell, Hold
  <2>2. pord'[p] = o /\ pkind'[p] = pkind[p] /\ pstat'[p] = "SUCCESS"
    BY <1>2, <2>1 DEF Confirms, Settle, Sell, legVars, IInv, TypeOK
  <2>3. pkind[p] \in {"FULL", "BALANCE"}
    BY <2>1 DEF IInv, TypeOK
  <2>4. /\ pkind[p] = "FULL" => Succeeded(o, {"FULL"})'
        /\ pkind[p] = "BALANCE" => Succeeded(o, {"BALANCE"})'
    BY <2>2 DEF Succeeded, LegsOf
  <2>5. pkind[p] = "BALANCE" => Succeeded(o, {"DEPOSIT"})'
    BY <2>1, SucceededStays DEF LegInv, BalanceFollowsDeposit
  <2>6. CASE pkind[p] = "FULL"
    BY <2>4, <2>6 DEF PaidInFull
  <2>7. CASE pkind[p] = "BALANCE"
    BY <2>4, <2>5, <2>7 DEF PaidInFull
  <2> QED BY <2>3, <2>6, <2>7
<1>3. ConfirmsNothing => tasks' = tasks
  BY DEF ConfirmsNothing
<1>4. tasks \subseteq Orders
  BY DEF IInv, TypeOK
<1> QED
  BY <1>1, <1>2, <1>3, <1>4, StepMoves DEF PickingOnlyWhenPaidInFull, IInv

\* An order with a collected deposit moves on only to where the deposit is accounted for.
LEMMA DepositStep ==
  ASSUME IInv, LegInv, DepositIsAccountedFor, Next
  PROVE  DepositIsAccountedFor'
<1> DEFINE Safe(o) == \/ order[o] \in {"DEPOSIT_PAID", "CANCELLED", "REFUNDED"}
                      \/ o \in tasks \cup lapseRefunds
<1>1. ASSUME NEW p \in Payments, Confirms(p), NEW o \in Orders,
             Succeeded(o, {"DEPOSIT"})'
      PROVE  Safe(o)'
  <2>1. CASE o = pord[p]
    BY <1>1, <2>1 DEF Confirms, Settle, Sell, Hold, IInv, TypeOK
  <2>2. CASE o # pord[p]
    <3>1. Succeeded(o, {"DEPOSIT"})
      BY <1>1, <2>2
         DEF Confirms, Settle, Sell, Hold, legVars, Succeeded, LegsOf, IInv, TypeOK
    <3>2. Safe(o)
      BY <3>1 DEF DepositIsAccountedFor
    <3> QED BY <1>1, <2>2, <3>2 DEF Confirms, Settle, Sell, Hold, IInv, TypeOK
  <2> QED BY <2>1, <2>2
<1>2. ASSUME ConfirmsNothing, NEW o \in Orders, OrderMoves(o),
             Succeeded(o, {"DEPOSIT"})'
      PROVE  Safe(o)'
  <2>1. PICK d \in Payments : pord'[d] = o /\ pkind'[d] = "DEPOSIT" /\ pstat'[d] = "SUCCESS"
    BY <1>2 DEF Succeeded, LegsOf
  <2>2. pstat[d] = "SUCCESS"
    BY <1>2, <2>1 DEF ConfirmsNothing
  <2>3. pord[d] = o /\ pkind[d] = "DEPOSIT"
    BY <2>1, <2>2, UsedLegStays
  <2>4. Succeeded(o, {"DEPOSIT"}) /\ EverPaid(o)
    BY <2>2, <2>3 DEF EverPaid, Succeeded, LegsOf
  <2>5. Safe(o)
    BY <2>4 DEF DepositIsAccountedFor
  <2>6. order[o] # "UNPLACED"
    BY <2>2, <2>3 DEF IInv, UnplacedHasNoLegs
  <2> QED
    BY <1>2, <2>4, <2>5, <2>6
       DEF OrderMoves, ConfirmsNothing, HoldLapsed, NotClosed, Unpaid
<1>3. \A o \in Orders : Succeeded(o, {"DEPOSIT"})' => Safe(o)'
  BY <1>1, <1>2, StepMoves DEF IInv
<1> QED BY <1>3 DEF DepositIsAccountedFor

\* A stored callback: where it comes from, and what it may become.
CallbackMoves(p) ==
  \/ cb'[p] = cb[p]
  \/ cb[p] \in {"HELD", "ORPHAN"} /\ cb'[p] = "RESOLVED"
  \/ /\ Answered(p)
     /\ \/ cb'[p] \in {"HELD", "ORPHAN"} \/ prompt[p] # "0"
        \/ pstat[p] = "SUCCESS" \/ pstat'[p] = "SUCCESS"

\* How every step treats the callback of a payment.
LEMMA CallbackStep ==
  ASSUME TypeOK, Next
  PROVE  \A p \in Payments : CallbackMoves(p)
<1> USE DEF CallbackMoves, TypeOK
<1>1. CASE UNCHANGED cb
  BY <1>1
<1>2. ASSUME NEW p \in Payments,
             \/ OrphanCallback(p) \/ LateCallbackIgnored(p) \/ FailureCallback(p)
             \/ CloseCallback(p) \/ ReviewSettle(p) \/ ReviewReject(p)
             \/ \E matches \in BOOLEAN :
                  SuccessCallback(p, matches) \/ DoubtfulCallback(p, matches)
      PROVE  \A q \in Payments : CallbackMoves(q)
  <2>1. CASE \/ OrphanCallback(p) \/ LateCallbackIgnored(p) \/ FailureCallback(p)
    BY <2>1 DEF OrphanCallback, LateCallbackIgnored, FailureCallback,
       NothingToApply
  <2>2. CASE CloseCallback(p) \/ ReviewSettle(p) \/ ReviewReject(p)
    BY <2>2 DEF CloseCallback, ReviewSettle, ReviewReject, ResolveCallback
  <2>3. ASSUME NEW matches \in BOOLEAN,
               SuccessCallback(p, matches) \/ DoubtfulCallback(p, matches)
        PROVE  \A q \in Payments : CallbackMoves(q)
    BY <2>3 DEF SuccessCallback, DoubtfulCallback, Answered, Settle, Sell, Hold
  <2> QED BY <1>2, <2>1, <2>2, <2>3
<1>3. ASSUME NEW o \in Orders, OrderStep(o)
      PROVE  UNCHANGED cb
  BY <1>3 DEF OrderStep, StartCheckout, ReleaseByShopper, ReservationRunsOut,
     SweepReservation, BalanceFallsDue, LapseHold, CancelOrder, WriteOff,
     RefundInFull
<1> QED
  BY <1>1, <1>2, <1>3
     DEF Next, PaymentStep, InitiatePayment, PromptArrives, PromptEnds,
         RequestAcknowledged, RequestRefused, RequestOutcomeUnknown,
         ServerStops, ListForQuery, QueryComesToNothing, QueryWithoutAnswer,
         QueryFindsMoney, QueryFindsFailure

\* A reported success leaves the callback only for a confirmation or the review.
LEMMA ReportedStep ==
  ASSUME IInv, LegInv, StoredIsAnswered, ReportedMoneyIsKept, Next
  PROVE  StoredIsAnswered' /\ ReportedMoneyIsKept'
<1>1. ASSUME NEW p \in Payments, cb'[p] # "NONE"
      PROVE  /\ Answered(p)'
             /\ prompt'[p] = "0" => \/ pstat'[p] = "SUCCESS"
                                    \/ cb'[p] \in {"HELD", "ORPHAN", "RESOLVED"}
  <2>1. CallbackMoves(p) /\ OutsideMoves(p)
    BY CallbackStep, OutsideStep DEF IInv, LegInv
  <2>2. Answered(p)
    BY <1>1, <2>1 DEF CallbackMoves, StoredIsAnswered
  <2>3. prompt'[p] = prompt[p] /\ Answered(p)'
    BY <2>1, <2>2 DEF OutsideMoves, Answered
  <2> QED
    BY <1>1, <2>1, <2>3, SuccessStays DEF CallbackMoves, ReportedMoneyIsKept
<1> QED BY <1>1 DEF StoredIsAnswered, ReportedMoneyIsKept

MoneyInv ==
  /\ IInv /\ LegInv
  /\ PickingOnlyWhenPaidInFull
  /\ DepositIsAccountedFor
  /\ StoredIsAnswered
  /\ ReportedMoneyIsKept

\* MoneyInv holds of every reachable state.
LEMMA MoneyHolds == Spec => []MoneyInv
<1>1. Init => MoneyInv
  BY IInvInit, LegInvInit
     DEF Init, MoneyInv, PickingOnlyWhenPaidInFull, DepositIsAccountedFor,
         StoredIsAnswered, ReportedMoneyIsKept, Succeeded, LegsOf
<1>2. MoneyInv /\ [Next]_vars => MoneyInv'
  <2> SUFFICES ASSUME MoneyInv, [Next]_vars PROVE MoneyInv'
    OBVIOUS
  <2>1. CASE Next
    BY <2>1, IInvStep, LegInvStep, PickingStep, DepositStep, ReportedStep
       DEF MoneyInv
  <2>2. CASE UNCHANGED vars
    <3>1. IInv' /\ LegInv'
      BY <2>2, IInvStep, LegInvStep DEF MoneyInv
    <3>2. /\ PickingOnlyWhenPaidInFull' /\ DepositIsAccountedFor'
          /\ StoredIsAnswered' /\ ReportedMoneyIsKept'
      BY <2>2 DEF MoneyInv, PickingOnlyWhenPaidInFull, DepositIsAccountedFor,
         StoredIsAnswered, ReportedMoneyIsKept, PaidInFull, Succeeded, LegsOf,
         Answered, vars, orderVars, legVars, outsideVars, followUps
    <3> QED BY <3>1, <3>2 DEF MoneyInv
  <2> QED BY <2>1, <2>2
<1> QED BY <1>1, <1>2, PTL DEF Spec

\* Half the money never starts the picking, whichever of the callback, the
\* status query and the review confirms it.
THEOREM PickingIsPaidFor == Spec => []PickingOnlyWhenPaidInFull
BY MoneyHolds, PTL DEF MoneyInv

\* A collected deposit is behind a hold, a finished sale, a refund raised at the
\* lapse, or an order that staff closed.
THEOREM DepositsAreAccountedFor == Spec => []DepositIsAccountedFor
BY MoneyHolds, PTL DEF MoneyInv

\* Money a callback reported is confirmed or in front of somebody, however the
\* callback, the query and the review came in each other's way.
THEOREM ReportedMoneyIsNotDropped == Spec => []ReportedMoneyIsKept
BY MoneyHolds, PTL DEF MoneyInv

-----------------------------------------------------------------------------
(* What a step does to the stock and the drafts.                           *)

\* Nothing moves but, perhaps, the status of an order.
StockRests ==
  /\ UNCHANGED <<inv, draft, items>>
  /\ \A o \in Orders :
       order'[o] = order[o] \/ order'[o] = "REFUNDED" \/ order[o] \in Unpaid

Releases(o) ==
  /\ Releasable(o)
  /\ UNCHANGED items
  /\ \E ds \in DraftStatus \ {"ACTIVE"}, os \in OrderStatus :
       ReleaseReservation(o, ds, os)

Closes(o, outcome) ==
  /\ inv' = StockAfterClosing(o, outcome)
  /\ CloseDraft(o)
  /\ order' = [order EXCEPT ![o] = "CANCELLED"]
  /\ UNCHANGED items

StockMoves ==
  \/ StockRests
  \/ \E o \in Orders : Releases(o) \/ LapseHold(o)
  \/ \E o \in Orders, outcome \in {"AVAILABLE", "LOST"} : Closes(o, outcome)
  \/ \E p \in Payments : Confirms(p)
  \/ \E o \in Orders, ph \in Phones, cart \in SUBSET Garments,
        payPlan \in {"FULL", "DEPOSIT_50"} : StartCheckout(o, ph, cart, payPlan)

\* Giving back the garments of an unpaid order releases them, or touches no stock.
LEMMA ReleaseUnpaidStock ==
  ASSUME NEW o \in Orders, NEW ds \in DraftStatus \ {"ACTIVE"},
         NEW os \in OrderStatus, ReleaseUnpaid(o, ds, os), UNCHANGED items
  PROVE  StockMoves
<1>1. CASE Releasable(o)
  BY <1>1 DEF ReleaseUnpaid, Releases, StockMoves
<1>2. CASE ~Releasable(o)
  BY <1>2 DEF ReleaseUnpaid, orderVars, StockRests, StockMoves
<1> QED BY <1>1, <1>2

\* So does the failure of a payment.
LEMMA FailPaymentStock ==
  ASSUME IInv, NEW p \in Payments, pord[p] \in Orders, FailPayment(p),
         UNCHANGED items
  PROVE  StockMoves
<1> DEFINE status == FailureStatus(prompt[p])
<1>1. /\ DraftAfter(status) \in DraftStatus \ {"ACTIVE"}
      /\ OrderAfter(status) \in OrderStatus
  BY FailureTypes
<1>2. CASE ReleaseUnpaid(pord[p], DraftAfter(status), OrderAfter(status))
  <2> HIDE DEF status
  <2> QED BY <1>1, <1>2, ReleaseUnpaidStock
<1>3. CASE UNCHANGED orderVars
  BY <1>3 DEF orderVars, StockRests, StockMoves
<1> QED BY <1>2, <1>3 DEF FailPayment

\* The steps about an order, by what they do to stock.
LEMMA OrderStepStock ==
  ASSUME IInv, NEW o \in Orders, OrderStep(o)
  PROVE  StockMoves
<1> USE DEF placedVars, orderVars
<1>1. CASE ReleaseByShopper(o)
  <2>1. "ABANDONED" \in DraftStatus \ {"ACTIVE"} /\ "CANCELLED" \in OrderStatus
    BY DEF DraftStatus, OrderStatus
  <2> QED BY <1>1, <2>1 DEF ReleaseByShopper, Releases, StockMoves
<1>2. CASE SweepReservation(o)
  <2>1. "EXPIRED" \in DraftStatus \ {"ACTIVE"} /\ "EXPIRED" \in OrderStatus
    BY DEF DraftStatus, OrderStatus
  <2> QED BY <1>2, <2>1 DEF SweepReservation, Releases, StockMoves
<1>3. CASE ReservationRunsOut(o) \/ BalanceFallsDue(o) \/ RefundInFull(o)
  BY <1>3 DEF ReservationRunsOut, BalanceFallsDue, RefundInFull, StockRests,
     StockMoves, IInv, TypeOK
<1>4. CASE CancelOrder(o)
  BY <1>4 DEF CancelOrder, Closes, StockMoves
<1>5. ASSUME NEW outcome \in {"AVAILABLE", "LOST"}, WriteOff(o, outcome)
      PROVE  StockMoves
  BY <1>5 DEF WriteOff, Closes, StockMoves
<1> QED BY <1>1, <1>2, <1>3, <1>4, <1>5 DEF OrderStep, StockMoves

\* The steps about a payment, by what they do to stock.
LEMMA PaymentStepStock ==
  ASSUME IInv, NEW p \in Payments, PaymentStep(p)
  PROVE  StockMoves
<1> USE DEF placedVars, orderVars
<1>1. CASE Confirms(p)
  BY <1>1 DEF StockMoves
<1>2. CASE UNCHANGED <<orderVars, items>>
  BY <1>2 DEF StockRests, StockMoves
<1>3. ASSUME NEW o \in Orders, InitiatePayment(o, p)
      PROVE  StockMoves
  BY <1>3 DEF InitiatePayment, StockRests, StockMoves, IInv, TypeOK
<1>4. "ABANDONED" \in DraftStatus \ {"ACTIVE"} /\ "CANCELLED" \in OrderStatus
  BY DEF DraftStatus, OrderStatus
<1>5. CASE RequestRefused(p)
  <2>1. pord[p] \in Orders /\ UNCHANGED items
    BY <1>5 DEF RequestRefused, IInv, LegsHaveOrders
  <2> QED
    BY <1>2, <1>4, <1>5, <2>1, ReleaseUnpaidStock DEF RequestRefused
<1>6. CASE ReviewReject(p)
  <2>1. pord[p] \in Orders /\ UNCHANGED items
    BY <1>6 DEF ReviewReject, IInv, LegsHaveOrders
  <2> QED BY <1>4, <1>6, <2>1, ReleaseUnpaidStock DEF ReviewReject
<1>7. CASE FailureCallback(p) \/ QueryFindsFailure(p)
  <2>1. pord[p] \in Orders /\ UNCHANGED items /\ FailPayment(p)
    BY <1>7 DEF FailureCallback, QueryFindsFailure, Listed, IInv,
       LegsHaveOrders
  <2> QED BY <2>1, FailPaymentStock
<1>8. ASSUME ConfirmsNothing, Settle(p), pstat[p] \in Live
      PROVE  FALSE
  BY <1>8 DEF ConfirmsNothing, Settle, Sell, Hold, Live, IInv, TypeOK
<1>9. \/ Confirms(p)
      \/ ConfirmsNothing /\ \A e \in Orders : OrderMoves(e)
  BY PaymentStepMoves DEF IInv
<1>10. ASSUME NEW matches \in BOOLEAN, SuccessCallback(p, matches)
       PROVE  StockMoves
  BY <1>1, <1>8, <1>9, <1>10
     DEF SuccessCallback, AppliesCleanly, WindowOpen, Live
<1>11. CASE QueryFindsMoney(p) \/ ReviewSettle(p)
  BY <1>1, <1>2, <1>8, <1>9, <1>11
     DEF QueryFindsMoney, ReviewSettle, Listed, Live
<1> QED
  BY <1>2, <1>3, <1>5, <1>6, <1>7, <1>10, <1>11
     DEF PaymentStep, PromptArrives, PromptEnds, RequestAcknowledged,
         RequestOutcomeUnknown, ServerStops, OrphanCallback,
         LateCallbackIgnored, DoubtfulCallback, ListForQuery,
         QueryComesToNothing, QueryWithoutAnswer, CloseCallback

\* Every step moves stock in one of these ways.
LEMMA StockStep ==
  ASSUME IInv, Next
  PROVE  StockMoves
BY OrderStepStock, PaymentStepStock DEF Next

-----------------------------------------------------------------------------
(* A garment off sale has an order behind it.                              *)

Reserves(o, g) == g \in items[o] /\ draft[o] = "ACTIVE"
Holds(o, g) == g \in items[o] /\ order[o] \in {"DEPOSIT_PAID", "REFUNDED"}
Bought(o, g) ==
  g \in items[o] /\ PaidInFull(o) /\ order[o] \in {"PAID", "REFUNDED"}

Explained(g) ==
  /\ inv[g] = "RESERVED" => \E o \in Orders : Reserves(o, g)
  /\ inv[g] = "DEPOSIT_HELD" => \E o \in Orders : Holds(o, g)
  /\ inv[g] = "PAID" => \E o \in Orders : Bought(o, g)

\* The property, one garment at a time.
LEMMA OffSaleIsExplained ==
  OffSaleIsAccountedFor <=> \A g \in Garments : Explained(g)
BY DEF OffSaleIsAccountedFor, Explained, Reserves, Holds, Bought

\* An order paid in full stays so.
LEMMA PaidInFullStays ==
  ASSUME IInv, Next, NEW o \in Orders, PaidInFull(o)
  PROVE  PaidInFull(o)'
BY SucceededStays DEF PaidInFull

\* An order that the step does not touch explains what it explained.
LEMMA OthersExplain ==
  ASSUME IInv, Next, NEW o \in Orders, NEW g,
         items'[o] = items[o], order'[o] = order[o], draft'[o] = draft[o]
  PROVE  /\ Reserves(o, g) => Reserves(o, g)'
         /\ Holds(o, g) => Holds(o, g)'
         /\ Bought(o, g) => Bought(o, g)'
<1>1. Reserves(o, g) => Reserves(o, g)'
  BY DEF Reserves
<1>2. Holds(o, g) => Holds(o, g)'
  BY DEF Holds
<1>3. Bought(o, g) => Bought(o, g)'
  BY PaidInFullStays DEF Bought
<1> QED BY <1>1, <1>2, <1>3

\* A step that rests leaves every explanation standing.
LEMMA RestExplains ==
  ASSUME IInv, Next, NEW g \in Garments, Explained(g), StockRests
  PROVE  Explained(g)'
<1>1. \A o \in Orders : Reserves(o, g) => Reserves(o, g)'
  BY DEF StockRests, Reserves
<1>2. \A o \in Orders : Holds(o, g) => Holds(o, g)'
  BY DEF StockRests, Holds, Unpaid
<1>3. \A o \in Orders : Bought(o, g) => Bought(o, g)'
  BY PaidInFullStays DEF StockRests, Bought, Unpaid
<1> QED BY <1>1, <1>2, <1>3 DEF StockRests, Explained

\* A release puts what it ends on sale again.
LEMMA ReleaseExplains ==
  ASSUME IInv, Next, NEW g \in Garments, Explained(g), NEW o \in Orders, Releases(o)
  PROVE  Explained(g)'
<1>1. /\ inv' = StockWithout({o})
      /\ \A e \in Orders \ {o} : /\ items'[e] = items[e] /\ order'[e] = order[e]
                                 /\ draft'[e] = draft[e]
  BY DEF Releases, ReleaseReservation, IInv, TypeOK
<1>2. ~Holds(o, g) /\ ~Bought(o, g)
  BY DEF Releases, Releasable, Holds, Bought, Unpaid
<1>3. inv'[g] = inv[g] \/ inv'[g] = "AVAILABLE"
  BY <1>1 DEF StockWithout
<1>4. ASSUME inv'[g] = "RESERVED", Reserves(o, g)
      PROVE  \E e \in Orders \ {o} : Reserves(e, g)
  BY <1>1, <1>3, <1>4 DEF StockWithout, Reserves
<1>5. inv'[g] = "RESERVED" => \E e \in Orders \ {o} : Reserves(e, g)
  BY <1>3, <1>4 DEF Explained
<1>6. inv'[g] = "DEPOSIT_HELD" => \E e \in Orders \ {o} : Holds(e, g)
  BY <1>2, <1>3 DEF Explained
<1>7. inv'[g] = "PAID" => \E e \in Orders \ {o} : Bought(e, g)
  BY <1>2, <1>3 DEF Explained
<1> QED BY <1>1, <1>5, <1>6, <1>7, OthersExplain DEF Explained

\* So does a lapse.
LEMMA LapseExplains ==
  ASSUME IInv, Next, NEW g \in Garments, Explained(g), NEW o \in Orders, LapseHold(o)
  PROVE  Explained(g)'
<1>1. /\ order[o] = "DEPOSIT_PAID" /\ draft' = draft /\ items' = items
      /\ \A e \in Orders \ {o} : order'[e] = order[e]
  BY DEF LapseHold, HoldLapsed, placedVars, IInv, TypeOK
<1>2. inv'[g] = inv[g] \/ inv'[g] = "AVAILABLE"
  BY DEF LapseHold
<1>3. inv'[g] = "RESERVED" => \E e \in Orders : Reserves(e, g)'
  BY <1>1, <1>2 DEF Explained, Reserves
<1>4. ASSUME inv'[g] = "DEPOSIT_HELD", Holds(o, g)
      PROVE  FALSE
  <2>1. inv[g] = "DEPOSIT_HELD" /\ ~Owned(o, g)
    BY <1>2, <1>4 DEF LapseHold, Holds
  <2> QED BY <2>1 DEF Owned, IInv, ReservationExclusive
<1>5. inv'[g] = "DEPOSIT_HELD" => \E e \in Orders \ {o} : Holds(e, g)
  BY <1>2, <1>4 DEF Explained
<1>6. ~Bought(o, g)
  BY <1>1 DEF Bought
<1>7. inv'[g] = "PAID" => \E e \in Orders \ {o} : Bought(e, g)
  BY <1>2, <1>6 DEF Explained
<1> QED BY <1>1, <1>3, <1>5, <1>7, OthersExplain DEF Explained

\* A closure puts its garments back on sale or writes them off.
LEMMA ClosingExplains ==
  ASSUME IInv, Next, NEW g \in Garments, Explained(g), NEW o \in Orders,
         NEW outcome \in {"AVAILABLE", "LOST"}, Closes(o, outcome)
  PROVE  Explained(g)'
<1>1. \A e \in Orders \ {o} : /\ items'[e] = items[e] /\ order'[e] = order[e]
                              /\ draft'[e] = draft[e]
  BY DEF Closes, CloseDraft, IInv, TypeOK
<1>2. SUFFICES ASSUME inv'[g] \in Closeable PROVE Explained(g)'
  BY DEF Explained, Closeable
<1>3. inv'[g] = inv[g]
  BY <1>2 DEF Closes, StockAfterClosing, Closeable
<1>4. CASE g \in items[o] /\ Owned(o, g)
  BY <1>2, <1>3, <1>4 DEF Closes, StockAfterClosing, Closeable
<1>5. CASE g \in items[o] /\ ~Owned(o, g)
  <2>1. PICK e \in Orders \ {o} : Reserves(e, g)
    BY <1>5 DEF Owned, Reserves
  <2>2. inv[g] = "RESERVED"
    BY <2>1 DEF Reserves, IInv, ReservationExclusive
  <2> QED BY <1>1, <1>3, <2>1, <2>2, OthersExplain DEF Explained
<1>6. CASE g \notin items[o]
  <2>1. ~Reserves(o, g) /\ ~Holds(o, g) /\ ~Bought(o, g)
    BY <1>6 DEF Reserves, Holds, Bought
  <2> QED BY <1>1, <1>3, <2>1, OthersExplain DEF Explained
<1> QED BY <1>4, <1>5, <1>6

\* A settlement explains what it sells by the money.
LEMMA SettlementExplains ==
  ASSUME IInv, Next, PickingOnlyWhenPaidInFull', NEW g \in Garments, Explained(g),
         NEW p \in Payments, Confirms(p), NEW o, o = pord[p]
  PROVE  Explained(g)'
<1>1. /\ o \in Orders /\ items' = items
      /\ \A e \in Orders \ {o} : order'[e] = order[e] /\ draft'[e] = draft[e]
  BY DEF Confirms, Settle, Sell, Hold, IInv, TypeOK
<1>2. CASE g \notin items[o]
  <2>1. inv'[g] = inv[g]
    BY <1>2 DEF Confirms, Settle, Sell, Hold
  <2>2. ~Reserves(o, g) /\ ~Holds(o, g) /\ ~Bought(o, g)
    BY <1>2 DEF Reserves, Holds, Bought
  <2> QED BY <1>1, <2>1, <2>2, OthersExplain DEF Explained
<1>3. CASE g \in items[o] /\ pkind[p] = "DEPOSIT"
  <2>1. inv'[g] = "DEPOSIT_HELD" /\ order'[o] = "DEPOSIT_PAID"
    BY <1>1, <1>3 DEF Confirms, Settle, Hold, IInv, TypeOK
  <2>2. Holds(o, g)'
    BY <1>1, <1>3, <2>1 DEF Holds
  <2> QED BY <1>1, <2>1, <2>2 DEF Explained
<1>4. CASE g \in items[o] /\ pkind[p] # "DEPOSIT"
  <2>1. inv'[g] = "PAID" /\ order'[o] = "PAID" /\ o \in tasks'
    BY <1>1, <1>4 DEF Confirms, Settle, Sell, IInv, TypeOK
  <2>2. PaidInFull(o)'
    BY <2>1 DEF PickingOnlyWhenPaidInFull
  <2>3. Bought(o, g)'
    BY <1>1, <1>4, <2>1, <2>2 DEF Bought
  <2> QED BY <1>1, <2>1, <2>3 DEF Explained
<1> QED BY <1>2, <1>3, <1>4

\* A checkout explains what it reserves by its open draft.
LEMMA CheckoutExplains ==
  ASSUME IInv, Next, NEW g \in Garments, Explained(g), NEW o \in Orders,
         NEW ph \in Phones, NEW cart \in SUBSET Garments,
         NEW payPlan \in {"FULL", "DEPOSIT_50"}, StartCheckout(o, ph, cart, payPlan)
  PROVE  Explained(g)'
<1> DEFINE earlier == {e \in OpenAttempts(ph) : Releasable(e) /\ ~MayStillBePaid(e)}
<1>1. /\ earlier \in SUBSET Orders
      /\ order[o] = "UNPLACED" /\ draft[o] # "ACTIVE"
      /\ draft'[o] = "ACTIVE" /\ items'[o] = cart
  BY DEF OpenAttempts, StartCheckout, IInv, TypeOK, ReservationExclusive, Unpaid
<1>2. /\ inv'[g] = IF g \in cart THEN "RESERVED" ELSE StockWithout(earlier)[g]
      /\ \A e \in Orders \ ({o} \cup earlier) :
           items'[e] = items[e] /\ order'[e] = order[e] /\ draft'[e] = draft[e]
  BY DEF StartCheckout, IInv, TypeOK
<1>3. \A e \in earlier : order[e] \in Unpaid
  BY DEF Releasable
<1> HIDE DEF earlier
<1>4. CASE g \in cart
  BY <1>1, <1>2, <1>4 DEF Explained, Reserves
<1>5. CASE g \notin cart
  <2>1. inv'[g] = inv[g] \/ inv'[g] = "AVAILABLE"
    BY <1>2, <1>5 DEF StockWithout
  <2>2. ASSUME inv'[g] = "RESERVED"
        PROVE  \E e \in Orders \ ({o} \cup earlier) : Reserves(e, g)
    <3>1. PICK e \in Orders : Reserves(e, g)
      BY <2>1, <2>2 DEF Explained
    <3>2. e # o
      BY <1>1, <3>1 DEF Reserves
    <3>3. CASE e \notin earlier
      BY <3>1, <3>2, <3>3
    <3>4. CASE e \in earlier
      <4>1. StockWithout(earlier)[g] = "RESERVED" /\ inv[g] = "RESERVED"
        BY <1>2, <1>5, <2>1, <2>2
      <4>2. PICK other \in Orders \ earlier :
              g \in items[other] /\ draft[other] = "ACTIVE"
        BY <3>1, <3>4, <4>1 DEF StockWithout, Reserves
      <4> QED BY <1>1, <4>2 DEF Reserves
    <3> QED BY <3>3, <3>4
  <2>3. ASSUME NEW e \in Orders, Holds(e, g) \/ Bought(e, g)
        PROVE  e \in Orders \ ({o} \cup earlier)
    BY <1>1, <1>3, <2>3 DEF Holds, Bought, Unpaid
  <2> QED BY <1>2, <2>1, <2>2, <2>3, OthersExplain DEF Explained
<1> QED BY <1>4, <1>5

\* Every step keeps the explanations.
LEMMA OffSaleStep ==
  ASSUME MoneyInv, OffSaleIsAccountedFor, Next
  PROVE  OffSaleIsAccountedFor'
<1>1. IInv /\ PickingOnlyWhenPaidInFull'
  BY PickingStep DEF MoneyInv
<1>2. ASSUME NEW g \in Garments
      PROVE  Explained(g)'
  <2>1. Explained(g)
    BY OffSaleIsExplained
  <2> QED
    BY <1>1, <2>1, StockStep, RestExplains, ReleaseExplains, LapseExplains,
       ClosingExplains, SettlementExplains, CheckoutExplains DEF StockMoves
<1> QED BY <1>2 DEF OffSaleIsAccountedFor, Explained, Reserves, Holds, Bought

\* Every garment off sale is explained in every reachable state.
LEMMA StockHolds == Spec => [](MoneyInv /\ OffSaleIsAccountedFor)
<1>1. Init => OffSaleIsAccountedFor
  BY DEF Init, OffSaleIsAccountedFor
<1>2. MoneyInv /\ OffSaleIsAccountedFor /\ [Next]_vars => OffSaleIsAccountedFor'
  <2>1. CASE UNCHANGED vars
    BY <2>1 DEF OffSaleIsAccountedFor, PaidInFull, Succeeded, LegsOf, vars,
       orderVars, placedVars, legVars
  <2> QED BY <2>1, OffSaleStep
<1> QED BY <1>1, <1>2, MoneyHolds, PTL DEF Spec

\* No garment is off sale without an open checkout, a hold or a paid order that
\* lists it, whoever else listed it before.
THEOREM OffSaleHasAnOrder == Spec => []OffSaleIsAccountedFor
BY StockHolds, PTL

-----------------------------------------------------------------------------
(* Sale implements the reservation book.                                   *)

\* The refinement mapping of Book, by name.
OpenEntries ==
  {e \in Orders \X Garments : draft[e[1]] = "ACTIVE" /\ e[2] \in items[e[1]]}
OnShelf == {g \in Garments : inv[g] = "AVAILABLE"}

OpenItemsInv == IInv /\ OpenHasItems

\* No step opens an empty reservation or empties an open one.
LEMMA OpenItemsStep ==
  ASSUME OpenItemsInv, Next
  PROVE  OpenHasItems'
<1>1. CASE StockRests
  BY <1>1 DEF StockRests, OpenItemsInv, OpenHasItems
<1>2. ASSUME NEW o \in Orders, Releases(o) \/ LapseHold(o)
      PROVE  OpenHasItems'
  BY <1>2 DEF Releases, ReleaseReservation, LapseHold, placedVars,
     OpenItemsInv, OpenHasItems, IInv, TypeOK
<1>3. ASSUME NEW o \in Orders, NEW outcome \in {"AVAILABLE", "LOST"},
             Closes(o, outcome)
      PROVE  OpenHasItems'
  BY <1>3 DEF Closes, CloseDraft, OpenItemsInv, OpenHasItems, IInv, TypeOK
<1>4. ASSUME NEW p \in Payments, Confirms(p)
      PROVE  OpenHasItems'
  BY <1>4 DEF Confirms, Settle, Sell, Hold, OpenItemsInv, OpenHasItems, IInv, TypeOK
<1>5. ASSUME NEW o \in Orders, NEW ph \in Phones, NEW cart \in SUBSET Garments,
             NEW payPlan \in {"FULL", "DEPOSIT_50"},
             StartCheckout(o, ph, cart, payPlan)
      PROVE  OpenHasItems'
  BY <1>5 DEF StartCheckout, OpenItemsInv, OpenHasItems, IInv, TypeOK
<1> QED
  BY <1>1, <1>2, <1>3, <1>4, <1>5, StockStep DEF OpenItemsInv, StockMoves

\* What the book says of an order and a garment.
LEMMA EntriesOf ==
  ASSUME NEW o \in Orders, NEW g \in Garments
  PROVE  <<o, g>> \in OpenEntries <=> draft[o] = "ACTIVE" /\ g \in items[o]
BY DEF OpenEntries

\* What an open reservation has reserved is exactly its items.
LEMMA BookReads ==
  ASSUME TypeOK, NEW os \in SUBSET Orders
  PROVE  /\ Book!Entries(os) = {e \in OpenEntries : e[1] \in os}
         /\ Book!Reserved(os) =
              {g \in Garments : \E o \in os : draft[o] = "ACTIVE" /\ g \in items[o]}
         /\ Book!Holding = {e[1] : e \in OpenEntries}
<1>1. /\ Book!Entries(os) = {e \in OpenEntries : e[1] \in os}
      /\ Book!Holding = {e[1] : e \in OpenEntries}
  BY DEF Book!Entries, Book!Holding, OpenEntries
<1>2. Book!Reserved(os) = {g \in Garments : \E o \in os : <<o, g>> \in OpenEntries}
  BY DEF Book!Reserved, OpenEntries
<1> QED BY <1>1, <1>2, EntriesOf

\* A step that only closes the draft of o takes its entries out of the book.
LEMMA ClosingEmptiesEntries ==
  ASSUME TypeOK, UNCHANGED items, NEW o \in Orders, draft'[o] # "ACTIVE",
         \A e \in Orders \ {o} : draft'[e] = draft[e]
  PROVE  OpenEntries' = OpenEntries \ Book!Entries({o})
<1>1. Book!Entries({o}) = {e \in OpenEntries : e[1] = o}
  BY BookReads
<1> QED BY <1>1 DEF OpenEntries

\* A release or a settlement, as the book sees it: the draft of o closes, and
\* its garments are all back on the shelf or all off it.
LEMMA ClosingIsBooked ==
  ASSUME OpenItemsInv, UNCHANGED items, NEW o \in Orders, draft[o] = "ACTIVE",
         draft'[o] # "ACTIVE", \A e \in Orders \ {o} : draft'[e] = draft[e],
         \/ OnShelf' = OnShelf \cup {g \in Garments : g \in items[o]}
         \/ OnShelf' = OnShelf
  PROVE  Book!Next
<1>1. OpenEntries' = OpenEntries \ Book!Entries({o})
  BY ClosingEmptiesEntries DEF OpenItemsInv, IInv
<1>2. Book!Entries({o}) # {}
  <2>1. PICK g \in Garments : g \in items[o]
    BY DEF OpenItemsInv, OpenHasItems, IInv, TypeOK
  <2>2. <<o, g>> \in OpenEntries
    BY <2>1, EntriesOf
  <2>3. Book!Entries({o}) = {e \in OpenEntries : e[1] \in {o}}
    BY BookReads DEF OpenItemsInv, IInv
  <2> QED BY <2>2, <2>3
<1>3. Book!Reserved({o}) = {g \in Garments : g \in items[o]}
  BY BookReads DEF OpenItemsInv, IInv
<1>4. Book!Release(o) \/ Book!Convert(o)
  BY <1>1, <1>2, <1>3 DEF Book!Release, Book!Convert, OpenEntries, OnShelf
<1> QED BY <1>4 DEF Book!Next

\* A step that opens and closes no reservation only puts stock back, if anything.
LEMMA RestockIsBooked ==
  ASSUME OpenItemsInv, UNCHANGED items,
         \A e \in Orders : draft'[e] = "ACTIVE" <=> draft[e] = "ACTIVE",
         \A g \in Garments :
           inv'[g] # inv[g] =>
             /\ inv[g] # "AVAILABLE"
             /\ \A e \in Orders : g \in items[e] => draft[e] # "ACTIVE"
  PROVE  [Book!Next]_Book!book
<1> DEFINE back == {g \in Garments : inv'[g] = "AVAILABLE" /\ inv[g] # "AVAILABLE"}
<1>1. OpenEntries' = OpenEntries
  BY DEF OpenEntries
<1>2. OnShelf' = OnShelf \cup back
  BY DEF OnShelf
<1>3. back \cap (OnShelf \cup Book!Reserved(Orders)) = {}
  <2>1. Book!Reserved(Orders) =
          {g \in Garments : \E o \in Orders : draft[o] = "ACTIVE" /\ g \in items[o]}
    BY BookReads DEF OpenItemsInv, IInv
  <2> QED BY <2>1 DEF OnShelf
<1>4. back \in SUBSET (Garments \ OnShelf)
  BY <1>3
<1> HIDE DEF back
<1>5. PICK returned \in SUBSET (Garments \ OnShelf) : returned = back
  BY <1>4
<1>6. Book!Reshelve(returned)
  BY <1>1, <1>2, <1>3, <1>5 DEF Book!Reshelve, OpenEntries, OnShelf
<1> QED BY <1>5, <1>6 DEF Book!Next, OnShelf

\* A release ends one reservation of the book, or none.
LEMMA ReleaseIsBooked ==
  ASSUME OpenItemsInv, NEW o \in Orders, Releases(o)
  PROVE  Book!Next
<1>1. /\ draft[o] = "ACTIVE" /\ draft'[o] # "ACTIVE" /\ items' = items
      /\ \A e \in Orders \ {o} : draft'[e] = draft[e]
      /\ inv' = StockWithout({o})
  BY DEF Releases, Releasable, ReleaseReservation, OpenItemsInv, IInv, TypeOK
<1>2. \A g \in items[o] : inv[g] = "RESERVED" /\ Owned(o, g)
  BY <1>1 DEF OpenItemsInv, IInv, ReservationExclusive
<1>3. ASSUME NEW g \in Garments
      PROVE  inv'[g] = "AVAILABLE" <=> inv[g] = "AVAILABLE" \/ g \in items[o]
  BY <1>1, <1>2 DEF StockWithout, Owned
<1>4. OnShelf' = OnShelf \cup {g \in Garments : g \in items[o]}
  BY <1>3 DEF OnShelf
<1> QED BY <1>1, <1>4, ClosingIsBooked

\* So does a closure.
LEMMA ClosureIsBooked ==
  ASSUME OpenItemsInv, NEW o \in Orders, NEW outcome \in {"AVAILABLE", "LOST"},
         Closes(o, outcome)
  PROVE  [Book!Next]_Book!book
<1>1. /\ draft'[o] # "ACTIVE" /\ items' = items
      /\ \A e \in Orders \ {o} : draft'[e] = draft[e]
      /\ inv' = StockAfterClosing(o, outcome)
  BY DEF Closes, CloseDraft, OpenItemsInv, IInv, TypeOK
<1>2. CASE draft[o] = "ACTIVE"
  <2>1. \A g \in items[o] : inv[g] = "RESERVED" /\ Owned(o, g)
    BY <1>2 DEF OpenItemsInv, IInv, ReservationExclusive
  <2>2. ASSUME NEW g \in Garments
        PROVE  inv'[g] = IF g \in items[o] THEN outcome ELSE inv[g]
    BY <1>1, <2>1 DEF StockAfterClosing, Closeable
  <2>3. \/ OnShelf' = OnShelf \cup {g \in Garments : g \in items[o]}
        \/ OnShelf' = OnShelf
    <3>1. CASE outcome = "AVAILABLE"
      BY <2>2, <3>1 DEF OnShelf
    <3>2. CASE outcome = "LOST"
      BY <2>1, <2>2, <3>2 DEF OnShelf
    <3> QED BY <3>1, <3>2
  <2> QED BY <1>1, <1>2, <2>3, ClosingIsBooked
<1>3. CASE draft[o] # "ACTIVE"
  <2>1. ASSUME NEW g \in Garments, inv'[g] # inv[g]
        PROVE  /\ inv[g] # "AVAILABLE"
               /\ \A e \in Orders : g \in items[e] => draft[e] # "ACTIVE"
    BY <1>1, <1>3, <2>1 DEF StockAfterClosing, Owned, Closeable
  <2> QED BY <1>1, <1>3, <2>1, RestockIsBooked
<1> QED BY <1>2, <1>3

\* So does a lapse.
LEMMA LapseIsBooked ==
  ASSUME OpenItemsInv, NEW o \in Orders, LapseHold(o)
  PROVE  [Book!Next]_Book!book
<1>1. draft' = draft /\ items' = items /\ draft[o] # "ACTIVE"
  BY DEF LapseHold, HoldLapsed, placedVars, OpenItemsInv, IInv,
     ReservationExclusive, Unpaid
<1>2. ASSUME NEW g \in Garments, inv'[g] # inv[g]
      PROVE  /\ inv[g] # "AVAILABLE"
             /\ \A e \in Orders : g \in items[e] => draft[e] # "ACTIVE"
  BY <1>1, <1>2 DEF LapseHold, Owned
<1> QED BY <1>1, <1>2, RestockIsBooked

\* A settlement ends a reservation as sold, or leaves it open as a hold.
LEMMA SettlementIsBooked ==
  ASSUME OpenItemsInv, NEW p \in Payments, Confirms(p)
  PROVE  [Book!Next]_Book!book
<1> DEFINE o == pord[p]
<1>1. /\ o \in Orders /\ items' = items /\ draft'[o] # "ACTIVE"
      /\ \A e \in Orders \ {o} : draft'[e] = draft[e]
  BY DEF Confirms, Settle, Sell, Hold, OpenItemsInv, IInv, TypeOK
<1>2. ASSUME NEW g \in Garments
      PROVE  /\ g \notin items[o] => inv'[g] = inv[g]
             /\ g \in items[o] => /\ inv'[g] # "AVAILABLE" /\ inv[g] # "AVAILABLE"
                                  /\ Owned(o, g)
  BY <1>2 DEF Confirms, Settle, Sell, Hold
<1> HIDE DEF o
<1>3. CASE draft[o] = "ACTIVE"
  <2>1. OnShelf' = OnShelf
    BY <1>2 DEF OnShelf
  <2> QED BY <1>1, <1>3, <2>1, ClosingIsBooked
<1>4. CASE draft[o] # "ACTIVE"
  <2>1. ASSUME NEW g \in Garments, inv'[g] # inv[g]
        PROVE  /\ inv[g] # "AVAILABLE"
               /\ \A e \in Orders : g \in items[e] => draft[e] # "ACTIVE"
    BY <1>2, <1>4, <2>1 DEF Owned
  <2> QED BY <1>1, <1>4, <2>1, RestockIsBooked
<1> QED BY <1>3, <1>4

\* A checkout opens one, and gives back what its shopper held before.
LEMMA CheckoutIsBooked ==
  ASSUME OpenItemsInv, NEW o \in Orders, NEW ph \in Phones,
         NEW cart \in SUBSET Garments, NEW payPlan \in {"FULL", "DEPOSIT_50"},
         StartCheckout(o, ph, cart, payPlan)
  PROVE  Book!Next
<1> DEFINE earlier == {e \in OpenAttempts(ph) : Releasable(e) /\ ~MayStillBePaid(e)}
           freed == {g \in Garments : \E e \in earlier : g \in items[e]}
<1>1. /\ earlier \in SUBSET Orders
      /\ draft[o] # "ACTIVE" /\ o \notin earlier
      /\ \A e \in earlier : draft[e] = "ACTIVE"
  BY DEF OpenAttempts, StartCheckout, Releasable, OpenItemsInv, IInv,
     ReservationExclusive, Unpaid
<1>2. /\ cart # {} /\ \A g \in cart : StockWithout(earlier)[g] = "AVAILABLE"
      /\ inv' = [g \in Garments |-> IF g \in cart THEN "RESERVED"
                                    ELSE StockWithout(earlier)[g]]
      /\ draft' = [e \in Orders |-> IF e = o THEN "ACTIVE"
                                    ELSE IF e \in earlier THEN "ABANDONED"
                                    ELSE draft[e]]
      /\ items' = [items EXCEPT ![o] = cart]
  BY DEF StartCheckout
<1> HIDE DEF earlier
\* The garments of the attempts that give way are theirs alone.
<1>3. ASSUME NEW g \in Garments
      PROVE  StockWithout(earlier)[g] =
               IF g \in freed THEN "AVAILABLE" ELSE inv[g]
  <2>1. ASSUME NEW e \in earlier, g \in items[e]
        PROVE  /\ inv[g] = "RESERVED"
               /\ \A other \in Orders \ earlier :
                    g \in items[other] => draft[other] # "ACTIVE"
    BY <1>1, <2>1 DEF OpenItemsInv, IInv, ReservationExclusive, Owned
  <2> QED BY <2>1 DEF StockWithout
<1>4. /\ Book!Entries(earlier) = {e \in OpenEntries : e[1] \in earlier}
      /\ Book!Reserved(earlier) = freed
      /\ Book!Holding = {e[1] : e \in OpenEntries}
  BY <1>1, BookReads DEF OpenItemsInv, IInv
<1>5. earlier \in SUBSET Book!Holding
  <2> SUFFICES ASSUME NEW e \in earlier PROVE e \in Book!Holding
    OBVIOUS
  <2>1. PICK g \in Garments : g \in items[e]
    BY <1>1 DEF OpenItemsInv, OpenHasItems, IInv, TypeOK
  <2>2. <<e, g>> \in OpenEntries
    BY <1>1, <2>1, EntriesOf
  <2> QED BY <1>4, <2>2
<1>6. o \in Orders \ Book!Holding
  BY <1>1, <1>4 DEF OpenEntries
<1>7. cart \subseteq OnShelf \cup freed
  BY <1>2, <1>3 DEF OnShelf
<1>8. OnShelf' = (OnShelf \cup freed) \ cart
  BY <1>2, <1>3 DEF OnShelf
<1>9. OpenEntries' = (OpenEntries \ Book!Entries(earlier)) \cup ({o} \X cart)
  <2>1. ASSUME NEW e \in Orders, NEW g \in Garments
        PROVE  (draft'[e] = "ACTIVE" /\ g \in items'[e]) <=>
                 \/ draft[e] = "ACTIVE" /\ g \in items[e] /\ e \notin earlier
                 \/ e = o /\ g \in cart
    BY <1>1, <1>2 DEF OpenItemsInv, IInv, TypeOK
  <2> QED BY <1>4, <2>1 DEF OpenEntries
<1>10. PICK given \in SUBSET Book!Holding : given = earlier
  BY <1>5
<1>11. Book!Open(o, cart, given)
  BY <1>2, <1>4, <1>7, <1>8, <1>9, <1>10 DEF Book!Open, OpenEntries, OnShelf
<1> QED BY <1>6, <1>10, <1>11 DEF Book!Next

\* Every step of the sale is one of the book, or none.
LEMMA StepIsBooked == OpenItemsInv /\ [Next]_vars => [Book!Next]_Book!book
<1> SUFFICES ASSUME OpenItemsInv, [Next]_vars PROVE [Book!Next]_Book!book
  OBVIOUS
<1>1. CASE UNCHANGED vars
  BY <1>1 DEF vars, orderVars, placedVars, Book!book
<1>2. CASE StockRests
  BY <1>2 DEF StockRests, Book!book
<1>3. CASE Next
  BY <1>2, <1>3, StockStep, ReleaseIsBooked, LapseIsBooked, ClosureIsBooked,
     SettlementIsBooked, CheckoutIsBooked DEF StockMoves, OpenItemsInv
<1> QED BY <1>1, <1>3

\* OpenItemsInv holds of every reachable state.
LEMMA OpenItemsHold == Spec => []OpenItemsInv
<1>1. Init => OpenHasItems
  BY DEF Init, OpenHasItems
<1>2. OpenItemsInv /\ [Next]_vars => OpenHasItems'
  BY OpenItemsStep
     DEF OpenItemsInv, OpenHasItems, vars, orderVars, placedVars
<1> QED BY <1>1, <1>2, Inductive, PTL DEF Spec, OpenItemsInv

\* Sale implements ReservationBook: whatever prompts, callbacks, sweeps and staff
\* do, reservations are opened and ended whole, and nothing else moves stock that
\* is reserved.
THEOREM SaleImplementsBook == Spec => ImplementsBook
<1>1. Init => Book!Init
  BY DEF Init, Book!Init
<1> QED
  BY <1>1, StepIsBooked, OpenItemsHold, PTL DEF Spec, ImplementsBook, Book!Spec

\* What the book promises, Sale keeps: a garment is in one open reservation at
\* most, and none that is on the shelf is in one.
THEOREM SaleIsOneOfOne == Spec => []Book!OneOfOne
<1>1. OpenItemsInv => Book!OneOfOne
  <2> SUFFICES ASSUME OpenItemsInv PROVE Book!OneOfOne
    OBVIOUS
  <2>1. ASSUME NEW o \in Orders, NEW e \in Orders, NEW g \in Garments,
               draft[o] = "ACTIVE", g \in items[o], draft[e] = "ACTIVE", g \in items[e]
        PROVE  o = e /\ inv[g] # "AVAILABLE"
    BY <2>1 DEF OpenItemsInv, IInv, ReservationExclusive, Owned
  <2> QED BY <2>1 DEF Book!OneOfOne
<1> QED BY <1>1, OpenItemsHold, PTL
=============================================================================
