----------------------------- MODULE SaleProofs -----------------------------
(***************************************************************************)
(* Theorems about Sale, for every set of orders, garments and payments.    *)
(* The inductive invariant is IInv; the action properties need no more     *)
(* than the types.                                                         *)
(***************************************************************************)
EXTENDS Sale, TLAPS

\* A payment row that was ever used belongs to an order.
LegsHaveOrders ==
  \A p \in Payments : pstat[p] # "NONE" \/ call[p] # "NONE" \/ p \in ref
                        => pord[p] \in Orders

\* Nobody is asked to pay for an order that was never placed.
UnplacedHasNoLegs ==
  \A p \in Payments : pord[p] \in Orders => order[pord[p]] # "UNPLACED"

\* Confirmed money has closed the draft of its order.
PaidClosesDraft ==
  \A p \in Payments : pstat[p] = "SUCCESS" => draft[pord[p]] # "ACTIVE"

IInv == /\ TypeOK
        /\ LegsHaveOrders
        /\ UnplacedHasNoLegs
        /\ PaidClosesDraft
        /\ ReservationExclusive

-----------------------------------------------------------------------------
(* The types of what the helpers write.                                    *)

LEMMA StockWithoutType ==
  ASSUME TypeOK, NEW R \in SUBSET Orders
  PROVE  StockWithout(R) \in [Garments -> StockStatus]
BY DEF TypeOK, StockWithout, StockStatus

LEMMA ReleaseUnpaidType ==
  ASSUME TypeOK, NEW o \in Orders, NEW ds \in DraftStatus,
         NEW os \in OrderStatus, ReleaseUnpaid(o, ds, os)
  PROVE  /\ inv' \in [Garments -> StockStatus]
         /\ draft' \in [Orders -> DraftStatus]
         /\ order' \in [Orders -> OrderStatus]
<1>1. CASE Releasable(o)
  <2>1. StockWithout({o}) \in [Garments -> StockStatus]
    BY StockWithoutType
  <2> QED BY <1>1, <2>1 DEF ReleaseUnpaid, ReleaseReservation, TypeOK
<1>2. CASE ~Releasable(o)
  BY <1>2 DEF ReleaseUnpaid, orderVars, TypeOK
<1> QED BY <1>1, <1>2

LEMMA FailureTypes ==
  ASSUME NEW code
  PROVE  /\ FailureStatus(code) \in {"CANCELLED", "TIMEOUT", "FAILED"}
         /\ DraftAfter(FailureStatus(code)) \in DraftStatus \ {"ACTIVE"}
         /\ OrderAfter(FailureStatus(code)) \in OrderStatus \ {"UNPLACED"}
BY DEF FailureStatus, DraftAfter, OrderAfter, DraftStatus, OrderStatus

LEMMA MoveLegsType ==
  ASSUME TypeOK, NEW o, NEW from, NEW to \in PaymentStatus, MoveLegs(o, from, to)
  PROVE  pstat' \in [Payments -> PaymentStatus]
BY DEF TypeOK, MoveLegs

LEMMA SettleType ==
  ASSUME TypeOK, NEW p \in Payments, pord[p] \in Orders, Settle(p)
  PROVE  /\ inv' \in [Garments -> StockStatus]
         /\ order' \in [Orders -> OrderStatus]
         /\ draft' \in [Orders -> DraftStatus]
         /\ tasks' \subseteq Orders
         /\ pstat' \in [Payments -> PaymentStatus]
BY DEF TypeOK, Settle, Sell, Hold, StockStatus, OrderStatus, Unpaid,
       DraftStatus, PaymentStatus

LEMMA TypeInit == Init => TypeOK
BY SaleAssumption DEF Init, TypeOK, StockStatus, OrderStatus, DraftStatus,
     PaymentStatus, CallbackStatus

-----------------------------------------------------------------------------
(* Every step keeps the types, given that payments belong to orders.       *)

LEMMA StartCheckoutType ==
  ASSUME TypeOK, NEW o \in Orders, NEW ph \in Phones,
         NEW cart \in SUBSET Garments, NEW payPlan \in {"FULL", "DEPOSIT_50"},
         StartCheckout(o, ph, cart, payPlan)
  PROVE  TypeOK'
<1> DEFINE earlier == {e \in OpenAttempts(ph) : Releasable(e) /\ ~MayStillBePaid(e)}
<1>1. earlier \in SUBSET Orders
  BY DEF OpenAttempts
<1>2. StockWithout(earlier) \in [Garments -> StockStatus]
  BY <1>1, StockWithoutType
<1>3. inv' \in [Garments -> StockStatus]
  BY <1>2 DEF StartCheckout, StockStatus
<1>4. order' \in [Orders -> OrderStatus]
  BY DEF StartCheckout, TypeOK, OrderStatus, Unpaid
<1>5. draft' \in [Orders -> DraftStatus]
  BY DEF StartCheckout, TypeOK, DraftStatus
<1>6. /\ items' \in [Orders -> SUBSET Garments]
      /\ buyer' \in [Orders -> Phones \cup {None}]
      /\ plan' \in [Orders -> {"FULL", "DEPOSIT_50"}]
  BY DEF StartCheckout, TypeOK
<1> QED
  BY <1>3, <1>4, <1>5, <1>6
     DEF StartCheckout, TypeOK, clockVars, followUps, legVars, outsideVars,
         jobVars

LEMMA OrderStepType ==
  ASSUME TypeOK, NEW o \in Orders, OrderStep(o)
  PROVE  TypeOK'
<1> USE DEF placedVars, clockVars, followUps, legVars, outsideVars, orderVars,
            jobVars
<1>1. ASSUME NEW ph \in Phones, NEW cart \in SUBSET Garments,
             NEW payPlan \in {"FULL", "DEPOSIT_50"},
             StartCheckout(o, ph, cart, payPlan)
      PROVE  TypeOK'
  BY <1>1, StartCheckoutType
<1>2. ASSUME NEW ds \in {"ABANDONED", "EXPIRED"},
             NEW os \in {"CANCELLED", "EXPIRED"},
             ReleaseReservation(o, ds, os)
      PROVE  /\ inv' \in [Garments -> StockStatus]
             /\ draft' \in [Orders -> DraftStatus]
             /\ order' \in [Orders -> OrderStatus]
  <2>1. StockWithout({o}) \in [Garments -> StockStatus]
    BY StockWithoutType
  <2> QED
    BY <1>2, <2>1 DEF ReleaseReservation, TypeOK, DraftStatus, OrderStatus
<1>3. CASE ReleaseByShopper(o)
  <2>1. pstat' \in [Payments -> PaymentStatus]
    BY <1>3, MoveLegsType DEF ReleaseByShopper, PaymentStatus
  <2> QED BY <1>2, <1>3, <2>1 DEF ReleaseByShopper, TypeOK
<1>4. CASE ReservationRunsOut(o)
  BY <1>4 DEF ReservationRunsOut, TypeOK
<1>5. CASE SweepReservation(o)
  <2>1. pstat' \in [Payments -> PaymentStatus]
    BY <1>5, MoveLegsType DEF SweepReservation, PaymentStatus
  <2> QED BY <1>2, <1>5, <2>1 DEF SweepReservation, TypeOK
<1>6. CASE BalanceFallsDue(o)
  BY <1>6 DEF BalanceFallsDue, TypeOK
<1>7. CASE LapseHold(o)
  <2>1. pstat' \in [Payments -> PaymentStatus]
    BY <1>7, MoveLegsType DEF LapseHold, PaymentStatus
  <2>2. inv' \in [Garments -> StockStatus]
    BY <1>7 DEF LapseHold, TypeOK, StockStatus
  <2> QED
    BY <1>7, <2>1, <2>2 DEF LapseHold, RaiseLapseRefund, TypeOK, OrderStatus
<1>8. ASSUME NEW outcome \in {"AVAILABLE", "LOST"}
      PROVE  StockAfterClosing(o, outcome) \in [Garments -> StockStatus]
  BY DEF StockAfterClosing, TypeOK, StockStatus
<1>9. CASE CancelOrder(o)
  <2>1. pstat' \in [Payments -> PaymentStatus]
    BY <1>9, MoveLegsType DEF CancelOrder, PaymentStatus
  <2> QED
    BY <1>8, <1>9, <2>1
       DEF CancelOrder, CloseDraft, TypeOK, DraftStatus, OrderStatus
<1>10. ASSUME NEW outcome \in {"AVAILABLE", "LOST"}, WriteOff(o, outcome)
       PROVE  TypeOK'
  BY <1>8, <1>10 DEF WriteOff, CloseDraft, TypeOK, DraftStatus, OrderStatus
<1>11. CASE RefundInFull(o)
  BY <1>11 DEF RefundInFull, TypeOK, OrderStatus
<1> QED
  BY <1>1, <1>3, <1>4, <1>5, <1>6, <1>7, <1>9, <1>10, <1>11 DEF OrderStep

LEMMA FailPaymentType ==
  ASSUME TypeOK, NEW p \in Payments, pord[p] \in Orders, FailPayment(p)
  PROVE  /\ inv' \in [Garments -> StockStatus]
         /\ draft' \in [Orders -> DraftStatus]
         /\ order' \in [Orders -> OrderStatus]
         /\ pstat' \in [Payments -> PaymentStatus]
<1> DEFINE status == FailureStatus(prompt[p])
<1>1. /\ status \in {"CANCELLED", "TIMEOUT", "FAILED"}
      /\ DraftAfter(status) \in DraftStatus
      /\ OrderAfter(status) \in OrderStatus
  BY FailureTypes
<1>2. pstat' \in [Payments -> PaymentStatus]
  BY <1>1 DEF FailPayment, TypeOK, PaymentStatus
<1>3. CASE pkind[p] # "BALANCE"
  BY <1>1, <1>2, <1>3, ReleaseUnpaidType DEF FailPayment
<1>4. CASE pkind[p] = "BALANCE"
  BY <1>2, <1>4 DEF FailPayment, orderVars, TypeOK
<1> QED BY <1>3, <1>4

\* The part of TypeOK about the status-query job.
JobsTyped ==
  /\ queries \in [Payments -> Nat] /\ asking \in [Payments -> 0 .. MaxJobs]
  /\ \A p \in Payments : queries[p] + asking[p] < MaxQueries + MaxJobs

\* A record moves one run from the asking to the asked.
LEMMA CountQueryType ==
  ASSUME TypeOK, NEW p \in Payments, Listed(p), CountQuery(p)
  PROVE  JobsTyped'
<1>1. ASSUME NEW q \in Payments
      PROVE  /\ queries'[q] \in Nat /\ asking'[q] \in 0 .. MaxJobs
             /\ queries'[q] + asking'[q] < MaxQueries + MaxJobs
  <2>1. /\ queries[q] \in Nat /\ asking[q] \in 0 .. MaxJobs
        /\ queries[q] + asking[q] < MaxQueries + MaxJobs
    BY DEF TypeOK
  <2>2. CASE q = p
    <3>1. queries'[q] = queries[q] + 1 /\ asking'[q] = asking[q] - 1 /\ asking[q] > 0
      BY <2>2 DEF CountQuery, Listed, TypeOK
    <3> QED
      BY <2>1, <3>1, SaleAssumption
  <2>3. CASE q # p
    BY <2>1, <2>3 DEF CountQuery, TypeOK
  <2> QED
    BY <2>2, <2>3
<1> QED
  BY <1>1 DEF CountQuery, JobsTyped, TypeOK

\* A run takes a payment on its list only below the limit of queries.
LEMMA ListingType ==
  ASSUME TypeOK, NEW p \in Payments, ListForQuery(p) \/ QueryComesToNothing(p)
  PROVE  JobsTyped'
<1>1. ASSUME NEW q \in Payments
      PROVE  /\ asking'[q] \in 0 .. MaxJobs
             /\ queries[q] + asking'[q] < MaxQueries + MaxJobs
  <2>1. /\ queries[q] \in Nat /\ asking[q] \in 0 .. MaxJobs
        /\ queries[q] + asking[q] < MaxQueries + MaxJobs
    BY DEF TypeOK
  <2>2. CASE q = p /\ ListForQuery(p)
    <3>1. /\ asking'[q] = asking[q] + 1 /\ asking[q] < MaxJobs
          /\ queries[q] < MaxQueries
      BY <2>2 DEF ListForQuery, Reconcilable, TypeOK
    <3> QED
      BY <2>1, <3>1, SaleAssumption
  <2>3. CASE q = p /\ QueryComesToNothing(p)
    <3>1. asking'[q] = asking[q] - 1 /\ asking[q] > 0
      BY <2>3 DEF QueryComesToNothing, TypeOK
    <3> QED
      BY <2>1, <3>1, SaleAssumption
  <2>4. CASE q # p
    BY <2>1, <2>4 DEF ListForQuery, QueryComesToNothing, TypeOK
  <2> QED
    BY <2>2, <2>3, <2>4
<1> QED
  BY <1>1 DEF ListForQuery, QueryComesToNothing, JobsTyped, TypeOK

LEMMA PaymentStepType ==
  ASSUME TypeOK, LegsHaveOrders, NEW p \in Payments, PaymentStep(p)
  PROVE  TypeOK'
<1> USE DEF placedVars, clockVars, followUps, legVars, outsideVars, orderVars,
            jobVars
<1>1. ASSUME NEW o \in Orders, InitiatePayment(o, p)
      PROVE  TypeOK'
  BY <1>1 DEF InitiatePayment, TypeOK, LegKind, OrderStatus, Unpaid, PaymentStatus
<1>2. CASE PromptArrives(p)
  BY <1>2 DEF PromptArrives, TypeOK
<1>3. ASSUME NEW code \in {"0"} \cup FailureCodes, PromptEnds(p, code)
      PROVE  TypeOK'
  BY <1>3 DEF PromptEnds, TypeOK
<1>4. CASE RequestAcknowledged(p)
  BY <1>4 DEF RequestAcknowledged, TypeOK
<1>5. CASE RequestRefused(p)
  <2>1. pord[p] \in Orders
    BY <1>5 DEF RequestRefused, LegsHaveOrders
  <2>2. /\ inv' \in [Garments -> StockStatus]
        /\ draft' \in [Orders -> DraftStatus]
        /\ order' \in [Orders -> OrderStatus]
    <3>1. "ABANDONED" \in DraftStatus /\ "CANCELLED" \in OrderStatus
      BY DEF DraftStatus, OrderStatus
    <3>2. CASE ReleaseUnpaid(pord[p], "ABANDONED", "CANCELLED")
      BY <2>1, <3>1, <3>2, ReleaseUnpaidType
    <3>3. CASE UNCHANGED orderVars
      BY <3>3 DEF TypeOK
    <3> QED BY <1>5, <3>2, <3>3 DEF RequestRefused
  <2> QED BY <1>5, <2>2 DEF RequestRefused, TypeOK, PaymentStatus
<1>6. CASE RequestOutcomeUnknown(p)
  BY <1>6 DEF RequestOutcomeUnknown, TypeOK, PaymentStatus
<1>7. CASE ServerStops(p)
  BY <1>7 DEF ServerStops, TypeOK
<1>8. CASE OrphanCallback(p)
  BY <1>8 DEF OrphanCallback, TypeOK, CallbackStatus
<1>9. CASE LateCallbackIgnored(p)
  BY <1>9 DEF LateCallbackIgnored, TypeOK, CallbackStatus
<1>10. CASE FailureCallback(p)
  <2>1. pord[p] \in Orders
    BY <1>10 DEF FailureCallback, LegsHaveOrders
  <2> QED
    BY <1>10, <2>1, FailPaymentType DEF FailureCallback, TypeOK, CallbackStatus
<1>11. ASSUME NEW matches \in BOOLEAN, SuccessCallback(p, matches)
       PROVE  TypeOK'
  <2>1. pord[p] \in Orders
    BY <1>11 DEF SuccessCallback, LegsHaveOrders
  <2> QED
    BY <1>11, <2>1, SettleType DEF SuccessCallback, TypeOK, CallbackStatus
<1>12. ASSUME NEW matches \in BOOLEAN, DoubtfulCallback(p, matches)
       PROVE  TypeOK'
  BY <1>12 DEF DoubtfulCallback, TypeOK, CallbackStatus, PaymentStatus
<1>13. ASSUME Listed(p), CountQuery(p)
       PROVE  JobsTyped'
  BY <1>13, CountQueryType
<1>14. CASE QueryWithoutAnswer(p)
  BY <1>13, <1>14 DEF QueryWithoutAnswer, TypeOK, JobsTyped
<1>15. CASE QueryFindsMoney(p)
  <2>1. pord[p] \in Orders
    BY <1>15 DEF QueryFindsMoney, Listed, LegsHaveOrders
  <2>2. JobsTyped'
    BY <1>13, <1>15 DEF QueryFindsMoney
  <2>3. CASE Settle(p)
    BY <1>15, <2>1, <2>2, <2>3, SettleType
       DEF QueryFindsMoney, TypeOK, JobsTyped
  <2>4. CASE ~CanSettle(p)
    BY <1>15, <2>2, <2>4 DEF QueryFindsMoney, TypeOK, PaymentStatus, JobsTyped
  <2> QED BY <1>15, <2>3, <2>4 DEF QueryFindsMoney
<1>16. CASE QueryFindsFailure(p)
  <2>1. pord[p] \in Orders
    BY <1>16 DEF QueryFindsFailure, Listed, LegsHaveOrders
  <2>2. JobsTyped'
    BY <1>13, <1>16 DEF QueryFindsFailure
  <2> QED
    BY <1>16, <2>1, <2>2, FailPaymentType DEF QueryFindsFailure, TypeOK, JobsTyped
<1>21. CASE ListForQuery(p) \/ QueryComesToNothing(p)
  <2>1. JobsTyped'
    BY <1>21, ListingType
  <2> QED
    BY <1>21, <2>1 DEF ListForQuery, QueryComesToNothing, TypeOK, JobsTyped
<1>17. ResolveCallback(p) => cb' \in [Payments -> CallbackStatus]
  BY DEF ResolveCallback, TypeOK, CallbackStatus
<1>18. CASE ReviewSettle(p)
  <2>1. pord[p] \in Orders
    BY <1>18 DEF ReviewSettle, LegsHaveOrders
  <2> QED
    BY <1>17, <1>18, <2>1, SettleType DEF ReviewSettle, TypeOK
<1>19. CASE ReviewReject(p)
  <2>1. pord[p] \in Orders
    BY <1>19 DEF ReviewReject, LegsHaveOrders
  <2>2. "ABANDONED" \in DraftStatus /\ "CANCELLED" \in OrderStatus
    BY DEF DraftStatus, OrderStatus
  <2>3. /\ inv' \in [Garments -> StockStatus]
        /\ draft' \in [Orders -> DraftStatus]
        /\ order' \in [Orders -> OrderStatus]
    BY <1>19, <2>1, <2>2, ReleaseUnpaidType DEF ReviewReject
  <2> QED
    BY <1>17, <1>19, <2>3 DEF ReviewReject, TypeOK, PaymentStatus
<1>20. CASE CloseCallback(p)
  BY <1>20 DEF CloseCallback, TypeOK, CallbackStatus
<1> QED
  BY <1>1, <1>2, <1>3, <1>4, <1>5, <1>6, <1>7, <1>8, <1>9, <1>10, <1>11,
     <1>12, <1>14, <1>15, <1>16, <1>18, <1>19, <1>20, <1>21 DEF PaymentStep

-----------------------------------------------------------------------------
(* Payments belong to orders that were placed.                             *)

LEMMA LegsStep ==
  ASSUME TypeOK, LegsHaveOrders, Next
  PROVE  LegsHaveOrders'
<1> USE DEF LegsHaveOrders, legVars, outsideVars, TypeOK
<1>1. ASSUME NEW o \in Orders, OrderStep(o)
      PROVE  LegsHaveOrders'
  <2>1. CASE UNCHANGED <<legVars, pstat, ref, call>>
    BY <2>1
  <2>2. ASSUME NEW from, NEW to, MoveLegs(o, from, to), "NONE" \notin from,
               UNCHANGED <<legVars, ref, call>>
        PROVE  LegsHaveOrders'
    BY <2>2 DEF MoveLegs
  <2>3. CASE ReleaseByShopper(o) \/ SweepReservation(o)
    BY <2>2, <2>3 DEF ReleaseByShopper, SweepReservation
  <2>4. CASE LapseHold(o) \/ CancelOrder(o)
    BY <2>2, <2>4 DEF LapseHold, CancelOrder, Live
  <2> QED
    BY <1>1, <2>1, <2>3, <2>4 DEF OrderStep, StartCheckout, ReservationRunsOut,
       BalanceFallsDue, WriteOff, RefundInFull
<1>2. ASSUME NEW p \in Payments, PaymentStep(p)
      PROVE  LegsHaveOrders'
  <2> USE <1>2
  <2>1. ASSUME NEW o \in Orders, InitiatePayment(o, p)
        PROVE  LegsHaveOrders'
    BY <2>1 DEF InitiatePayment
  <2>2. CASE PromptArrives(p) \/ RequestAcknowledged(p) \/ ServerStops(p)
             \/ RequestRefused(p) \/ RequestOutcomeUnknown(p)
    BY <2>2 DEF PromptArrives, RequestAcknowledged, ServerStops,
       RequestRefused, RequestOutcomeUnknown
  <2>3. ASSUME NEW code \in {"0"} \cup FailureCodes, PromptEnds(p, code)
        PROVE  LegsHaveOrders'
    BY <2>3 DEF PromptEnds
  <2>4. CASE OrphanCallback(p) \/ LateCallbackIgnored(p) \/ CloseCallback(p)
             \/ ListForQuery(p) \/ QueryComesToNothing(p) \/ QueryWithoutAnswer(p)
    BY <2>4 DEF OrphanCallback, LateCallbackIgnored, CloseCallback,
       ListForQuery, QueryComesToNothing, QueryWithoutAnswer
  <2>5. CASE FailureCallback(p) \/ QueryFindsFailure(p) \/ ReviewReject(p)
    BY <2>5 DEF FailureCallback, QueryFindsFailure, ReviewReject, FailPayment,
       Listed
  <2>6. ASSUME NEW matches \in BOOLEAN,
               SuccessCallback(p, matches) \/ DoubtfulCallback(p, matches)
        PROVE  LegsHaveOrders'
    BY <2>6 DEF SuccessCallback, DoubtfulCallback, Settle, Hold, Sell
  <2>7. CASE QueryFindsMoney(p) \/ ReviewSettle(p)
    BY <2>7 DEF QueryFindsMoney, ReviewSettle, Settle, Hold, Sell, Listed
  <2> QED
    BY <2>1, <2>2, <2>3, <2>4, <2>5, <2>6, <2>7 DEF PaymentStep
<1> QED BY <1>1, <1>2 DEF Next

-----------------------------------------------------------------------------
(* What the helpers do to open reservations.                               *)

LEMMA ReleaseKeepsReservations ==
  ASSUME TypeOK, ReservationExclusive, NEW o \in Orders,
         NEW ds \in DraftStatus \ {"ACTIVE"}, NEW os \in OrderStatus,
         ReleaseReservation(o, ds, os), UNCHANGED items
  PROVE  ReservationExclusive'
<1> SUFFICES ASSUME NEW e \in Orders, draft'[e] = "ACTIVE"
             PROVE  /\ order'[e] \in Unpaid
                    /\ \A g \in items[e] : inv'[g] = "RESERVED" /\ Owned(e, g)'
  BY DEF ReservationExclusive
<1>1. e # o /\ draft[e] = "ACTIVE"
  BY DEF ReleaseReservation, TypeOK
<1>2. order'[e] \in Unpaid
  BY <1>1 DEF ReleaseReservation, ReservationExclusive, TypeOK
<1>3. ASSUME NEW g \in items[e]
      PROVE  inv'[g] = "RESERVED" /\ Owned(e, g)'
  <2>1. g \in Garments /\ inv[g] = "RESERVED" /\ Owned(e, g)
    BY <1>1 DEF ReservationExclusive, TypeOK
  <2>2. inv'[g] = "RESERVED"
    BY <1>1, <2>1 DEF ReleaseReservation, StockWithout
  <2>3. Owned(e, g)'
    BY <2>1 DEF Owned, ReleaseReservation, TypeOK
  <2> QED BY <2>2, <2>3
<1> QED BY <1>2, <1>3

LEMMA ReleaseUnpaidKeepsReservations ==
  ASSUME TypeOK, ReservationExclusive, NEW o \in Orders,
         NEW ds \in DraftStatus \ {"ACTIVE"}, NEW os \in OrderStatus,
         ReleaseUnpaid(o, ds, os), UNCHANGED items
  PROVE  ReservationExclusive'
<1>1. CASE Releasable(o)
  BY <1>1, ReleaseKeepsReservations DEF ReleaseUnpaid
<1>2. CASE ~Releasable(o)
  BY <1>2 DEF ReleaseUnpaid, orderVars, ReservationExclusive, Owned
<1> QED BY <1>1, <1>2

\* A step that takes only garments the order owns, and ends with its draft
\* closed, cannot touch another order's reservation.
LEMMA OwnedStockKeepsReservations ==
  ASSUME TypeOK, ReservationExclusive, NEW o \in Orders,
         draft'[o] # "ACTIVE",
         \A e \in Orders \ {o} : draft'[e] = draft[e] /\ order'[e] = order[e],
         \A g \in Garments : inv'[g] = inv[g] \/ (g \in items[o] /\ Owned(o, g)),
         UNCHANGED items
  PROVE  ReservationExclusive'
<1> SUFFICES ASSUME NEW e \in Orders, draft'[e] = "ACTIVE"
             PROVE  /\ order'[e] \in Unpaid
                    /\ \A g \in items[e] : inv'[g] = "RESERVED" /\ Owned(e, g)'
  BY DEF ReservationExclusive
<1>1. e # o /\ draft[e] = "ACTIVE" /\ order'[e] \in Unpaid
  BY DEF ReservationExclusive
<1>2. ASSUME NEW g \in items[e]
      PROVE  inv'[g] = "RESERVED" /\ Owned(e, g)'
  <2>1. g \in Garments /\ inv[g] = "RESERVED" /\ Owned(e, g)
    BY <1>1 DEF ReservationExclusive, TypeOK
  <2>2. ~(g \in items[o] /\ Owned(o, g))
    BY <1>1 DEF Owned
  <2>3. Owned(e, g)'
    BY <2>1 DEF Owned
  <2> QED BY <2>1, <2>2, <2>3
<1> QED BY <1>1, <1>2

LEMMA SettleKeepsReservations ==
  ASSUME TypeOK, ReservationExclusive, NEW p \in Payments, pord[p] \in Orders,
         \A g \in items[pord[p]] : Owned(pord[p], g),
         Settle(p), UNCHANGED items
  PROVE  ReservationExclusive'
<1>1. /\ draft'[pord[p]] # "ACTIVE"
      /\ \A e \in Orders \ {pord[p]} : draft'[e] = draft[e] /\ order'[e] = order[e]
  BY DEF Settle, Sell, Hold, TypeOK
<1>2. \A g \in Garments : \/ inv'[g] = inv[g]
                          \/ g \in items[pord[p]] /\ Owned(pord[p], g)
  BY DEF Settle, Sell, Hold, TypeOK
<1> QED BY <1>1, <1>2, OwnedStockKeepsReservations

LEMMA ClosingKeepsReservations ==
  ASSUME TypeOK, ReservationExclusive, NEW o \in Orders, NEW outcome,
         inv' = StockAfterClosing(o, outcome), CloseDraft(o),
         order' = [order EXCEPT ![o] = "CANCELLED"], UNCHANGED items
  PROVE  ReservationExclusive'
<1>1. /\ draft'[o] # "ACTIVE"
      /\ \A e \in Orders \ {o} : draft'[e] = draft[e] /\ order'[e] = order[e]
  BY DEF CloseDraft, TypeOK
<1>2. \A g \in Garments : inv'[g] = inv[g] \/ (g \in items[o] /\ Owned(o, g))
  BY DEF StockAfterClosing, TypeOK
<1> QED BY <1>1, <1>2, OwnedStockKeepsReservations

LEMMA CheckoutKeepsReservations ==
  ASSUME TypeOK, ReservationExclusive, NEW o \in Orders, NEW ph \in Phones,
         NEW cart \in SUBSET Garments, NEW payPlan \in {"FULL", "DEPOSIT_50"},
         StartCheckout(o, ph, cart, payPlan)
  PROVE  ReservationExclusive'
<1> DEFINE earlier == {e \in OpenAttempts(ph) : Releasable(e) /\ ~MayStillBePaid(e)}
<1>1. /\ earlier \in SUBSET Orders
      /\ o \notin earlier
      /\ draft[o] # "ACTIVE"
  BY DEF OpenAttempts, StartCheckout, Releasable, ReservationExclusive, Unpaid
<1>2. \A g \in cart : StockWithout(earlier)[g] = "AVAILABLE"
  BY DEF StartCheckout
<1>3. /\ inv' = [g \in Garments |-> IF g \in cart THEN "RESERVED"
                                    ELSE StockWithout(earlier)[g]]
      /\ order' = [e \in Orders |-> IF e = o THEN "PENDING_PAYMENT"
                                    ELSE IF e \in earlier THEN "CANCELLED"
                                    ELSE order[e]]
      /\ draft' = [e \in Orders |-> IF e = o THEN "ACTIVE"
                                    ELSE IF e \in earlier THEN "ABANDONED"
                                    ELSE draft[e]]
      /\ items' = [items EXCEPT ![o] = cart]
  BY DEF StartCheckout
\* A garment that some other order keeps reserved is not in the new cart.
<1>4. ASSUME NEW e \in Orders \ earlier, draft[e] = "ACTIVE", NEW g \in items[e]
      PROVE  g \in Garments /\ g \notin cart /\ StockWithout(earlier)[g] = "RESERVED"
  <2>1. g \in Garments /\ inv[g] = "RESERVED"
    BY <1>4 DEF ReservationExclusive, TypeOK
  <2>2. StockWithout(earlier)[g] = "RESERVED"
    BY <1>4, <2>1 DEF StockWithout
  <2> QED BY <1>2, <2>1, <2>2
<1>5. ASSUME NEW e \in Orders, draft'[e] = "ACTIVE"
      PROVE  /\ order'[e] \in Unpaid
             /\ \A g \in items'[e] : inv'[g] = "RESERVED" /\ Owned(e, g)'
  <2>1. CASE e = o
    <3>1. items'[e] = cart /\ order'[e] \in Unpaid
      BY <1>3, <2>1 DEF TypeOK, Unpaid
    <3>2. ASSUME NEW g \in cart, NEW other \in Orders \ {o}, g \in items'[other]
          PROVE  draft'[other] # "ACTIVE"
      BY <1>3, <1>4, <3>2 DEF TypeOK
    <3> QED BY <1>3, <2>1, <3>1, <3>2 DEF Owned
  <2>2. CASE e # o
    <3>1. e \in Orders \ earlier /\ draft[e] = "ACTIVE" /\ items'[e] = items[e]
      BY <1>3, <1>5, <2>2 DEF TypeOK
    <3>2. order'[e] \in Unpaid
      BY <1>3, <2>2, <3>1 DEF ReservationExclusive
    <3>3. ASSUME NEW g \in items[e]
          PROVE  inv'[g] = "RESERVED" /\ Owned(e, g)'
      <4>1. g \in Garments /\ g \notin cart /\ inv'[g] = "RESERVED"
        BY <1>3, <1>4, <3>1, <3>3
      <4>2. Owned(e, g)
        BY <3>1, <3>3 DEF ReservationExclusive
      <4>3. Owned(e, g)'
        BY <1>3, <4>1, <4>2, <2>2 DEF Owned, TypeOK
      <4> QED BY <4>1, <4>3
    <3> QED BY <3>1, <3>2, <3>3
  <2> QED BY <2>1, <2>2
<1> QED BY <1>5 DEF ReservationExclusive

-----------------------------------------------------------------------------
(* Every step either confirms one payment, or confirms none and moves each *)
(* order along one of the few transitions listed in OrderMoves.            *)

Confirms(p) ==
  /\ pord[p] \in Orders
  /\ pstat[p] \in Live
  /\ NotClosed(pord[p])
  /\ \A g \in items[pord[p]] : Owned(pord[p], g) /\ inv[g] # "AVAILABLE"
  /\ Settle(p)
  /\ UNCHANGED <<items, lapseRefunds, legVars>>

ConfirmsNothing ==
  /\ \A p \in Payments : /\ pstat'[p] = "SUCCESS" <=> pstat[p] = "SUCCESS"
                         /\ pstat[p] # "NONE" => pstat'[p] # "NONE"
  /\ UNCHANGED tasks
  /\ lapseRefunds \subseteq lapseRefunds'

OrderMoves(o) ==
  \/ order'[o] = order[o] /\ draft'[o] = draft[o]
  \/ order[o] = "UNPLACED" /\ order'[o] = "PENDING_PAYMENT"
  \/ /\ order[o] \in Unpaid /\ ~EverPaid(o)
     /\ order'[o] \in {"CANCELLED", "EXPIRED"} /\ draft'[o] # "ACTIVE"
  \/ /\ order[o] \in Unpaid /\ order'[o] = "PAYMENT_PROCESSING"
     /\ draft'[o] = draft[o]
  \/ /\ HoldLapsed(o) /\ order'[o] = "DEPOSIT_EXPIRED"
     /\ draft'[o] = draft[o] /\ o \in lapseRefunds'
  \/ /\ EverPaid(o) /\ NotClosed(o) /\ order'[o] = "CANCELLED"
     /\ (draft'[o] = draft[o] \/ draft'[o] # "ACTIVE")
  \/ EverPaid(o) /\ order'[o] = "REFUNDED" /\ draft'[o] = draft[o]

LEMMA ReleaseUnpaidMoves ==
  ASSUME TypeOK, NEW o \in Orders, NEW ds \in DraftStatus \ {"ACTIVE"},
         NEW os \in {"CANCELLED", "EXPIRED"}, ReleaseUnpaid(o, ds, os)
  PROVE  \A e \in Orders : OrderMoves(e)
<1>1. CASE Releasable(o)
  BY <1>1 DEF ReleaseUnpaid, ReleaseReservation, Releasable, OrderMoves, TypeOK
<1>2. CASE ~Releasable(o)
  BY <1>2 DEF ReleaseUnpaid, orderVars, OrderMoves
<1> QED BY <1>1, <1>2

LEMMA FailPaymentMoves ==
  ASSUME TypeOK, NEW p \in Payments, pord[p] \in Orders, FailPayment(p)
  PROVE  \A e \in Orders : OrderMoves(e)
<1> DEFINE status == FailureStatus(prompt[p])
<1>1. /\ status \in {"CANCELLED", "TIMEOUT", "FAILED"}
      /\ DraftAfter(status) \in DraftStatus \ {"ACTIVE"}
  BY FailureTypes
<1>2. OrderAfter(status) \in {"CANCELLED", "EXPIRED"}
  BY DEF OrderAfter
<1>3. CASE pkind[p] # "BALANCE"
  <2>1. ReleaseUnpaid(pord[p], DraftAfter(status), OrderAfter(status))
    BY <1>3 DEF FailPayment
  <2> HIDE DEF status
  <2> QED BY <1>1, <1>2, <2>1, ReleaseUnpaidMoves
<1>4. CASE pkind[p] = "BALANCE"
  BY <1>4 DEF FailPayment, orderVars, OrderMoves
<1> QED BY <1>3, <1>4

LEMMA FailPaymentConfirmsNothing ==
  ASSUME TypeOK, NEW p \in Payments, pstat[p] # "SUCCESS", FailPayment(p),
         UNCHANGED <<tasks, lapseRefunds>>
  PROVE  ConfirmsNothing
<1>1. FailureStatus(prompt[p]) \in {"CANCELLED", "TIMEOUT", "FAILED"}
  BY FailureTypes
<1> QED BY <1>1 DEF FailPayment, ConfirmsNothing, TypeOK

LEMMA OrderStepMoves ==
  ASSUME TypeOK, NEW o \in Orders, OrderStep(o)
  PROVE  ConfirmsNothing /\ \A e \in Orders : OrderMoves(e)
<1> USE DEF placedVars, clockVars, followUps, legVars, outsideVars, orderVars,
            jobVars
<1>1. ASSUME NEW ph \in Phones, NEW cart \in SUBSET Garments,
             NEW payPlan \in {"FULL", "DEPOSIT_50"},
             StartCheckout(o, ph, cart, payPlan)
      PROVE  ConfirmsNothing /\ \A e \in Orders : OrderMoves(e)
  BY <1>1 DEF StartCheckout, ConfirmsNothing, OrderMoves, Releasable,
     OpenAttempts, TypeOK
<1>2. ASSUME NEW from, NEW to \in PaymentStatus \ {"NONE", "SUCCESS"},
             MoveLegs(o, from, to), "SUCCESS" \notin from, UNCHANGED followUps
      PROVE  ConfirmsNothing
  BY <1>2 DEF MoveLegs, ConfirmsNothing, TypeOK
<1>3. CASE ReleaseByShopper(o)
  <2>1. ConfirmsNothing
    BY <1>2, <1>3 DEF ReleaseByShopper, PaymentStatus
  <2> QED
    BY <1>3, <2>1 DEF ReleaseByShopper, ReleaseReservation, Releasable,
       OrderMoves, TypeOK
<1>4. CASE SweepReservation(o)
  <2>1. ConfirmsNothing
    BY <1>2, <1>4 DEF SweepReservation, PaymentStatus
  <2> QED
    BY <1>4, <2>1 DEF SweepReservation, ReleaseReservation, Releasable,
       OrderMoves, TypeOK
<1>5. CASE ReservationRunsOut(o) \/ BalanceFallsDue(o)
  BY <1>5 DEF ReservationRunsOut, BalanceFallsDue, ConfirmsNothing, OrderMoves
<1>6. CASE LapseHold(o)
  <2>1. ConfirmsNothing
    BY <1>6 DEF LapseHold, MoveLegs, Live, RaiseLapseRefund, ConfirmsNothing,
       TypeOK
  <2> QED
    BY <1>6, <2>1 DEF LapseHold, RaiseLapseRefund, OrderMoves, TypeOK
<1>7. CASE CancelOrder(o)
  <2>1. ConfirmsNothing
    BY <1>2, <1>7 DEF CancelOrder, Live, PaymentStatus
  <2> QED
    BY <1>7, <2>1 DEF CancelOrder, CloseDraft, OrderMoves, TypeOK
<1>8. ASSUME NEW outcome \in {"AVAILABLE", "LOST"}, WriteOff(o, outcome)
      PROVE  ConfirmsNothing /\ \A e \in Orders : OrderMoves(e)
  BY <1>8 DEF WriteOff, CloseDraft, ConfirmsNothing, OrderMoves, TypeOK
<1>9. CASE RefundInFull(o)
  BY <1>9 DEF RefundInFull, ConfirmsNothing, OrderMoves, TypeOK
<1> QED
  BY <1>1, <1>3, <1>4, <1>5, <1>6, <1>7, <1>8, <1>9 DEF OrderStep

LEMMA PaymentStepMoves ==
  ASSUME TypeOK, LegsHaveOrders, NEW p \in Payments, PaymentStep(p)
  PROVE  \/ Confirms(p)
         \/ ConfirmsNothing /\ \A e \in Orders : OrderMoves(e)
<1> DEFINE Quiet == ConfirmsNothing /\ \A e \in Orders : OrderMoves(e)
<1> USE DEF placedVars, clockVars, followUps, legVars, outsideVars, orderVars,
            jobVars
<1>1. ASSUME NEW o \in Orders, InitiatePayment(o, p)
      PROVE  Quiet
  BY <1>1 DEF InitiatePayment, ConfirmsNothing, OrderMoves, TypeOK
<1>2. CASE UNCHANGED <<orderVars, pstat, followUps>>
  BY <1>2 DEF ConfirmsNothing, OrderMoves
<1>3. CASE RequestRefused(p)
  <2>1. pord[p] \in Orders
    BY <1>3 DEF RequestRefused, LegsHaveOrders
  <2>2. ConfirmsNothing
    BY <1>3 DEF RequestRefused, ConfirmsNothing, TypeOK
  <2>3. CASE ReleaseUnpaid(pord[p], "ABANDONED", "CANCELLED")
    <3>1. "ABANDONED" \in DraftStatus \ {"ACTIVE"}
      BY DEF DraftStatus
    <3> QED BY <2>1, <2>2, <2>3, <3>1, ReleaseUnpaidMoves
  <2>4. CASE UNCHANGED orderVars
    BY <2>2, <2>4 DEF OrderMoves
  <2> QED BY <1>3, <2>3, <2>4 DEF RequestRefused
<1>4. CASE RequestOutcomeUnknown(p)
  BY <1>4 DEF RequestOutcomeUnknown, ConfirmsNothing, OrderMoves, TypeOK
<1>5. CASE FailureCallback(p)
  <2>1. pord[p] \in Orders /\ pstat[p] # "SUCCESS"
    BY <1>5 DEF FailureCallback, LegsHaveOrders
  <2> QED
    BY <1>5, <2>1, FailPaymentMoves, FailPaymentConfirmsNothing
       DEF FailureCallback
<1>6. CASE QueryFindsFailure(p)
  <2>1. pord[p] \in Orders /\ pstat[p] # "SUCCESS"
    BY <1>6 DEF QueryFindsFailure, Listed, LegsHaveOrders
  <2> QED
    BY <1>6, <2>1, FailPaymentMoves, FailPaymentConfirmsNothing
       DEF QueryFindsFailure
<1>7. ASSUME NEW matches \in BOOLEAN, SuccessCallback(p, matches)
      PROVE  Confirms(p)
  <2>1. pord[p] \in Orders /\ pstat[p] = "PENDING"
    BY <1>7 DEF SuccessCallback, AppliesCleanly, WindowOpen, LegsHaveOrders
  <2>2. NotClosed(pord[p])
    BY <1>7 DEF SuccessCallback, AppliesCleanly, WindowOpen, NotClosed, Unpaid
  <2>3. \A g \in items[pord[p]] : Owned(pord[p], g) /\ inv[g] # "AVAILABLE"
    BY <1>7 DEF SuccessCallback, AppliesCleanly, StockInPlace, StockFor
  <2> QED BY <1>7, <2>1, <2>2, <2>3 DEF SuccessCallback, Confirms, Live
<1>8. ASSUME NEW matches \in BOOLEAN, DoubtfulCallback(p, matches)
      PROVE  Quiet
  BY <1>8 DEF DoubtfulCallback, ConfirmsNothing, OrderMoves, TypeOK
<1>9. ASSUME CanSettle(p)
      PROVE  /\ NotClosed(pord[p])
             /\ \A g \in items[pord[p]] : Owned(pord[p], g) /\ inv[g] # "AVAILABLE"
  BY <1>9 DEF CanSettle, CanHold, CanSell, Settleable
<1>10. CASE QueryFindsMoney(p)
  <2>1. pord[p] \in Orders /\ pstat[p] = "PENDING"
    BY <1>10 DEF QueryFindsMoney, Listed, LegsHaveOrders
  <2>2. CASE CanSettle(p)
    BY <1>9, <1>10, <2>1, <2>2 DEF QueryFindsMoney, Confirms, Live
  <2>3. CASE ~CanSettle(p)
    BY <1>10, <2>1, <2>3 DEF QueryFindsMoney, ConfirmsNothing, OrderMoves, TypeOK
  <2> QED BY <2>2, <2>3
<1>11. CASE ReviewSettle(p)
  <2>1. pord[p] \in Orders
    BY <1>11 DEF ReviewSettle, LegsHaveOrders
  <2> QED BY <1>9, <1>11, <2>1 DEF ReviewSettle, Confirms, Live
<1>12. CASE ReviewReject(p)
  <2>1. pord[p] \in Orders
    BY <1>12 DEF ReviewReject, LegsHaveOrders
  <2>2. "ABANDONED" \in DraftStatus \ {"ACTIVE"}
    BY DEF DraftStatus
  <2>3. \A e \in Orders : OrderMoves(e)
    BY <1>12, <2>1, <2>2, ReleaseUnpaidMoves DEF ReviewReject
  <2> QED BY <1>12, <2>3 DEF ReviewReject, ConfirmsNothing, TypeOK
<1> QED
  BY <1>1, <1>2, <1>3, <1>4, <1>5, <1>6, <1>7, <1>8, <1>10, <1>11, <1>12
     DEF PaymentStep, PromptArrives, PromptEnds, RequestAcknowledged,
         ServerStops, OrphanCallback, LateCallbackIgnored, ListForQuery,
         QueryComesToNothing, QueryWithoutAnswer, CloseCallback

\* A payment gets its order and its kind once, for an order that awaits money.
LegMoves(p) ==
  \/ pord'[p] = pord[p] /\ pkind'[p] = pkind[p]
  \/ /\ pstat[p] = "NONE" /\ pstat'[p] = "PENDING"
     /\ pord'[p] \in Orders /\ order[pord'[p]] # "UNPLACED"
     /\ pkind'[p] = "BALANCE" => order[pord'[p]] = "DEPOSIT_PAID"

LEMMA LegsMove ==
  ASSUME TypeOK, Next
  PROVE  \A p \in Payments : LegMoves(p)
<1> USE DEF legVars, LegMoves
<1>1. ASSUME NEW o \in Orders, OrderStep(o)
      PROVE  UNCHANGED legVars
  BY <1>1 DEF OrderStep, StartCheckout, ReleaseByShopper, ReservationRunsOut,
     SweepReservation, BalanceFallsDue, LapseHold, CancelOrder, WriteOff,
     RefundInFull
<1>2. ASSUME NEW o \in Orders, NEW p \in Payments, InitiatePayment(o, p)
      PROVE  \A q \in Payments : LegMoves(q)
  BY <1>2 DEF InitiatePayment, LegKind, Unpaid, TypeOK
<1>3. ASSUME NEW p \in Payments, PaymentStep(p),
             ~ \E o \in Orders : InitiatePayment(o, p)
      PROVE  UNCHANGED legVars
  BY <1>3 DEF PaymentStep, PromptArrives, PromptEnds, RequestAcknowledged,
     RequestRefused, RequestOutcomeUnknown, ServerStops, OrphanCallback,
     LateCallbackIgnored, FailureCallback, SuccessCallback, DoubtfulCallback,
     ListForQuery, QueryComesToNothing, QueryWithoutAnswer, QueryFindsMoney,
     QueryFindsFailure, ReviewSettle, ReviewReject, CloseCallback
<1> QED BY <1>1, <1>2, <1>3 DEF Next

LEMMA StepMoves ==
  ASSUME TypeOK, LegsHaveOrders, Next
  PROVE  \/ \E p \in Payments : Confirms(p)
         \/ ConfirmsNothing /\ \A e \in Orders : OrderMoves(e)
BY OrderStepMoves, PaymentStepMoves DEF Next

-----------------------------------------------------------------------------
(* The invariant is inductive.                                             *)

LEMMA UnplacedStep ==
  ASSUME TypeOK, LegsHaveOrders, UnplacedHasNoLegs, Next
  PROVE  UnplacedHasNoLegs'
<1>1. \A o \in Orders : order'[o] = "UNPLACED" => order[o] = "UNPLACED"
  <2>1. ASSUME NEW p \in Payments, Confirms(p)
        PROVE  \A o \in Orders : order'[o] = "UNPLACED" => order[o] = "UNPLACED"
    BY <2>1 DEF Confirms, Settle, Sell, Hold, TypeOK
  <2>2. ASSUME NEW o \in Orders, OrderMoves(o), order'[o] = "UNPLACED"
        PROVE  order[o] = "UNPLACED"
    BY <2>2 DEF OrderMoves
  <2> QED BY <2>1, <2>2, StepMoves
<1> QED BY <1>1, LegsMove DEF LegMoves, UnplacedHasNoLegs

LEMMA PaidStep ==
  ASSUME TypeOK, LegsHaveOrders, UnplacedHasNoLegs, PaidClosesDraft, Next
  PROVE  PaidClosesDraft'
<1> SUFFICES ASSUME NEW p \in Payments, pstat'[p] = "SUCCESS"
             PROVE  draft'[pord'[p]] # "ACTIVE"
  BY DEF PaidClosesDraft
<1>1. pord'[p] = pord[p]
  BY LegsMove DEF LegMoves
<1>2. ASSUME pstat[p] = "SUCCESS"
      PROVE  /\ pord[p] \in Orders /\ draft[pord[p]] # "ACTIVE"
             /\ EverPaid(pord[p]) /\ order[pord[p]] # "UNPLACED"
  BY <1>2 DEF LegsHaveOrders, UnplacedHasNoLegs, PaidClosesDraft, EverPaid,
     Succeeded, LegsOf, TypeOK
<1>3. ASSUME NEW q \in Payments, Confirms(q)
      PROVE  draft'[pord[p]] # "ACTIVE"
  <2>1. draft' = [draft EXCEPT ![pord[q]] = "CONVERTED"]
    BY <1>3 DEF Confirms, Settle, Sell, Hold
  <2>2. pstat' = [pstat EXCEPT ![q] = "SUCCESS"]
    BY <1>3 DEF Confirms, Settle, Sell, Hold
  <2>3. CASE p = q
    BY <1>3, <2>1, <2>3 DEF Confirms, TypeOK
  <2>4. CASE p # q
    BY <1>2, <2>1, <2>2, <2>4 DEF TypeOK
  <2> QED BY <2>3, <2>4
<1>4. CASE ConfirmsNothing /\ \A e \in Orders : OrderMoves(e)
  <2>1. pstat[p] = "SUCCESS"
    BY <1>4 DEF ConfirmsNothing
  <2>2. OrderMoves(pord[p])
    BY <1>2, <1>4, <2>1
  <2> QED BY <1>1, <1>2, <2>1, <2>2 DEF OrderMoves
<1> QED BY <1>1, <1>3, <1>4, StepMoves

LEMMA OrderStepKeepsReservations ==
  ASSUME IInv, NEW o \in Orders, OrderStep(o)
  PROVE  ReservationExclusive'
<1> USE DEF IInv, placedVars, orderVars
<1>1. ASSUME NEW ph \in Phones, NEW cart \in SUBSET Garments,
             NEW payPlan \in {"FULL", "DEPOSIT_50"},
             StartCheckout(o, ph, cart, payPlan)
      PROVE  ReservationExclusive'
  BY <1>1, CheckoutKeepsReservations
<1>2. CASE ReleaseByShopper(o)
  <2>1. "ABANDONED" \in DraftStatus \ {"ACTIVE"} /\ "CANCELLED" \in OrderStatus
    BY DEF DraftStatus, OrderStatus
  <2> QED BY <1>2, <2>1, ReleaseKeepsReservations DEF ReleaseByShopper
<1>3. CASE SweepReservation(o)
  <2>1. "EXPIRED" \in DraftStatus \ {"ACTIVE"} /\ "EXPIRED" \in OrderStatus
    BY DEF DraftStatus, OrderStatus
  <2> QED BY <1>3, <2>1, ReleaseKeepsReservations DEF SweepReservation
<1>4. CASE ReservationRunsOut(o) \/ BalanceFallsDue(o)
  BY <1>4 DEF ReservationRunsOut, BalanceFallsDue, ReservationExclusive, Owned
<1>5. CASE LapseHold(o)
  <2>1. draft'[o] # "ACTIVE"
    BY <1>5 DEF LapseHold, HoldLapsed, ReservationExclusive, Unpaid
  <2>2. /\ \A e \in Orders \ {o} : draft'[e] = draft[e] /\ order'[e] = order[e]
        /\ \A g \in Garments : \/ inv'[g] = inv[g]
                               \/ g \in items[o] /\ Owned(o, g)
    BY <1>5 DEF LapseHold, TypeOK
  <2> QED BY <1>5, <2>1, <2>2, OwnedStockKeepsReservations DEF LapseHold
<1>6. CASE CancelOrder(o)
  BY <1>6, ClosingKeepsReservations DEF CancelOrder
<1>7. ASSUME NEW outcome \in {"AVAILABLE", "LOST"}, WriteOff(o, outcome)
      PROVE  ReservationExclusive'
  BY <1>7, ClosingKeepsReservations DEF WriteOff
<1>8. CASE RefundInFull(o)
  <2>1. draft[o] # "ACTIVE"
    BY <1>8 DEF RefundInFull, EverPaid, Succeeded, LegsOf, PaidClosesDraft
  <2>2. /\ \A e \in Orders \ {o} : draft'[e] = draft[e] /\ order'[e] = order[e]
        /\ draft' = draft /\ inv' = inv /\ items' = items
    BY <1>8 DEF RefundInFull, TypeOK
  <2> QED BY <2>1, <2>2, OwnedStockKeepsReservations
<1> QED
  BY <1>1, <1>2, <1>3, <1>4, <1>5, <1>6, <1>7, <1>8 DEF OrderStep

LEMMA PaymentStepKeepsReservations ==
  ASSUME IInv, NEW p \in Payments, PaymentStep(p)
  PROVE  ReservationExclusive'
<1> USE DEF IInv, placedVars, orderVars
<1>1. CASE Confirms(p)
  BY <1>1, SettleKeepsReservations DEF Confirms
<1>2. CASE UNCHANGED <<orderVars, items>>
  BY <1>2 DEF ReservationExclusive, Owned
<1>3. ASSUME NEW o \in Orders, InitiatePayment(o, p)
      PROVE  ReservationExclusive'
  <2>1. \A e \in Orders : draft[e] = "ACTIVE" => order'[e] \in Unpaid
    BY <1>3 DEF InitiatePayment, ReservationExclusive, Unpaid, TypeOK
  <2>2. UNCHANGED <<inv, draft, items>>
    BY <1>3 DEF InitiatePayment
  <2> QED BY <2>1, <2>2 DEF ReservationExclusive, Owned
<1>4. ASSUME pord[p] \in Orders, UNCHANGED items,
             NEW ds \in DraftStatus \ {"ACTIVE"}, NEW os \in OrderStatus,
             ReleaseUnpaid(pord[p], ds, os)
      PROVE  ReservationExclusive'
  BY <1>4, ReleaseUnpaidKeepsReservations
<1>5. "ABANDONED" \in DraftStatus \ {"ACTIVE"} /\ "CANCELLED" \in OrderStatus
  BY DEF DraftStatus, OrderStatus
<1>6. CASE RequestRefused(p)
  <2>1. pord[p] \in Orders /\ UNCHANGED items
    BY <1>6 DEF RequestRefused, LegsHaveOrders
  <2>2. CASE ReleaseUnpaid(pord[p], "ABANDONED", "CANCELLED")
    BY <1>4, <1>5, <2>1, <2>2
  <2> QED BY <1>2, <1>6, <2>1, <2>2 DEF RequestRefused
<1>7. CASE ReviewReject(p)
  <2>1. pord[p] \in Orders /\ UNCHANGED items
    BY <1>7 DEF ReviewReject, LegsHaveOrders
  <2> QED BY <1>4, <1>5, <1>7, <2>1 DEF ReviewReject
<1>8. ASSUME pord[p] \in Orders, UNCHANGED items, FailPayment(p)
      PROVE  ReservationExclusive'
  <2> DEFINE status == FailureStatus(prompt[p])
  <2>1. /\ DraftAfter(status) \in DraftStatus \ {"ACTIVE"}
        /\ OrderAfter(status) \in OrderStatus
    BY FailureTypes
  <2>2. CASE ReleaseUnpaid(pord[p], DraftAfter(status), OrderAfter(status))
    <3> HIDE DEF status
    <3> QED BY <1>4, <1>8, <2>1, <2>2
  <2> QED BY <1>2, <1>8, <2>2 DEF FailPayment
<1>9. CASE FailureCallback(p) \/ QueryFindsFailure(p)
  BY <1>8, <1>9 DEF FailureCallback, QueryFindsFailure, Listed,
     LegsHaveOrders
<1>10. ASSUME NEW matches \in BOOLEAN, SuccessCallback(p, matches)
       PROVE  ReservationExclusive'
  <2>1. pord[p] \in Orders
    BY <1>10 DEF SuccessCallback, LegsHaveOrders
  <2>2. /\ \A g \in items[pord[p]] : Owned(pord[p], g)
        /\ Settle(p) /\ UNCHANGED items
    BY <1>10 DEF SuccessCallback, AppliesCleanly, StockInPlace
  <2> QED BY <2>1, <2>2, SettleKeepsReservations
<1>11. CASE QueryFindsMoney(p) \/ ReviewSettle(p)
  <2>1. pord[p] \in Orders /\ UNCHANGED items
    BY <1>11 DEF QueryFindsMoney, ReviewSettle, Listed, LegsHaveOrders
  <2>2. CASE CanSettle(p) /\ Settle(p)
    <3>1. \A g \in items[pord[p]] : Owned(pord[p], g)
      BY <2>2 DEF CanSettle, CanHold, CanSell
    <3> QED BY <2>1, <2>2, <3>1, SettleKeepsReservations
  <2> QED BY <1>2, <1>11, <2>1, <2>2 DEF QueryFindsMoney, ReviewSettle
<1> QED
  BY <1>2, <1>3, <1>6, <1>7, <1>9, <1>10, <1>11
     DEF PaymentStep, PromptArrives, PromptEnds, RequestAcknowledged,
         RequestOutcomeUnknown, ServerStops, OrphanCallback,
         LateCallbackIgnored, DoubtfulCallback, ListForQuery,
         QueryComesToNothing, QueryWithoutAnswer, CloseCallback

LEMMA IInvInit == Init => IInv
<1> SUFFICES ASSUME Init PROVE IInv
  OBVIOUS
<1>1. TypeOK
  BY TypeInit
<1>2. LegsHaveOrders /\ UnplacedHasNoLegs /\ PaidClosesDraft
  BY SaleAssumption DEF Init, LegsHaveOrders, UnplacedHasNoLegs, PaidClosesDraft
<1>3. ReservationExclusive
  BY DEF Init, ReservationExclusive
<1> QED BY <1>1, <1>2, <1>3 DEF IInv

LEMMA IInvStep == IInv /\ [Next]_vars => IInv'
<1> SUFFICES ASSUME IInv, [Next]_vars PROVE IInv'
  OBVIOUS
<1>1. CASE Next
  <2>1. TypeOK'
    BY <1>1, OrderStepType, PaymentStepType DEF IInv, Next
  <2>2. LegsHaveOrders' /\ UnplacedHasNoLegs' /\ PaidClosesDraft'
    BY <1>1, LegsStep, UnplacedStep, PaidStep DEF IInv
  <2>3. ReservationExclusive'
    BY <1>1, OrderStepKeepsReservations, PaymentStepKeepsReservations DEF Next
  <2> QED BY <2>1, <2>2, <2>3 DEF IInv
<1>2. CASE UNCHANGED vars
  BY <1>2 DEF IInv, TypeOK, LegsHaveOrders, UnplacedHasNoLegs,
     PaidClosesDraft, ReservationExclusive, Owned, vars, orderVars, placedVars,
     clockVars, followUps, legVars, outsideVars, jobVars
<1> QED BY <1>1, <1>2

LEMMA Inductive == Spec => []IInv
BY IInvInit, IInvStep, PTL DEF Spec

\* Every column only ever holds a value of its enumeration, whatever the
\* callbacks, queries, sweeps and staff do.
THEOREM TypeCorrect == Spec => []TypeOK
BY Inductive, PTL DEF IInv

\* The checkout's central promise, for any number of shoppers and payments: an
\* open reservation holds its garments, alone, until it is closed.
THEOREM ReservationsAreExclusive == Spec => []ReservationExclusive
BY Inductive, PTL DEF IInv

-----------------------------------------------------------------------------
(* What a step may never do.                                               *)

\* No callback, query, sweep, rejection or closure takes confirmed money back.
THEOREM ConfirmedMoneyStays == Spec => SuccessIsFinal
<1> DEFINE Kept == \A p \in Payments : pstat[p] = "SUCCESS" => pstat'[p] = "SUCCESS"
<1>1. IInv /\ [Next]_vars => [Kept]_vars
  <2> SUFFICES ASSUME IInv, Next PROVE Kept
    OBVIOUS
  <2>1. ASSUME NEW p \in Payments, Confirms(p)
        PROVE  Kept
    BY <2>1 DEF IInv, TypeOK, Confirms, Settle, Sell, Hold
  <2>2. ConfirmsNothing => Kept
    BY DEF ConfirmsNothing
  <2> QED BY <2>1, <2>2, StepMoves DEF IInv
<1> QED BY <1>1, Inductive, PTL DEF Spec, SuccessIsFinal

\* Late money, a sweep or staff cannot bring a cancelled or refunded order back.
THEOREM ClosedOrdersStayClosed == Spec => ClosedStaysClosed
<1> DEFINE Shut == \A o \in Orders :
             /\ order[o] = "CANCELLED" => order'[o] \in {"CANCELLED", "REFUNDED"}
             /\ order[o] = "REFUNDED" => order'[o] = "REFUNDED"
<1>1. IInv /\ [Next]_vars => [Shut]_vars
  <2> SUFFICES ASSUME IInv, Next PROVE Shut
    OBVIOUS
  <2>1. ASSUME NEW p \in Payments, Confirms(p)
        PROVE  Shut
    BY <2>1 DEF IInv, TypeOK, Confirms, NotClosed, Settle, Sell, Hold
  <2>2. (\A e \in Orders : OrderMoves(e)) => Shut
    BY DEF OrderMoves, NotClosed, HoldLapsed, Unpaid
  <2> QED BY <2>1, <2>2, StepMoves DEF IInv
<1> QED BY <1>1, Inductive, PTL DEF Spec, ClosedStaysClosed
=============================================================================
