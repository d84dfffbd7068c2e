---------------------------- MODULE Fulfillment -----------------------------
(***************************************************************************)
(* Fulfilment of paid orders: picking, packing, routing to a store, hand-  *)
(* off, delivery by code, failed deliveries, exceptions, write-off and     *)
(* refund.                                                                 *)
(*                                                                         *)
(* A handler reads the order and its task without a lock, checks what it   *)
(* read, and then writes in a transaction.  A handler that repeats its     *)
(* checks on the locked rows is one action.  A handler that does not is    *)
(* two: the first keeps in call[c] what was read, the second writes, and   *)
(* anything may happen in between.                                         *)
(***************************************************************************)
EXTENDS Naturals

CONSTANTS
  Orders,         \* order rows
  Garments,       \* one inventory row per garment
  Staff,          \* employees
  Supervisors,    \* the staff with the assign permissions
  Nodes,          \* fulfilment nodes
  Stores,         \* the nodes of type STORE
  Calls,          \* requests in progress at the same time
  None,           \* the value of a column that is not set
  MaxCodes        \* bound on the delivery codes of one order

ASSUME FulfillmentAssumption ==
  /\ Supervisors \subseteq Staff
  /\ Stores \subseteq Nodes
  /\ None \notin Staff \cup Nodes
  /\ MaxCodes \in Nat

VARIABLES
  order,          \* Order.status
  inv,            \* InventoryItem.status
  items,          \* the garments of the order's items
  method,         \* Order.fulfillmentMethod
  node,           \* Order.fulfillmentNodeId
  verified,       \* the garments whose FulfillmentItem is VERIFIED
  task,           \* OrderFulfillment
  call            \* what a request in progress has read

stockVars == <<order, inv>>
fixedVars == <<items, method>>
vars == <<stockVars, fixedVars, node, verified, task, call>>

-----------------------------------------------------------------------------
(* Statuses and the rows.                                                  *)

OrderStatus == {"AWAITING", "DEPOSIT_EXPIRED", "PAID", "FULFILLING",
                "COMPLETED", "CANCELLED", "REFUNDED"}
StockStatus == {"AVAILABLE", "PAID", "PICKED", "PACKED", "DELIVERED", "LOST"}
Handoffs == {"READY_FOR_PICKUP", "READY_FOR_DISPATCH"}
OnTheWay == {"PACKED", "IN_TRANSIT_TO_NODE", "ARRIVED_AT_NODE",
             "OUT_FOR_DELIVERY"} \cup Handoffs
Sealed == OnTheWay \cup {"DELIVERY_FAILED", "RETURNING_TO_NODE", "COMPLETED"}
FulfillmentStatus == Sealed \cup {"PAID", "PICKING", "READY_TO_PACK", "EXCEPTION"}

\* label is the node that packageCode names, printed the label of the sheet
\* that packageLabelPrintedAt vouches for, code the delivery code in force
\* (0: none) and issued the number of codes minted so far.
Task == [st : FulfillmentStatus, from : FulfillmentStatus \cup {None},
         picker : Staff \cup {None}, packer : Staff \cup {None},
         started : Staff \cup {None}, node : Nodes \cup {None},
         label : Stores \cup {None}, printed : Stores \cup {None},
         rider : BOOLEAN, code : 0..MaxCodes, issued : 0..MaxCodes]

ASSUME UnsetAssumption == None \notin FulfillmentStatus /\ None \notin Task

NewTask(n) == [st |-> "PAID", from |-> None, picker |-> None, packer |-> None,
               started |-> None, node |-> n, label |-> None, printed |-> None,
               rider |-> FALSE, code |-> 0, issued |-> 0]

Twofold == {"assignPicker", "claim", "assignPacker", "startPacking", "send",
            "handoff", "assignRider", "resend", "handover", "fail",
            "return", "returned", "exception", "resolve"}
Idle == [op |-> "idle"]
Call == {Idle} \cup
        [op : Twofold, o : Orders, by : Staff \cup {None},
         st : FulfillmentStatus \cup {None}, at : Nodes \cup {None},
         label : Stores \cup {None}, code : 0..MaxCodes]

Live(o) == order[o] \in {"PAID", "FULFILLING"}
HasTask(o) == task[o] # None

-----------------------------------------------------------------------------
(* The transitions of a task.                                              *)

\* The node of the task, or that of the order when the task has none.
Destination(o) == IF task[o].node # None THEN task[o].node ELSE node[o]
StoreBound(o) == Destination(o) \in Stores

HandoffForRider(o) == "READY_FOR_DISPATCH"   \* fault: the method is not looked at
HandoffFor(o) ==
  IF method[o] = "PICKUP" THEN "READY_FOR_PICKUP" ELSE "READY_FOR_DISPATCH"

Transitions(o) ==
  {<<"PAID", "PICKING">>, <<"PICKING", "READY_TO_PACK">>,
   <<"READY_TO_PACK", "PACKED">>, <<"ARRIVED_AT_NODE", HandoffFor(o)>>}
  \cup (IF StoreBound(o)
        THEN {<<"PACKED", "IN_TRANSIT_TO_NODE">>,
              <<"IN_TRANSIT_TO_NODE", "ARRIVED_AT_NODE">>}
        ELSE {<<"PACKED", HandoffFor(o)>>})
  \cup (IF method[o] = "DELIVERY"
        THEN {<<"OUT_FOR_DELIVERY", "DELIVERY_FAILED">>,
              <<"DELIVERY_FAILED", "RETURNING_TO_NODE">>,
              <<"RETURNING_TO_NODE", "ARRIVED_AT_NODE">>}
        ELSE {})

CanMove(o, to) == <<task[o].st, to>> \in Transitions(o)
CanMarkExceptionAgain(o) == task[o].st # "COMPLETED"   \* fault: on an exception
CanMarkException(o) == task[o].st \notin {"EXCEPTION", "COMPLETED"}

CanResolve(o) ==
  task[o].st = "EXCEPTION" /\ task[o].from \notin {None, "EXCEPTION", "COMPLETED"}

\* Where the customer reads out the code.
AtHandover(o) ==
  IF method[o] = "PICKUP"
  THEN task[o].st = "READY_FOR_PICKUP"
  ELSE task[o].st = "OUT_FOR_DELIVERY"

-----------------------------------------------------------------------------
(* A request.                                                              *)

Nothing == [by |-> None, st |-> None, at |-> None, label |-> None, code |-> 0]
By(e) == [Nothing EXCEPT !.by = e]

Reads(c, op, o, read) ==
  /\ call[c] = Idle
  /\ call' = [call EXCEPT ![c] =
                [op |-> op, o |-> o, by |-> read.by, st |-> read.st,
                 at |-> read.at, label |-> read.label, code |-> read.code]]
  /\ UNCHANGED <<stockVars, fixedVars, node, verified, task>>

Ends(c) == call' = [call EXCEPT ![c] = Idle]

\* The second half of a request that writes nothing but the task.
Writes(c, row) ==
  /\ task' = [task EXCEPT ![call[c].o] = row]
  /\ Ends(c)
  /\ UNCHANGED <<stockVars, fixedVars, node, verified>>

\* A handler that reads, checks and writes the task as one.
Updates(o, row) ==
  /\ task' = [task EXCEPT ![o] = row]
  /\ UNCHANGED <<stockVars, fixedVars, node, verified, call>>

\* A request is refused under the lock, or the server stops.
CallDies(c) ==
  /\ call[c] # Idle
  /\ Ends(c)
  /\ UNCHANGED <<stockVars, fixedVars, node, verified, task>>

-----------------------------------------------------------------------------
(* Payment, as Sale settles it.                                            *)

PayableAnyhow(o) == TRUE                 \* fault: the stock is not looked at

\* The stock is reserved for the order (on sale, for this module) or, when
\* another order was paid for it, already PAID.
Payable(o) == \E s \in {"AVAILABLE", "PAID"} : \A g \in items[o] : inv[g] = s

Settle(o) ==
  /\ order[o] \in {"AWAITING", "DEPOSIT_EXPIRED"}
  /\ Payable(o)
  /\ order' = [order EXCEPT ![o] = "PAID"]
  /\ inv' = [g \in Garments |-> IF g \in items[o] THEN "PAID" ELSE inv[g]]
  /\ task' = [task EXCEPT ![o] = NewTask(node[o])]
  /\ UNCHANGED <<fixedVars, node, verified, call>>

-----------------------------------------------------------------------------
(* Picking.                                                                *)

AssignPickerReads(c, o, e) ==
  /\ HasTask(o)
  /\ task[o].st \in {"PAID", "PICKING"}
  /\ task[o].picker # e
  /\ task[o].st = "PICKING" => task[o].picker = None
  /\ Reads(c, "assignPicker", o, By(e))

AssignPicker(c) ==
  /\ call[c].op = "assignPicker"
  /\ Writes(c, [task[call[c].o] EXCEPT !.picker = call[c].by])

\* Pressed, or made by the first scan of a task nobody has taken.
ClaimReads(c, o, e) ==
  /\ HasTask(o)
  /\ CanMove(o, "PICKING")
  /\ task[o].picker \in {None, e}
  /\ Reads(c, "claim", o, By(e))

StartsFromAnywhere(o) == TRUE            \* fault: an order is never left as it is
StartsFulfilling(o) == order[o] = "PAID"

Claim(c) ==
  LET o == call[c].o IN
  /\ call[c].op = "claim"
  /\ order' = IF StartsFulfilling(o)
              THEN [order EXCEPT ![o] = "FULFILLING"] ELSE order
  /\ task' = [task EXCEPT ![o].st = "PICKING", ![o].picker = call[c].by]
  /\ Ends(c)
  /\ UNCHANGED <<inv, fixedVars, node, verified>>

ReassignPicker(o, e) ==
  /\ HasTask(o)
  /\ task[o].st \in {"PAID", "PICKING"}
  /\ task[o].picker # e
  /\ Updates(o, [task[o] EXCEPT !.picker = e])

\* Fault: stock that another paid order lists is not refused.
OwnedByStatus(o, status) == \A g \in items[o] : inv[g] = status

Owned(o, status) ==
  /\ \A g \in items[o] : inv[g] = status
  /\ \A other \in Orders \ {o} :
       items[other] \cap items[o] # {} => ~Live(other)

ItemsMove(o, to) ==
  inv' = [g \in Garments |-> IF g \in items[o] THEN to ELSE inv[g]]

PackerForgotten(o, e) == task[o].packer    \* fault: the trolley is nobody's
PackerAfter(o, e) == IF task[o].packer = None THEN e ELSE task[o].packer

FirstItemScanned(o) == verified'[o] # {}   \* fault: not the last item
LastItemScanned(o) == verified'[o] = items[o]

\* The last scan completes the picking, or fails with nothing written.  The code
\* takes the packer from the row it read before the lock; until the last garment
\* is scanned no row names one, so that both rows agree.
ScanItem(o, g, e) ==
  /\ HasTask(o)
  /\ Live(o)
  /\ task[o].st = "PICKING"
  /\ task[o].picker \in {None, e}
  /\ g \in items[o] \ verified[o]
  /\ verified' = [verified EXCEPT ![o] = @ \cup {g}]
  /\ \/ /\ LastItemScanned(o)
        /\ Owned(o, "PAID")
        /\ ItemsMove(o, "PICKED")
        /\ task' = [task EXCEPT ![o].st = "READY_TO_PACK",
                                ![o].packer = PackerAfter(o, e)]
     \/ ~LastItemScanned(o) /\ UNCHANGED <<inv, task>>
  /\ UNCHANGED <<order, fixedVars, node, call>>

-----------------------------------------------------------------------------
(* Packing.                                                                *)

MayPack(o, e) == e = task[o].packer \/ e \in Supervisors

AssignPackerReads(c, o, e) ==
  /\ HasTask(o)
  /\ task[o].st = "READY_TO_PACK"
  /\ task[o].packer # e
  /\ task[o].started \in {None, e}
  /\ Reads(c, "assignPacker", o, By(e))

AssignPacker(c) ==
  /\ call[c].op = "assignPacker"
  /\ Writes(c, [task[call[c].o] EXCEPT !.packer = call[c].by])

ReassignPacker(o, e) ==
  /\ HasTask(o)
  /\ task[o].st = "READY_TO_PACK"
  /\ ~(task[o].packer = e /\ task[o].started \in {None, e})
  /\ Updates(o, [task[o] EXCEPT !.packer = e,
                                !.started = IF @ = None THEN None ELSE e])

\* A supervisor may start the packing in the name of somebody else.
StartPackingReads(c, o, actor, e) ==
  /\ HasTask(o)
  /\ task[o].st = "READY_TO_PACK"
  /\ MayPack(o, actor)
  /\ e = actor \/ actor \in Supervisors
  /\ task[o].started # e
  /\ Reads(c, "startPacking", o, By(e))

\* It would name a packer too if there were none (PackingIsAssigned).
StartPacking(c) ==
  /\ call[c].op = "startPacking"
  /\ Writes(c, [task[call[c].o] EXCEPT !.started = call[c].by])

\* Refused if the task was written after it was read.
CompletePacking(o, e) ==
  /\ HasTask(o)
  /\ Live(o)
  /\ task[o].st = "READY_TO_PACK"
  /\ task[o].started # None
  /\ MayPack(o, e)
  /\ Owned(o, "PICKED")
  /\ ItemsMove(o, "PACKED")
  /\ task' = [task EXCEPT
       ![o].st = "PACKED",
       ![o].label = IF @ = None /\ node[o] \in Stores THEN node[o] ELSE @,
       ![o].node = IF node[o] = None THEN @ ELSE node[o]]
  /\ UNCHANGED <<order, fixedVars, node, verified, call>>

-----------------------------------------------------------------------------
(* Routing and the transfer to a store.                                    *)

BeforeTransfer == {"PAID", "PICKING", "READY_TO_PACK", "PACKED",
                   "DELIVERY_FAILED", "RETURNING_TO_NODE", "EXCEPTION"}

LabelFor(o, n) ==
  IF /\ n \in Stores
     /\ task[o].label # None \/ task[o].st = "PACKED"
     /\ ~(task[o].label # None /\ task[o].node = n)
  THEN n ELSE task[o].label

AssignNode(o, n) ==
  /\ HasTask(o)
  /\ task[o].st \in BeforeTransfer
  /\ node' = [node EXCEPT ![o] = n]
  /\ task' = [task EXCEPT
       ![o].node = n,
       ![o].label = LabelFor(o, n),
       ![o].printed = IF LabelFor(o, n) = task[o].label THEN @ ELSE None]
  /\ UNCHANGED <<stockVars, fixedVars, verified, call>>

PrintLabel(o) ==
  /\ HasTask(o)
  /\ task[o].label # None
  /\ Updates(o, [task[o] EXCEPT !.printed = task[o].label])

SendReads(c, o) ==
  /\ HasTask(o)
  /\ node[o] \in Stores
  /\ CanMove(o, "IN_TRANSIT_TO_NODE")
  /\ task[o].printed # None
  /\ Reads(c, "send", o, [Nothing EXCEPT !.at = node[o],
                                         !.label = task[o].label])

\* The status and the label's print are checked again; node and code are not.
Send(c) ==
  LET t == task[call[c].o] IN
  /\ call[c].op = "send"
  /\ t.st = "PACKED"
  /\ t.printed # None
  /\ Writes(c, [t EXCEPT !.st = "IN_TRANSIT_TO_NODE",
                         !.node = call[c].at, !.label = call[c].label])

ReceiveAtNode(o) ==
  /\ HasTask(o)
  /\ CanMove(o, "ARRIVED_AT_NODE")
  /\ task[o].st = "IN_TRANSIT_TO_NODE"
  /\ Updates(o, [task[o] EXCEPT !.st = "ARRIVED_AT_NODE"])

HandoffReads(c, o) ==
  /\ HasTask(o)
  /\ CanMove(o, HandoffFor(o))
  /\ Reads(c, "handoff", o, Nothing)

MoveToHandoff(c) ==
  /\ call[c].op = "handoff"
  /\ Writes(c, [task[call[c].o] EXCEPT !.st = HandoffFor(call[c].o)])

-----------------------------------------------------------------------------
(* Delivery.                                                               *)

AssignRiderReads(c, o) ==
  /\ HasTask(o)
  /\ method[o] = "DELIVERY"
  /\ task[o].st = "READY_FOR_DISPATCH"
  /\ Reads(c, "assignRider", o, Nothing)

AssignRider(c) ==
  /\ call[c].op = "assignRider"
  /\ Writes(c, [task[call[c].o] EXCEPT !.rider = TRUE])

\* A fresh code replaces the one in force.
Minted(row) == [row EXCEPT !.code = row.issued + 1, !.issued = @ + 1]

\* With the rider assigned before, or named now.
HandToRider(o) ==
  /\ HasTask(o)
  /\ method[o] = "DELIVERY"
  /\ task[o].st \in {"ARRIVED_AT_NODE", "READY_FOR_DISPATCH"}
  /\ task[o].issued < MaxCodes
  /\ Updates(o, [Minted(task[o]) EXCEPT !.st = "OUT_FOR_DELIVERY",
                                        !.rider = TRUE])

ResendReads(c, o) ==
  /\ HasTask(o)
  /\ task[o].st = "OUT_FOR_DELIVERY"
  /\ Reads(c, "resend", o, Nothing)

ResendDeliveryCode(c) ==
  /\ call[c].op = "resend"
  /\ task[call[c].o].issued < MaxCodes
  /\ Writes(c, Minted(task[call[c].o]))

FailReads(c, o) ==
  /\ HasTask(o)
  /\ CanMove(o, "DELIVERY_FAILED")
  /\ Reads(c, "fail", o, Nothing)

MarkDeliveryFailed(c) ==
  /\ call[c].op = "fail"
  /\ Writes(c, [task[call[c].o] EXCEPT !.st = "DELIVERY_FAILED", !.code = 0])

\* Both ways back read the task once more in their transaction, and lock nothing.
ReturnReads(c, o) ==
  /\ HasTask(o)
  /\ \/ CanMove(o, "RETURNING_TO_NODE") /\ Reads(c, "return", o, Nothing)
     \/ CanMove(o, "ARRIVED_AT_NODE") /\ Reads(c, "returned", o, Nothing)

StartReturnToNode(c) ==
  /\ call[c].op = "return"
  /\ Writes(c, [task[call[c].o] EXCEPT !.st = "RETURNING_TO_NODE"])

ConfirmReturnAtNode(c) ==
  /\ call[c].op = "returned"
  /\ Writes(c, [task[call[c].o] EXCEPT !.st = "ARRIVED_AT_NODE", !.rider = FALSE])

-----------------------------------------------------------------------------
(* Completion.                                                             *)

\* The right code is read out: a transaction of its own, that writes nothing.
VerifyCode(c, o) ==
  /\ HasTask(o)
  /\ AtHandover(o)
  /\ method[o] = "DELIVERY" => task[o].code # 0
  /\ Reads(c, "handover", o, [Nothing EXCEPT !.code = task[o].code])

Delivers(o) ==
  /\ Live(o)
  /\ Owned(o, "PACKED")
  /\ ItemsMove(o, "DELIVERED")
  /\ order' = [order EXCEPT ![o] = "COMPLETED"]

CompleteOrder(c) ==
  LET o == call[c].o IN
  /\ call[c].op = "handover"
  /\ AtHandover(o)
  /\ Delivers(o)
  /\ task' = [task EXCEPT ![o].st = "COMPLETED", ![o].code = 0]
  /\ Ends(c)
  /\ UNCHANGED <<fixedVars, node, verified>>

\* By a super admin, for a parcel that is sealed and not on its way back.
CompleteWithoutCode(o) ==
  /\ HasTask(o)
  /\ task[o].st \in OnTheWay
  /\ Delivers(o)
  /\ task' = [task EXCEPT ![o].st = "COMPLETED"]
  /\ UNCHANGED <<fixedVars, node, verified, call>>

-----------------------------------------------------------------------------
(* Exceptions, write-off and refund.                                       *)

ExceptionReads(c, o) ==
  /\ HasTask(o)
  /\ CanMarkException(o)
  /\ Reads(c, "exception", o, [Nothing EXCEPT !.st = task[o].st])

MarkException(c) ==
  /\ call[c].op = "exception"
  /\ Writes(c, [task[call[c].o] EXCEPT !.st = "EXCEPTION",
                                       !.from = call[c].st])

ResolveReads(c, o) ==
  /\ HasTask(o)
  /\ CanResolve(o)
  /\ order[o] \notin {"CANCELLED", "REFUNDED"}
  /\ Reads(c, "resolve", o, [Nothing EXCEPT !.st = task[o].from])

ResolveException(c) ==
  /\ call[c].op = "resolve"
  /\ task[call[c].o].st = "EXCEPTION"
  /\ Writes(c, [task[call[c].o] EXCEPT !.st = call[c].st, !.from = None])

CanWriteOffAny(o) ==         \* fault: a completed order is written off too
  order[o] \notin {"AWAITING", "CANCELLED", "REFUNDED"}
CanWriteOff(o) ==
  order[o] \notin {"AWAITING", "COMPLETED", "CANCELLED", "REFUNDED"}

WriteOff(o, outcome) ==
  /\ CanWriteOff(o)
  /\ order' = [order EXCEPT ![o] = "CANCELLED"]
  /\ inv' = [g \in Garments |->
       IF g \in items[o] /\ inv[g] \in {"PAID", "PICKED", "PACKED"}
       THEN outcome ELSE inv[g]]
  /\ task' = IF HasTask(o)
             THEN [task EXCEPT ![o].st = "EXCEPTION", ![o].from = None]
             ELSE task
  /\ UNCHANGED <<fixedVars, node, verified, call>>

\* The refund that reaches what was paid; an earlier one changes no status.
RecordRefund(o) ==
  /\ order[o] \notin {"AWAITING", "REFUNDED"}
  /\ order' = [order EXCEPT ![o] = "REFUNDED"]
  /\ UNCHANGED <<inv, fixedVars, node, verified, task, call>>

-----------------------------------------------------------------------------
Init ==
  /\ order \in [Orders -> {"AWAITING", "DEPOSIT_EXPIRED", "PAID"}]
  /\ items \in [Orders -> SUBSET Garments \ {{}}]
  /\ method \in [Orders -> {"PICKUP", "DELIVERY"}]
  /\ node \in [Orders -> Nodes \cup {None}]
  /\ inv = [g \in Garments |->
              IF \E o \in Orders : order[o] = "PAID" /\ g \in items[o]
              THEN "PAID" ELSE "AVAILABLE"]
  /\ verified = [o \in Orders |-> {}]
  /\ task = [o \in Orders |-> IF order[o] = "PAID" THEN NewTask(node[o]) ELSE None]
  /\ call = [c \in Calls |-> Idle]

Work(o) ==
  \/ Settle(o)
  \/ \E e \in Staff : \/ ReassignPicker(o, e) \/ ReassignPacker(o, e)
                       \/ CompletePacking(o, e)
                       \/ \E g \in Garments : ScanItem(o, g, e)
  \/ \E n \in Nodes : AssignNode(o, n)
  \/ PrintLabel(o) \/ ReceiveAtNode(o) \/ HandToRider(o)
  \/ CompleteWithoutCode(o)
  \/ \E outcome \in {"AVAILABLE", "LOST"} : WriteOff(o, outcome)
  \/ RecordRefund(o)

Read(c, o) ==
  \/ \E e \in Staff : \/ AssignPickerReads(c, o, e) \/ ClaimReads(c, o, e)
                       \/ AssignPackerReads(c, o, e)
                       \/ \E actor \in Staff : StartPackingReads(c, o, actor, e)
  \/ SendReads(c, o) \/ HandoffReads(c, o) \/ AssignRiderReads(c, o)
  \/ ResendReads(c, o) \/ FailReads(c, o) \/ ReturnReads(c, o) \/ VerifyCode(c, o)
  \/ ExceptionReads(c, o) \/ ResolveReads(c, o)

Write(c) ==
  \/ AssignPicker(c) \/ Claim(c) \/ AssignPacker(c) \/ StartPacking(c)
  \/ Send(c) \/ MoveToHandoff(c) \/ AssignRider(c) \/ ResendDeliveryCode(c)
  \/ MarkDeliveryFailed(c) \/ StartReturnToNode(c) \/ ConfirmReturnAtNode(c)
  \/ CompleteOrder(c) \/ MarkException(c)
  \/ ResolveException(c) \/ CallDies(c)

Next ==
  \/ \E o \in Orders : Work(o)
  \/ \E c \in Calls : Write(c) \/ \E o \in Orders : Read(c, o)

Spec == Init /\ [][Next]_vars

-----------------------------------------------------------------------------
(* Properties.                                                             *)

\* Every row has its columns.
ColumnsOK ==
  /\ order \in [Orders -> OrderStatus]
  /\ inv \in [Garments -> StockStatus]
  /\ items \in [Orders -> SUBSET Garments]
  /\ method \in [Orders -> {"PICKUP", "DELIVERY"}]
  /\ node \in [Orders -> Nodes \cup {None}]
  /\ verified \in [Orders -> SUBSET Garments]
  /\ task \in [Orders -> Task \cup {None}]
  /\ call \in [Calls -> Call]

\* Every row has its columns and, whatever order stale writes arrive in, the
\* task of an order that is still to be served can leave an exception: there is
\* a step to return to (resolveException).  The task of an order that was
\* written off may stand in EXCEPTION without one (writeOff).
TypeOK ==
  /\ ColumnsOK
  /\ \A o \in Orders :
       HasTask(o) /\ Live(o) /\ task[o].st = "EXCEPTION" => CanResolve(o)

\* A garment that was picked or packed is listed by one paid order at most: when
\* the same garment was sold twice, neither order gets past picking before the
\* other is closed (assertOwnedInventory), and a later payment does not join in.
ParcelHasOneOwner ==
  \A a, b \in Orders : \A g \in items[a] \cap items[b] :
    a # b /\ Live(a) /\ Live(b) => inv[g] \notin {"PICKED", "PACKED"}

\* A garment is DELIVERED when and only when an order that lists it was
\* completed: no write-off, refund or second order separates the two
\* (completeOrder, writeOff, recordRefund).
DeliveredWithItsOrder ==
  /\ \A o \in Orders : order[o] = "COMPLETED" =>
       \A g \in items[o] : inv[g] = "DELIVERED"
  /\ \A g \in Garments : inv[g] = "DELIVERED" =>
       \E o \in Orders : g \in items[o] /\ order[o] \in {"COMPLETED", "REFUNDED"}

\* A parcel that can be packed is somebody's, and one that is sealed was started
\* by somebody, or packing would be stopped for everyone without the permission
\* to assign it: through takeovers, stale claims and resolved exceptions.
PackingIsAssigned ==
  \A o \in Orders : HasTask(o) =>
    /\ task[o].st = "READY_TO_PACK" => task[o].packer # None
    /\ task[o].st \in Sealed => task[o].started # None

Reached(o) == IF HasTask(o) THEN {task[o].st, task[o].from} ELSE {}

\* However a task comes back to a step past picking - a stale hand-off, an
\* exception resolved to an old step - every garment of it has been scanned.
SealedMeansVerified ==
  \A o \in Orders :
    Reached(o) \cap (Sealed \cup {"READY_TO_PACK"}) # {} => verified[o] = items[o]

\* The garments of a paid order whose parcel is sealed are PACKED, and of one
\* that is picked PICKED or PACKED, unless a closed order lists them too: tasks
\* and stock are written by different handlers, some from a stale read.
StockFollowsTheTask ==
  \A o \in Orders, g \in Garments :
    Live(o) /\ g \in items[o] =>
      \/ \E other \in Orders \ {o} :
           g \in items[other] /\ order[other] \in {"CANCELLED", "REFUNDED"}
      \/ /\ Reached(o) \cap Sealed # {} => inv[g] = "PACKED"
         /\ verified[o] = items[o] => inv[g] \in {"PICKED", "PACKED"}

\* A pickup order is never on the road with a rider and a delivery is never on
\* the pickup shelf, whatever step an exception or a stale hand-off puts back
\* ("Pickup and delivery paths are mutually exclusive").
PathsAreExclusive ==
  \A o \in Orders :
    Reached(o) \cap (IF method[o] = "DELIVERY" THEN {"READY_FOR_PICKUP"}
                     ELSE {"READY_FOR_DISPATCH", "OUT_FOR_DELIVERY",
                           "DELIVERY_FAILED", "RETURNING_TO_NODE"}) = {}

\* A completed, cancelled or refunded order is never taken up again, by no
\* claim or handover that was started before it was closed.
ClosedStaysClosed ==
  [][\A o \in Orders :
       /\ order[o] = "COMPLETED" => order'[o] \in {"COMPLETED", "REFUNDED"}
       /\ order[o] = "CANCELLED" => order'[o] \in {"CANCELLED", "REFUNDED"}
       /\ order[o] = "REFUNDED" => order'[o] = "REFUNDED"]_vars

P == INSTANCE Parcels

\* With tasks, scans and requests hidden, fulfilment moves whole parcels of one
\* order at a time (Parcels).
ImplementsParcels == P!Spec

-----------------------------------------------------------------------------
(* What the sources say of fulfilment and a stale write disproves.         *)

\* "A completed order cannot be moved to fulfillment exception": nor anywhere
\* else.  An exception read before the handover is written after it.
CompletedTaskStays ==
  [][\A o \in Orders :
       HasTask(o) /\ task[o].st = "COMPLETED" => task'[o].st = "COMPLETED"]_vars

\* "A cancelled or refunded order cannot re-enter fulfillment": an exception
\* that is resolved, or a hand-off, was read before the write-off.
ClosedOrderStaysOut ==
  [][\A o \in Orders :
       (order[o] \in {"CANCELLED", "REFUNDED"} /\ HasTask(o)
          /\ task[o].st = "EXCEPTION") => task'[o].st = "EXCEPTION"]_vars

\* "A code is one-time: it is dead once the order completes, once the delivery
\* fails, and once a replacement is issued": a delivery is not completed on a
\* code that was replaced after it was verified.
SpentCodeClosesNothing ==
  [][\A c \in Calls :
       call[c].op = "handover" /\ CompleteOrder(c)
         => call[c].code = task[call[c].o].code \/ method[call[c].o] = "PICKUP"]_vars

\* A crash or a race must not "leave a package out for delivery with no code the
\* customer could ever read out".
OutForDeliveryHasCode ==
  \A o \in Orders :
    HasTask(o) /\ task[o].st = "OUT_FOR_DELIVERY" => task[o].code # 0

\* "Re-checked under the lock: a re-route in between clears the flag": the sheet
\* that was printed names the store the parcel is sent to.
StickerNamesTheRecord ==
  \A o \in Orders :
    HasTask(o) /\ task[o].st = "IN_TRANSIT_TO_NODE" =>
      task[o].printed \in {None, task[o].label}

\* "A task belongs to whoever claimed it [...] Only a supervisor can move it, a
\* reason is required": a second claim does not take it over.
ClaimStays ==
  [][\A o \in Orders, c \in Calls :
       (HasTask(o) /\ task[o].st = "PICKING" /\ task[o].picker # None
          /\ call[c].op = "claim" /\ call[c].o = o /\ Claim(c))
         => task'[o].picker = task[o].picker]_vars

\* An order leaves picking "when its last garment is verified": what is being
\* picked has something left to scan.
PickingHasWorkLeft ==
  \A o \in Orders :
    HasTask(o) /\ Live(o) /\ task[o].st = "PICKING" => verified[o] # items[o]

\* "A re-route keeps the code too": a package code is never replaced.
RerouteKeepsCode ==
  [][\A o \in Orders :
       HasTask(o) /\ task[o].label # None => task'[o].label = task[o].label]_vars
=============================================================================
