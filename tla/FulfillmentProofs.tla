------------------------- MODULE FulfillmentProofs --------------------------
(***************************************************************************)
(* Theorems about Fulfillment, for any number of orders, garments, staff,  *)
(* nodes and requests.  The steps are first shown to be steps of Parcels;  *)
(* what Parcels guarantees then holds of Fulfillment.                      *)
(***************************************************************************)
EXTENDS Fulfillment, TLAPS

\* A request that has read holds on to an order with a task, and a resolution
\* to a step on record: its write can neither make a task out of nothing nor
\* leave one without a status.
RequestsAreGrounded ==
  \A c \in Calls : call[c] # Idle =>
    /\ task[call[c].o] \in Task
    /\ call[c].op = "resolve" => call[c].st # None

IInv == ColumnsOK /\ RequestsAreGrounded

-----------------------------------------------------------------------------
(* Types.                                                                  *)

\* A request in progress is a record of what was read.
LEMMA RequestFields ==
  ASSUME IInv, NEW c \in Calls, call[c] # Idle
  PROVE  /\ call[c].op \in Twofold
         /\ call[c].o \in Orders
         /\ call[c].by \in Staff \cup {None}
         /\ call[c].st \in FulfillmentStatus \cup {None}
         /\ call[c].at \in Nodes \cup {None}
         /\ call[c].label \in Stores \cup {None}
         /\ call[c].code \in 0..MaxCodes
         /\ task[call[c].o] \in Task
  BY DEF IInv, ColumnsOK, RequestsAreGrounded, Call

\* A step that keeps rows rows, and starts no request, keeps the invariant.
LEMMA RowsKeepIInv ==
  ASSUME IInv, UNCHANGED fixedVars,
         order' \in [Orders -> OrderStatus], inv' \in [Garments -> StockStatus],
         node' \in [Orders -> Nodes \cup {None}],
         verified' \in [Orders -> SUBSET Garments],
         task' \in [Orders -> Task \cup {None}],
         \A x \in Orders : task[x] \in Task => task'[x] \in Task,
         call' \in [Calls -> Call],
         \A d \in Calls : call'[d] = call[d] \/ call'[d] = Idle
  PROVE  IInv'
<1>1. ColumnsOK'
  BY DEF IInv, ColumnsOK, fixedVars
<1>2. RequestsAreGrounded'
  <2> SUFFICES ASSUME NEW d \in Calls, call'[d] # Idle
               PROVE  /\ task'[call'[d].o] \in Task
                      /\ call'[d].op = "resolve" => call'[d].st # None
    BY DEF RequestsAreGrounded
  <2>1. call'[d] = call[d] /\ call[d] # Idle
    OBVIOUS
  <2>2. call[d].o \in Orders /\ task[call[d].o] \in Task
    BY <2>1, RequestFields
  <2> QED
    BY <2>1, <2>2 DEF IInv, RequestsAreGrounded
<1> QED
  BY <1>1, <1>2 DEF IInv

\* One row is written, and a request ends or none does.
LEMMA RowKeepsIInv ==
  ASSUME IInv, NEW o \in Orders, NEW row \in Task, task' = [task EXCEPT ![o] = row],
         UNCHANGED call \/ \E c \in Calls : Ends(c),
         order' \in [Orders -> OrderStatus], inv' \in [Garments -> StockStatus],
         node' \in [Orders -> Nodes \cup {None}],
         verified' \in [Orders -> SUBSET Garments], UNCHANGED fixedVars
  PROVE  IInv'
<1>1. task' \in [Orders -> Task \cup {None}] /\ \A x \in Orders :
        task[x] \in Task => task'[x] \in Task
  BY DEF IInv, ColumnsOK
<1>2. call' \in [Calls -> Call] /\ \A d \in Calls :
        call'[d] = call[d] \/ call'[d] = Idle
  BY DEF Ends, IInv, ColumnsOK, Call
<1> QED
  BY <1>1, <1>2, RowsKeepIInv

\* The write of a request.
LEMMA WritesKeepsIInv ==
  ASSUME IInv, NEW c \in Calls, call[c] # Idle, NEW row \in Task, Writes(c, row)
  PROVE  IInv'
<1>1. call[c].o \in Orders
  BY RequestFields
<1> QED
  BY <1>1, RowKeepsIInv DEF Writes, stockVars, IInv, ColumnsOK

\* A handler that writes one task in one step.
LEMMA UpdatesKeepsIInv ==
  ASSUME IInv, NEW o \in Orders, NEW row \in Task, Updates(o, row)
  PROVE  IInv'
  BY RowKeepsIInv DEF Updates, stockVars, IInv, ColumnsOK

\* What a request reads has the type of the columns it reads.
LEMMA ReadsKeepsIInv ==
  ASSUME IInv, NEW c \in Calls, NEW o \in Orders, NEW op \in Twofold, NEW read,
         HasTask(o), Reads(c, op, o, read),
         read.by \in Staff \cup {None}, read.st \in FulfillmentStatus \cup {None},
         read.at \in Nodes \cup {None}, read.label \in Stores \cup {None},
         read.code \in 0..MaxCodes, op = "resolve" => read.st # None
  PROVE  IInv'
<1> DEFINE new == [op |-> op, o |-> o, by |-> read.by, st |-> read.st,
                   at |-> read.at, label |-> read.label, code |-> read.code]
<1>1. new \in Call
  BY DEF Call
<1>2. call' \in [Calls -> Call] /\ \A d \in Calls :
        call'[d] = IF d = c THEN new ELSE call[d]
  BY <1>1 DEF Reads, IInv, ColumnsOK
<1>3. ColumnsOK'
  BY <1>2 DEF Reads, IInv, ColumnsOK, stockVars, fixedVars
<1>4. task[o] \in Task
  BY DEF HasTask, IInv, ColumnsOK
<1>5. RequestsAreGrounded'
  BY <1>2, <1>4 DEF Reads, IInv, RequestsAreGrounded
<1> QED
  BY <1>3, <1>5 DEF IInv

\* A task that is there is a row with its columns.
LEMMA TaskIsRow ==
  ASSUME IInv, NEW o \in Orders, HasTask(o)
  PROVE  task[o] \in Task
  BY DEF IInv, ColumnsOK, HasTask

\* A system that has just started has no request in progress.
LEMMA InitIInv == Init => IInv
<1> SUFFICES ASSUME Init PROVE IInv
  OBVIOUS
<1> USE FulfillmentAssumption
<1>1. ASSUME NEW n \in Nodes \cup {None} PROVE NewTask(n) \in Task
  BY DEF NewTask, Task, FulfillmentStatus
<1>2. task \in [Orders -> Task \cup {None}]
  BY <1>1 DEF Init
<1>3. call \in [Calls -> Call] /\ \A c \in Calls : call[c] = Idle
  BY DEF Init, Call
<1> QED
  BY <1>2, <1>3 DEF Init, IInv, ColumnsOK, RequestsAreGrounded, OrderStatus, StockStatus

-----------------------------------------------------------------------------
(* One lemma per part of Next: what is read, what a request writes, and     *)
(* what is one step.                                                       *)

\* The first half of a request: what it keeps has been read from a task.
LEMMA ReadKeepsIInv ==
  ASSUME IInv, NEW c \in Calls, NEW o \in Orders, Read(c, o)
  PROVE  IInv'
<1> USE FulfillmentAssumption
<1>0. HasTask(o) => task[o] \in Task
  BY TaskIsRow
<1>1. /\ None \in Staff \cup {None} /\ None \in FulfillmentStatus \cup {None}
      /\ None \in Nodes \cup {None} /\ None \in Stores \cup {None} /\ 0 \in 0..MaxCodes
  OBVIOUS
<1>2. ASSUME NEW e \in Staff,
             AssignPickerReads(c, o, e) \/ ClaimReads(c, o, e)
               \/ AssignPackerReads(c, o, e)
               \/ \E actor \in Staff : StartPackingReads(c, o, actor, e)
      PROVE  IInv'
  <2>1. HasTask(o) /\ \E op \in {"assignPicker", "claim", "assignPacker",
                                 "startPacking"} : Reads(c, op, o, By(e))
    BY <1>2 DEF AssignPickerReads, ClaimReads, AssignPackerReads, StartPackingReads
  <2>2. By(e) = [by |-> e, st |-> None, at |-> None, label |-> None, code |-> 0]
    BY DEF By, Nothing
  <2> QED
    BY <1>1, <2>1, <2>2, ReadsKeepsIInv DEF Twofold
<1>3. ASSUME HandoffReads(c, o) \/ AssignRiderReads(c, o) \/ ResendReads(c, o)
               \/ FailReads(c, o) \/ ReturnReads(c, o)
      PROVE  IInv'
  <2>1. HasTask(o) /\ \E op \in {"handoff", "assignRider", "resend", "fail",
                                 "return", "returned"} : Reads(c, op, o, Nothing)
    BY <1>3 DEF HandoffReads, AssignRiderReads, ResendReads, FailReads, ReturnReads
  <2> QED
    BY <1>1, <2>1, ReadsKeepsIInv DEF Twofold, Nothing
<1>4. CASE SendReads(c, o)
  <2> DEFINE read == [Nothing EXCEPT !.at = node[o], !.label = task[o].label]
  <2>1. HasTask(o) /\ Reads(c, "send", o, read) /\ node[o] \in Stores
    BY <1>4 DEF SendReads
  <2>2. task[o].label \in Stores \cup {None}
    BY <1>0, <2>1 DEF Task
  <2> DEFINE half == [Nothing EXCEPT !.at = node[o]]
  <2>3. half = [by |-> None, st |-> None, at |-> node[o], label |-> None, code |-> 0]
    BY DEF Nothing
  <2>4. read = [half EXCEPT !.label = task[o].label]
    OBVIOUS
  <2> HIDE DEF half
  <2>5. read = [by |-> None, st |-> None, at |-> node[o], label |-> task[o].label,
                code |-> 0]
    BY <2>3, <2>4
  <2> QED
    BY <1>1, <2>1, <2>2, <2>5, ReadsKeepsIInv DEF Twofold
<1>5. CASE VerifyCode(c, o)
  <2> DEFINE read == [Nothing EXCEPT !.code = task[o].code]
  <2>1. HasTask(o) /\ Reads(c, "handover", o, read)
    BY <1>5 DEF VerifyCode
  <2>2. task[o].code \in 0..MaxCodes
    BY <1>0, <2>1 DEF Task
  <2>3. read = [by |-> None, st |-> None, at |-> None, label |-> None,
                code |-> task[o].code]
    BY DEF Nothing
  <2> QED
    BY <1>1, <2>1, <2>2, <2>3, ReadsKeepsIInv DEF Twofold
<1>6. CASE ExceptionReads(c, o)
  <2> DEFINE read == [Nothing EXCEPT !.st = task[o].st]
  <2>1. HasTask(o) /\ Reads(c, "exception", o, read)
    BY <1>6 DEF ExceptionReads
  <2>2. task[o].st \in FulfillmentStatus
    BY <1>0, <2>1 DEF Task
  <2>3. read = [by |-> None, st |-> task[o].st, at |-> None, label |-> None,
                code |-> 0]
    BY DEF Nothing
  <2> QED
    BY <1>1, <2>1, <2>2, <2>3, ReadsKeepsIInv DEF Twofold
<1>7. CASE ResolveReads(c, o)
  <2> DEFINE read == [Nothing EXCEPT !.st = task[o].from]
  <2>1. HasTask(o) /\ Reads(c, "resolve", o, read) /\ task[o].from # None
    BY <1>7 DEF ResolveReads, CanResolve
  <2>2. task[o].from \in FulfillmentStatus \cup {None}
    BY <1>0, <2>1 DEF Task
  <2>3. read = [by |-> None, st |-> task[o].from, at |-> None, label |-> None,
                code |-> 0]
    BY DEF Nothing
  <2> QED
    BY <1>1, <2>1, <2>2, <2>3, ReadsKeepsIInv DEF Twofold
<1> QED
  BY <1>2, <1>3, <1>4, <1>5, <1>6, <1>7 DEF Read

\* A code is minted while there is one left.
LEMMA MintedIsRow ==
  ASSUME NEW row \in Task, row.issued < MaxCodes
  PROVE  Minted(row) \in Task
<1> DEFINE next == row.issued + 1
<1>1. next \in 0..MaxCodes
  BY FulfillmentAssumption DEF Task
<1>2. Minted(row) = [row EXCEPT !.code = next, !.issued = next]
  BY DEF Minted
<1> HIDE DEF next
<1> QED
  BY <1>1, <1>2 DEF Task

\* The second half of a request, whatever happened since it read.
LEMMA WriteKeepsIInv ==
  ASSUME IInv, NEW c \in Calls, Write(c)
  PROVE  IInv'
<1> USE FulfillmentAssumption
<1> DEFINE o == call[c].o
           t == task[o]
<1>0. /\ call[c].op # "idle" => call[c] # Idle
      /\ call[c] # Idle => o \in Orders /\ t \in Task
  BY RequestFields DEF Idle
<1>1. CASE AssignPicker(c)
  <2> DEFINE row == [t EXCEPT !.picker = call[c].by]
  <2>1. call[c] # Idle /\ Writes(c, row)
    BY <1>0, <1>1 DEF AssignPicker
  <2>2. row \in Task
    BY <1>0, <1>1, <2>1, RequestFields DEF AssignPicker, Task
  <2> QED
    BY <2>1, <2>2, WritesKeepsIInv
<1>2. CASE AssignPacker(c)
  <2> DEFINE row == [t EXCEPT !.packer = call[c].by]
  <2>1. call[c] # Idle /\ Writes(c, row)
    BY <1>0, <1>2 DEF AssignPacker
  <2>2. row \in Task
    BY <1>0, <1>2, <2>1, RequestFields DEF AssignPacker, Task
  <2> QED
    BY <2>1, <2>2, WritesKeepsIInv
<1>3. CASE StartPacking(c)
  <2> DEFINE row == [t EXCEPT !.started = call[c].by]
  <2>1. call[c] # Idle /\ Writes(c, row)
    BY <1>0, <1>3 DEF StartPacking
  <2>2. row \in Task
    BY <1>0, <1>3, <2>1, RequestFields DEF StartPacking, Task
  <2> QED
    BY <2>1, <2>2, WritesKeepsIInv
<1>4. CASE Send(c)
  <2> DEFINE row == [t EXCEPT !.st = "IN_TRANSIT_TO_NODE", !.node = call[c].at,
                              !.label = call[c].label]
  <2>1. call[c] # Idle /\ Writes(c, row)
    BY <1>0, <1>4 DEF Send
  <2>0. t \in Task /\ call[c].at \in Nodes \cup {None} /\ call[c].label \in Stores \cup {None}
    BY <1>0, <2>1, RequestFields
  <2>2. row \in Task
    BY <2>0, ZenonT(30) DEF Task, FulfillmentStatus, Sealed, OnTheWay
  <2> QED
    BY <2>1, <2>2, WritesKeepsIInv
<1>5. CASE MoveToHandoff(c)
  <2> DEFINE row == [t EXCEPT !.st = HandoffFor(o)]
  <2>1. call[c] # Idle /\ Writes(c, row)
    BY <1>0, <1>5 DEF MoveToHandoff
  <2>2. row \in Task
    BY <1>0, <1>5, <2>1, RequestFields, SMTT(30)
       DEF MoveToHandoff, Task, FulfillmentStatus, Sealed, OnTheWay, Handoffs, HandoffFor
  <2> QED
    BY <2>1, <2>2, WritesKeepsIInv
<1>6. CASE AssignRider(c)
  <2> DEFINE row == [t EXCEPT !.rider = TRUE]
  <2>1. call[c] # Idle /\ Writes(c, row)
    BY <1>0, <1>6 DEF AssignRider
  <2>2. row \in Task
    BY <1>0, <1>6, <2>1, RequestFields DEF AssignRider, Task
  <2> QED
    BY <2>1, <2>2, WritesKeepsIInv
<1>7. CASE MarkDeliveryFailed(c)
  <2> DEFINE row == [t EXCEPT !.st = "DELIVERY_FAILED", !.code = 0]
  <2>1. call[c] # Idle /\ Writes(c, row)
    BY <1>0, <1>7 DEF MarkDeliveryFailed
  <2>0. t \in Task /\ 0 \in 0..MaxCodes
    BY <1>0, <2>1
  <2>2. row \in Task
    BY <2>0 DEF Task, FulfillmentStatus, Sealed
  <2> QED
    BY <2>1, <2>2, WritesKeepsIInv
<1>8. CASE StartReturnToNode(c)
  <2> DEFINE row == [t EXCEPT !.st = "RETURNING_TO_NODE"]
  <2>1. call[c] # Idle /\ Writes(c, row)
    BY <1>0, <1>8 DEF StartReturnToNode
  <2>2. row \in Task
    BY <1>0, <1>8, <2>1, RequestFields DEF StartReturnToNode, Task, FulfillmentStatus, Sealed, OnTheWay
  <2> QED
    BY <2>1, <2>2, WritesKeepsIInv
<1>9. CASE ConfirmReturnAtNode(c)
  <2> DEFINE row == [t EXCEPT !.st = "ARRIVED_AT_NODE", !.rider = FALSE]
  <2>1. call[c] # Idle /\ Writes(c, row)
    BY <1>0, <1>9 DEF ConfirmReturnAtNode
  <2>2. row \in Task
    BY <1>0, <1>9, <2>1, RequestFields DEF ConfirmReturnAtNode, Task, FulfillmentStatus, Sealed, OnTheWay
  <2> QED
    BY <2>1, <2>2, WritesKeepsIInv
<1>10. CASE MarkException(c)
  <2> DEFINE row == [t EXCEPT !.st = "EXCEPTION", !.from = call[c].st]
  <2>1. call[c] # Idle /\ Writes(c, row)
    BY <1>0, <1>10 DEF MarkException
  <2>0. t \in Task /\ call[c].st \in FulfillmentStatus \cup {None}
    BY <1>0, <2>1, RequestFields
  <2>2. row \in Task
    BY <2>0 DEF Task, FulfillmentStatus
  <2> QED
    BY <2>1, <2>2, WritesKeepsIInv
<1>11. CASE ResolveException(c)
  <2> DEFINE row == [t EXCEPT !.st = call[c].st, !.from = None]
  <2>1. call[c] # Idle /\ Writes(c, row)
    BY <1>0, <1>11 DEF ResolveException
  <2>0. t \in Task /\ call[c].st \in FulfillmentStatus
    BY <1>0, <1>11, <2>1, RequestFields DEF ResolveException, IInv, RequestsAreGrounded
  <2>2. row \in Task
    BY <2>0 DEF Task
  <2> QED
    BY <2>1, <2>2, WritesKeepsIInv
<1>12. CASE ResendDeliveryCode(c)
  <2>1. call[c] # Idle /\ Writes(c, Minted(t)) /\ t.issued < MaxCodes
    BY <1>0, <1>12 DEF ResendDeliveryCode
  <2>2. Minted(t) \in Task
    BY <1>0, <2>1, MintedIsRow
  <2> QED
    BY <2>1, <2>2, WritesKeepsIInv
<1>13. CASE Claim(c)
  <2> DEFINE row == [t EXCEPT !.st = "PICKING", !.picker = call[c].by]
  <2>1. call[c] # Idle /\ Ends(c) /\ UNCHANGED <<inv, fixedVars, node, verified>>
    BY <1>0, <1>13 DEF Claim
  <2>2. row \in Task
    BY <1>0, <2>1, RequestFields DEF Task, FulfillmentStatus
  <2>3. task' = [task EXCEPT ![o] = row]
    BY <1>0, <1>13, <2>1 DEF Claim, IInv, ColumnsOK
  <2>4. order' \in [Orders -> OrderStatus]
    BY <1>13 DEF Claim, IInv, ColumnsOK, OrderStatus
  <2> QED
    BY <1>0, <2>1, <2>2, <2>3, <2>4, RowKeepsIInv DEF IInv, ColumnsOK
<1>14. CASE CompleteOrder(c)
  <2> DEFINE row == [t EXCEPT !.st = "COMPLETED", !.code = 0]
  <2>1. call[c] # Idle /\ Ends(c) /\ UNCHANGED <<fixedVars, node, verified>>
    BY <1>0, <1>14 DEF CompleteOrder
  <2>0. t \in Task /\ 0 \in 0..MaxCodes
    BY <1>0, <2>1
  <2>2. row \in Task
    BY <2>0 DEF Task, FulfillmentStatus, Sealed
  <2>3. task' = [task EXCEPT ![o] = row]
    BY <1>0, <1>14, <2>1 DEF CompleteOrder, IInv, ColumnsOK
  <2>4. order' \in [Orders -> OrderStatus] /\ inv' \in [Garments -> StockStatus]
    BY <1>14 DEF CompleteOrder, Delivers, ItemsMove, IInv, ColumnsOK, OrderStatus, StockStatus
  <2> QED
    BY <1>0, <2>1, <2>2, <2>3, <2>4, RowKeepsIInv DEF IInv, ColumnsOK
<1>15. CASE CallDies(c)
  <2>1. Ends(c) /\ UNCHANGED <<stockVars, fixedVars, node, verified, task>>
    BY <1>15 DEF CallDies
  <2>2. call' \in [Calls -> Call] /\ \A d \in Calls :
          call'[d] = call[d] \/ call'[d] = Idle
    BY <2>1 DEF Ends, IInv, ColumnsOK, Call
  <2> QED
    BY <2>1, <2>2, RowsKeepIInv DEF IInv, ColumnsOK, stockVars
<1> QED
  BY <1>1, <1>2, <1>3, <1>4, <1>5, <1>6, <1>7, <1>8,
     <1>9, <1>10, <1>11, <1>12, <1>13, <1>14, <1>15 DEF Write

\* What is one step of one order.
LEMMA WorkKeepsIInv ==
  ASSUME IInv, NEW o \in Orders, Work(o)
  PROVE  IInv'
<1> USE FulfillmentAssumption
<1> DEFINE t == task[o]
<1>0. HasTask(o) => t \in Task
  BY TaskIsRow
<1>1. CASE Settle(o)
  <2>1. NewTask(node[o]) \in Task
    BY DEF IInv, ColumnsOK, NewTask, Task, FulfillmentStatus
  <2>2. order' \in [Orders -> OrderStatus] /\ inv' \in [Garments -> StockStatus]
    BY <1>1 DEF Settle, IInv, ColumnsOK, OrderStatus, StockStatus
  <2> QED
    BY <1>1, <2>1, <2>2, RowKeepsIInv DEF Settle, IInv, ColumnsOK
<1>2. ASSUME NEW e \in Staff, ReassignPicker(o, e) PROVE IInv'
  <2>1. [t EXCEPT !.picker = e] \in Task
    BY <1>0, <1>2 DEF ReassignPicker, Task
  <2> QED
    BY <1>2, <2>1, UpdatesKeepsIInv DEF ReassignPicker
<1>3. ASSUME NEW e \in Staff, ReassignPacker(o, e) PROVE IInv'
  <2> DEFINE st == IF t.started = None THEN None ELSE e
             row == [t EXCEPT !.packer = e, !.started = st]
  <2>1. t \in Task /\ st \in Staff \cup {None}
    BY <1>0, <1>3 DEF ReassignPacker
  <2>2. Updates(o, row)
    BY <1>3 DEF ReassignPacker
  <2> HIDE DEF st
  <2>3. row \in Task
    BY <2>1 DEF Task
  <2> QED
    BY <2>2, <2>3, UpdatesKeepsIInv
<1>4. ASSUME NEW e \in Staff, CompletePacking(o, e) PROVE IInv'
  <2> DEFINE l == IF t.label = None /\ node[o] \in Stores THEN node[o] ELSE t.label
             n == IF node[o] = None THEN t.node ELSE node[o]
             row == [t EXCEPT !.st = "PACKED", !.label = l, !.node = n]
  <2>1. /\ t \in Task /\ l \in Stores \cup {None}
        /\ n \in Nodes \cup {None}
    BY <1>0, <1>4 DEF CompletePacking, Task, IInv, ColumnsOK
  <2>2. task' = [task EXCEPT ![o] = row]
    BY <1>4 DEF CompletePacking, IInv, ColumnsOK
  <2> HIDE DEF l, n
  <2>3. row \in Task
    BY <2>1 DEF Task, FulfillmentStatus, Sealed, OnTheWay
  <2>4. inv' \in [Garments -> StockStatus]
    BY <1>4 DEF CompletePacking, ItemsMove, IInv, ColumnsOK, StockStatus
  <2> QED
    BY <1>4, <2>2, <2>3, <2>4, RowKeepsIInv DEF CompletePacking, IInv, ColumnsOK
<1>5. ASSUME NEW e \in Staff, NEW g \in Garments, ScanItem(o, g, e) PROVE IInv'
  <2>1. verified' \in [Orders -> SUBSET Garments]
    BY <1>5 DEF ScanItem, IInv, ColumnsOK
  <2>2. CASE UNCHANGED <<inv, task>>
    BY <1>5, <2>1, <2>2, RowsKeepIInv DEF ScanItem, IInv, ColumnsOK
  <2>3. CASE /\ ItemsMove(o, "PICKED")
             /\ task' = [task EXCEPT ![o].st = "READY_TO_PACK",
                                     ![o].packer = PackerAfter(o, e)]
    <3> DEFINE k == PackerAfter(o, e)
               row == [t EXCEPT !.st = "READY_TO_PACK", !.packer = k]
    <3>1. t \in Task /\ k \in Staff \cup {None}
      BY <1>0, <1>5 DEF ScanItem, Task, PackerAfter
    <3>2. task' = [task EXCEPT ![o] = row]
      BY <2>3 DEF IInv, ColumnsOK
    <3> HIDE DEF k
    <3>3. row \in Task
      BY <3>1 DEF Task, FulfillmentStatus
    <3>4. inv' \in [Garments -> StockStatus]
      BY <2>3 DEF ItemsMove, IInv, ColumnsOK, StockStatus
    <3> QED
      BY <1>5, <2>1, <3>2, <3>3, <3>4, RowKeepsIInv DEF ScanItem, IInv, ColumnsOK
  <2> QED
    BY <1>5, <2>2, <2>3 DEF ScanItem
<1>6. ASSUME NEW n \in Nodes, AssignNode(o, n) PROVE IInv'
  <2> DEFINE l == LabelFor(o, n)
             p == IF l = t.label THEN t.printed ELSE None
             row == [t EXCEPT !.node = n, !.label = l, !.printed = p]
  <2>1. t \in Task /\ l \in Stores \cup {None} /\ p \in Stores \cup {None}
    BY <1>0, <1>6 DEF AssignNode, LabelFor, Task
  <2>2. task' = [task EXCEPT ![o] = row]
    BY <1>6 DEF AssignNode, IInv, ColumnsOK
  <2> HIDE DEF l, p
  <2>3. row \in Task
    BY <2>1 DEF Task
  <2>4. node' \in [Orders -> Nodes \cup {None}]
    BY <1>6 DEF AssignNode, IInv, ColumnsOK
  <2> QED
    BY <1>6, <2>2, <2>3, <2>4, RowKeepsIInv DEF AssignNode, stockVars, IInv, ColumnsOK
<1>7. CASE PrintLabel(o)
  <2>1. [t EXCEPT !.printed = t.label] \in Task
    BY <1>0, <1>7 DEF PrintLabel, Task
  <2> QED
    BY <1>7, <2>1, UpdatesKeepsIInv DEF PrintLabel
<1>8. CASE ReceiveAtNode(o)
  <2>0. t \in Task
    BY <1>0, <1>8 DEF ReceiveAtNode
  <2>1. [t EXCEPT !.st = "ARRIVED_AT_NODE"] \in Task
    BY <2>0 DEF Task, FulfillmentStatus, Sealed, OnTheWay
  <2> QED
    BY <1>8, <2>1, UpdatesKeepsIInv DEF ReceiveAtNode
<1>9. CASE HandToRider(o)
  <2> DEFINE half == Minted(t)
             row == [half EXCEPT !.st = "OUT_FOR_DELIVERY", !.rider = TRUE]
  <2>1. half \in Task /\ Updates(o, row)
    BY <1>0, <1>9, MintedIsRow DEF HandToRider
  <2> HIDE DEF half
  <2>2. row \in Task
    BY <2>1 DEF Task, FulfillmentStatus, Sealed, OnTheWay
  <2> QED
    BY <2>1, <2>2, UpdatesKeepsIInv
<1>10. CASE CompleteWithoutCode(o)
  <2> DEFINE row == [t EXCEPT !.st = "COMPLETED"]
  <2>0. t \in Task
    BY <1>0, <1>10 DEF CompleteWithoutCode
  <2>1. row \in Task
    BY <2>0 DEF Task, FulfillmentStatus, Sealed
  <2>2. task' = [task EXCEPT ![o] = row]
    BY <1>10 DEF CompleteWithoutCode, IInv, ColumnsOK
  <2>3. order' \in [Orders -> OrderStatus] /\ inv' \in [Garments -> StockStatus]
    BY <1>10 DEF CompleteWithoutCode, Delivers, ItemsMove, IInv, ColumnsOK, OrderStatus,
                 StockStatus
  <2> QED
    BY <1>10, <2>1, <2>2, <2>3, RowKeepsIInv DEF CompleteWithoutCode, IInv, ColumnsOK
<1>11. ASSUME NEW outcome \in {"AVAILABLE", "LOST"}, WriteOff(o, outcome) PROVE IInv'
  <2>1. order' \in [Orders -> OrderStatus] /\ inv' \in [Garments -> StockStatus]
    BY <1>11 DEF WriteOff, IInv, ColumnsOK, OrderStatus, StockStatus
  <2>2. CASE HasTask(o)
    <3> DEFINE row == [t EXCEPT !.st = "EXCEPTION", !.from = None]
    <3>0. t \in Task
      BY <1>0, <2>2
    <3>1. row \in Task
      BY <3>0 DEF Task, FulfillmentStatus
    <3>2. task' = [task EXCEPT ![o] = row]
      BY <1>11, <2>2 DEF WriteOff, IInv, ColumnsOK
    <3> QED
      BY <1>11, <2>1, <3>1, <3>2, RowKeepsIInv DEF WriteOff, IInv, ColumnsOK
  <2>3. CASE ~HasTask(o)
    BY <1>11, <2>1, <2>3, RowsKeepIInv DEF WriteOff, IInv, ColumnsOK
  <2> QED
    BY <2>2, <2>3
<1>12. CASE RecordRefund(o)
  <2>1. order' \in [Orders -> OrderStatus]
    BY <1>12 DEF RecordRefund, IInv, ColumnsOK, OrderStatus
  <2> QED
    BY <1>12, <2>1, RowsKeepIInv DEF RecordRefund, IInv, ColumnsOK
<1> QED
  BY <1>1, <1>2, <1>3, <1>4, <1>5, <1>6, <1>7, <1>8, <1>9, <1>10, <1>11, <1>12
     DEF Work

\* No step breaks the invariant.
LEMMA NextKeepsIInv == IInv /\ [Next]_vars => IInv'
<1> SUFFICES ASSUME IInv, [Next]_vars PROVE IInv'
  OBVIOUS
<1>1. CASE UNCHANGED vars
  BY <1>1 DEF vars, stockVars, fixedVars, IInv, ColumnsOK, RequestsAreGrounded
<1> QED
  BY <1>1, WorkKeepsIInv, WriteKeepsIInv, ReadKeepsIInv DEF Next

\* The invariant holds in every reachable state.
LEMMA IInvHolds == Spec => []IInv
BY InitIInv, NextKeepsIInv, PTL DEF Spec

-----------------------------------------------------------------------------
(* The way out of an exception.                                            *)

\* A step that a task can go back to.
GoesBackTo(s) == s \notin {None, "EXCEPTION", "COMPLETED"}

\* The task of an order still to be served has a step to go back to, and a
\* request that marks or resolves an exception holds such a step.
ExceptionsEnd ==
  /\ \A o \in Orders :
       HasTask(o) /\ Live(o) /\ task[o].st = "EXCEPTION" => GoesBackTo(task[o].from)
  /\ \A c \in Calls :
       call[c].op \in {"exception", "resolve"} => GoesBackTo(call[c].st)

\* A step that writes one task, and starts no request, keeps it if that task is
\* in no exception, in the one it was in, in one with a step to go back to, or
\* that of an order that is closed.
LEMMA RowKeepsExceptions ==
  ASSUME IInv, ExceptionsEnd, NEW o \in Orders, NEW row,
         task' = [task EXCEPT ![o] = row],
         UNCHANGED call \/ \E c \in Calls : Ends(c),
         \A x \in Orders : Live(x)' => Live(x) \/ x = o,
         \/ row.st # "EXCEPTION" \/ GoesBackTo(row.from) \/ ~Live(o)'
         \/ HasTask(o) /\ row.st = task[o].st /\ row.from = task[o].from /\ Live(o)
  PROVE  ExceptionsEnd'
<1>1. \A x \in Orders : task'[x] = IF x = o THEN row ELSE task[x]
  BY DEF IInv, ColumnsOK
<1>2. \A d \in Calls : call'[d] = call[d] \/ call'[d] = Idle
  BY DEF Ends, IInv, ColumnsOK
<1> QED
  BY <1>1, <1>2 DEF ExceptionsEnd, HasTask, GoesBackTo, Idle

\* The write of a request, which leaves the order as it is.
LEMMA WritesKeepsExceptions ==
  ASSUME IInv, ExceptionsEnd, NEW c \in Calls, call[c] # Idle, NEW row, Writes(c, row),
         \/ row.st # "EXCEPTION" \/ GoesBackTo(row.from)
         \/ row.st = task[call[c].o].st /\ row.from = task[call[c].o].from
  PROVE  ExceptionsEnd'
<1>1. call[c].o \in Orders /\ HasTask(call[c].o)
  BY RequestFields, UnsetAssumption DEF HasTask
<1>2. \A x \in Orders : Live(x)' <=> Live(x)
  BY DEF Writes, stockVars, Live
<1> QED
  BY <1>1, <1>2, RowKeepsExceptions DEF Writes

\* The first half of a request: an exception is marked on a task that is in none
\* and not completed, and resolved to the step on record.
LEMMA ReadKeepsExceptions ==
  ASSUME IInv, ExceptionsEnd, NEW c \in Calls, NEW o \in Orders, Read(c, o)
  PROVE  ExceptionsEnd'
<1>1. ASSUME NEW op, NEW read, Reads(c, op, o, read),
             op \in {"exception", "resolve"} => GoesBackTo(read.st)
      PROVE  ExceptionsEnd'
  <2>1. call' = [call EXCEPT ![c] =
          [op |-> op, o |-> o, by |-> read.by, st |-> read.st,
           at |-> read.at, label |-> read.label, code |-> read.code]]
        /\ UNCHANGED <<task, order>>
    BY <1>1 DEF Reads, stockVars
  <2>2. \A d \in Calls : d # c => call'[d] = call[d]
    BY <2>1
  <2>3. call'[c].op = op /\ call'[c].st = read.st
    BY <2>1 DEF IInv, ColumnsOK
  <2>4. GoesBackTo(call[c].st)' <=> GoesBackTo(call'[c].st)
    BY DEF GoesBackTo
  <2> QED
    BY <1>1, <2>1, <2>2, <2>3 DEF ExceptionsEnd, HasTask, Live, GoesBackTo
<1>2. CASE ExceptionReads(c, o)
  <2> DEFINE read == [Nothing EXCEPT !.st = task[o].st]
  <2>1. Reads(c, "exception", o, read) /\ read.st = task[o].st
    BY <1>2 DEF ExceptionReads, Nothing
  <2>2. task[o] \in Task /\ CanMarkException(o)
    BY <1>2, TaskIsRow DEF ExceptionReads
  <2>3. GoesBackTo(read.st)
    BY <2>1, <2>2, UnsetAssumption DEF GoesBackTo, CanMarkException, Task
  <2> HIDE DEF read
  <2> QED
    BY <1>1, <2>1, <2>3
<1>3. CASE ResolveReads(c, o)
  <2> DEFINE read == [Nothing EXCEPT !.st = task[o].from]
  <2>1. Reads(c, "resolve", o, read) /\ read.st = task[o].from
    BY <1>3 DEF ResolveReads, Nothing
  <2>2. GoesBackTo(read.st)
    BY <1>3, <2>1 DEF ResolveReads, CanResolve, GoesBackTo
  <2> HIDE DEF read
  <2> QED
    BY <1>1, <2>1, <2>2
<1>4. ASSUME ~ExceptionReads(c, o), ~ResolveReads(c, o) PROVE ExceptionsEnd'
  <2>1. PICK op \in Twofold \ {"exception", "resolve"} :
          \E read : Reads(c, op, o, read)
    <3>1. CASE SendReads(c, o) \/ VerifyCode(c, o)
      BY <3>1 DEF SendReads, VerifyCode, Twofold
    <3>2. CASE \/ HandoffReads(c, o) \/ AssignRiderReads(c, o) \/ ResendReads(c, o)
               \/ FailReads(c, o) \/ ReturnReads(c, o)
      BY <3>2 DEF HandoffReads, AssignRiderReads, ResendReads, FailReads, ReturnReads,
                  Twofold
    <3>3. CASE \E e \in Staff :
                 \/ AssignPickerReads(c, o, e) \/ ClaimReads(c, o, e)
                 \/ AssignPackerReads(c, o, e)
                 \/ \E actor \in Staff : StartPackingReads(c, o, actor, e)
      BY <3>3 DEF AssignPickerReads, ClaimReads, AssignPackerReads, StartPackingReads,
                  Twofold
    <3> QED
      BY <1>4, <3>1, <3>2, <3>3 DEF Read
  <2>2. PICK read : Reads(c, op, o, read)
    BY <2>1
  <2> QED
    BY <1>1, <2>1, <2>2
<1> QED
  BY <1>2, <1>3, <1>4

\* The second half of a request: the exception that it marks has the step it
\* read, the one that it resolves is gone, and no other request makes one.
LEMMA WriteKeepsExceptions ==
  ASSUME IInv, ExceptionsEnd, NEW c \in Calls, Write(c)
  PROVE  ExceptionsEnd'
<1> DEFINE o == call[c].o
           t == task[o]
<1>0. /\ call[c].op # "idle" => call[c] # Idle
      /\ call[c] # Idle => o \in Orders /\ t \in Task
  BY RequestFields DEF Idle
<1>1. ASSUME NEW row, call[c] # Idle, Writes(c, row),
             \/ row.st # "EXCEPTION" \/ GoesBackTo(row.from)
             \/ row.st = t.st /\ row.from = t.from
      PROVE  ExceptionsEnd'
  BY <1>1, WritesKeepsExceptions
<1>2. CASE AssignPicker(c)
  <2> DEFINE row == [t EXCEPT !.picker = call[c].by]
  <2>1. call[c] # Idle /\ Writes(c, row) /\ row.st = t.st /\ row.from = t.from
    BY <1>0, <1>2 DEF AssignPicker, Task
  <2> HIDE DEF row
  <2> QED
    BY <1>1, <2>1
<1>3. CASE AssignPacker(c)
  <2> DEFINE row == [t EXCEPT !.packer = call[c].by]
  <2>1. call[c] # Idle /\ Writes(c, row) /\ row.st = t.st /\ row.from = t.from
    BY <1>0, <1>3 DEF AssignPacker, Task
  <2> HIDE DEF row
  <2> QED
    BY <1>1, <2>1
<1>4. CASE StartPacking(c)
  <2> DEFINE row == [t EXCEPT !.started = call[c].by]
  <2>1. call[c] # Idle /\ Writes(c, row) /\ row.st = t.st /\ row.from = t.from
    BY <1>0, <1>4 DEF StartPacking, Task
  <2> HIDE DEF row
  <2> QED
    BY <1>1, <2>1
<1>5. CASE AssignRider(c)
  <2> DEFINE row == [t EXCEPT !.rider = TRUE]
  <2>1. call[c] # Idle /\ Writes(c, row) /\ row.st = t.st /\ row.from = t.from
    BY <1>0, <1>5 DEF AssignRider, Task
  <2> HIDE DEF row
  <2> QED
    BY <1>1, <2>1
<1>6. CASE ResendDeliveryCode(c)
  <2> DEFINE row == Minted(t)
  <2>1. call[c] # Idle /\ Writes(c, row) /\ row.st = t.st /\ row.from = t.from
    BY <1>0, <1>6 DEF ResendDeliveryCode, Minted, Task
  <2> HIDE DEF row
  <2> QED
    BY <1>1, <2>1
<1>7. CASE Send(c)
  <2> DEFINE row == [t EXCEPT !.st = "IN_TRANSIT_TO_NODE", !.node = call[c].at,
                              !.label = call[c].label]
  <2>1. call[c] # Idle /\ Writes(c, row) /\ row.st # "EXCEPTION"
    BY <1>0, <1>7 DEF Send, Task
  <2> HIDE DEF row
  <2> QED
    BY <1>1, <2>1
<1>8. CASE MoveToHandoff(c)
  <2> DEFINE row == [t EXCEPT !.st = HandoffFor(o)]
  <2>1. call[c] # Idle /\ Writes(c, row) /\ row.st # "EXCEPTION"
    BY <1>0, <1>8 DEF MoveToHandoff, HandoffFor, Task
  <2> HIDE DEF row
  <2> QED
    BY <1>1, <2>1
<1>9. CASE MarkDeliveryFailed(c)
  <2> DEFINE row == [t EXCEPT !.st = "DELIVERY_FAILED", !.code = 0]
  <2>1. call[c] # Idle /\ Writes(c, row) /\ row.st # "EXCEPTION"
    BY <1>0, <1>9 DEF MarkDeliveryFailed, Task
  <2> HIDE DEF row
  <2> QED
    BY <1>1, <2>1
<1>10. CASE StartReturnToNode(c)
  <2> DEFINE row == [t EXCEPT !.st = "RETURNING_TO_NODE"]
  <2>1. call[c] # Idle /\ Writes(c, row) /\ row.st # "EXCEPTION"
    BY <1>0, <1>10 DEF StartReturnToNode, Task
  <2> HIDE DEF row
  <2> QED
    BY <1>1, <2>1
<1>11. CASE ConfirmReturnAtNode(c)
  <2> DEFINE row == [t EXCEPT !.st = "ARRIVED_AT_NODE", !.rider = FALSE]
  <2>1. call[c] # Idle /\ Writes(c, row) /\ row.st # "EXCEPTION"
    BY <1>0, <1>11 DEF ConfirmReturnAtNode, Task
  <2> HIDE DEF row
  <2> QED
    BY <1>1, <2>1
<1>12. CASE MarkException(c)
  <2> DEFINE row == [t EXCEPT !.st = "EXCEPTION", !.from = call[c].st]
  <2>1. call[c] # Idle /\ Writes(c, row) /\ GoesBackTo(row.from)
    BY <1>0, <1>12 DEF MarkException, ExceptionsEnd, Task
  <2> HIDE DEF row
  <2> QED
    BY <1>1, <2>1
<1>13. CASE ResolveException(c)
  <2> DEFINE row == [t EXCEPT !.st = call[c].st, !.from = None]
  <2>1. call[c] # Idle /\ Writes(c, row) /\ row.st # "EXCEPTION"
    BY <1>0, <1>13 DEF ResolveException, ExceptionsEnd, GoesBackTo, Task
  <2> HIDE DEF row
  <2> QED
    BY <1>1, <2>1
<1>14. CASE Claim(c) \/ CompleteOrder(c)
  <2>1. call[c] # Idle /\ t \in Task /\ o \in Orders
    BY <1>0, <1>14 DEF Claim, CompleteOrder
  <2>2. PICK row : /\ task' = [task EXCEPT ![o] = row] /\ row.st # "EXCEPTION"
                   /\ Ends(c)
    <3>1. CASE Claim(c)
      <4> DEFINE row == [t EXCEPT !.st = "PICKING", !.picker = call[c].by]
      <4>1. task' = [task EXCEPT ![o] = row] /\ row.st # "EXCEPTION" /\ Ends(c)
        BY <2>1, <3>1 DEF Claim, IInv, ColumnsOK, Task
      <4> QED
        BY <4>1
    <3>2. CASE CompleteOrder(c)
      <4> DEFINE row == [t EXCEPT !.st = "COMPLETED", !.code = 0]
      <4>1. task' = [task EXCEPT ![o] = row] /\ row.st # "EXCEPTION" /\ Ends(c)
        BY <2>1, <3>2 DEF CompleteOrder, IInv, ColumnsOK, Task
      <4> QED
        BY <4>1
    <3> QED
      BY <1>14, <3>1, <3>2
  <2>3. \A x \in Orders : Live(x)' => Live(x) \/ x = o
    BY <1>14 DEF Claim, CompleteOrder, Delivers, Live, IInv, ColumnsOK
  <2> QED
    BY <2>1, <2>2, <2>3, RowKeepsExceptions
<1>15. CASE CallDies(c)
  <2>1. UNCHANGED <<task, order>> /\ \A d \in Calls : call'[d] = call[d] \/ call'[d] = Idle
    BY <1>15 DEF CallDies, Ends, stockVars, IInv, ColumnsOK
  <2> QED
    BY <2>1 DEF ExceptionsEnd, HasTask, Live, GoesBackTo, Idle
<1> QED
  BY <1>2, <1>3, <1>4, <1>5, <1>6, <1>7, <1>8,
     <1>9, <1>10, <1>11, <1>12, <1>13, <1>14, <1>15 DEF Write

\* What is one step of one order: only a write-off makes an exception, of an
\* order that it closes.
LEMMA WorkKeepsExceptions ==
  ASSUME IInv, ExceptionsEnd, NEW o \in Orders, Work(o)
  PROVE  ExceptionsEnd'
<1> DEFINE t == task[o]
<1>0. HasTask(o) => t \in Task
  BY TaskIsRow
<1>1. CASE Settle(o)
  <2>1. NewTask(node[o]).st = "PAID"
    BY DEF NewTask
  <2>2. \A x \in Orders : Live(x)' => Live(x) \/ x = o
    BY <1>1 DEF Settle, Live, IInv, ColumnsOK
  <2> QED
    BY <1>1, <2>1, <2>2, RowKeepsExceptions DEF Settle
<1>2. ASSUME NEW row, UNCHANGED order, UNCHANGED call, HasTask(o),
             task' = [task EXCEPT ![o] = row],
             row.st # "EXCEPTION" \/ (row.st = t.st /\ row.from = t.from)
      PROVE  ExceptionsEnd'
  <2>1. \A x \in Orders : Live(x)' <=> Live(x)
    BY <1>2 DEF Live
  <2> QED
    BY <1>2, <2>1, RowKeepsExceptions
<1>3. ASSUME NEW e \in Staff, ReassignPicker(o, e) PROVE ExceptionsEnd'
  <2> DEFINE row == [t EXCEPT !.picker = e]
  <2>1. HasTask(o) /\ t \in Task
    BY <1>0, <1>3 DEF ReassignPicker
  <2>2. Updates(o, row) /\ row.st = t.st /\ row.from = t.from
    BY <1>3, <2>1 DEF ReassignPicker, Task
  <2>3. PICK new : new = row
    OBVIOUS
  <2> HIDE DEF row
  <2> QED
    BY <1>2, <2>1, <2>2, <2>3 DEF Updates, stockVars
<1>10. ASSUME NEW e \in Staff, ReassignPacker(o, e) PROVE ExceptionsEnd'
  <2> DEFINE row == [t EXCEPT !.packer = e,
                              !.started = IF t.started = None THEN None ELSE e]
  <2>1. HasTask(o) /\ t \in Task
    BY <1>0, <1>10 DEF ReassignPacker
  <2>2. Updates(o, row) /\ row.st = t.st /\ row.from = t.from
    BY <1>10, <2>1 DEF ReassignPacker, Task
  <2>3. PICK new : new = row
    OBVIOUS
  <2> HIDE DEF row
  <2> QED
    BY <1>2, <2>1, <2>2, <2>3 DEF Updates, stockVars
<1>11. ASSUME PrintLabel(o) PROVE ExceptionsEnd'
  <2> DEFINE row == [t EXCEPT !.printed = t.label]
  <2>1. HasTask(o) /\ t \in Task
    BY <1>0, <1>11 DEF PrintLabel
  <2>2. Updates(o, row) /\ row.st = t.st /\ row.from = t.from
    BY <1>11, <2>1 DEF PrintLabel, Task
  <2>3. PICK new : new = row
    OBVIOUS
  <2> HIDE DEF row
  <2> QED
    BY <1>2, <2>1, <2>2, <2>3 DEF Updates, stockVars
<1>12. ASSUME ReceiveAtNode(o) PROVE ExceptionsEnd'
  <2> DEFINE row == [t EXCEPT !.st = "ARRIVED_AT_NODE"]
  <2>1. HasTask(o) /\ t \in Task
    BY <1>0, <1>12 DEF ReceiveAtNode
  <2>2. Updates(o, row) /\ row.st # "EXCEPTION"
    BY <1>12, <2>1 DEF ReceiveAtNode, Task
  <2>3. PICK new : new = row
    OBVIOUS
  <2> HIDE DEF row
  <2> QED
    BY <1>2, <2>1, <2>2, <2>3 DEF Updates, stockVars
<1>13. ASSUME HandToRider(o) PROVE ExceptionsEnd'
  <2> DEFINE row == [Minted(t) EXCEPT !.st = "OUT_FOR_DELIVERY", !.rider = TRUE]
  <2>1. HasTask(o) /\ t \in Task
    BY <1>0, <1>13 DEF HandToRider
  <2>2. Updates(o, row) /\ row.st # "EXCEPTION"
    BY <1>13, <2>1 DEF HandToRider, Minted, Task
  <2>3. PICK new : new = row
    OBVIOUS
  <2> HIDE DEF row
  <2> QED
    BY <1>2, <2>1, <2>2, <2>3 DEF Updates, stockVars
<1>4. ASSUME NEW e \in Staff, CompletePacking(o, e) PROVE ExceptionsEnd'
  <2> DEFINE l == IF t.label = None /\ node[o] \in Stores THEN node[o] ELSE t.label
             n == IF node[o] = None THEN t.node ELSE node[o]
             row == [t EXCEPT !.st = "PACKED", !.label = l, !.node = n]
  <2>1. HasTask(o) /\ t \in Task
    BY <1>0, <1>4 DEF CompletePacking
  <2>2. task' = [task EXCEPT ![o] = row] /\ UNCHANGED <<order, call>>
    BY <1>4 DEF CompletePacking, IInv, ColumnsOK
  <2> HIDE DEF l, n
  <2>3. row.st # "EXCEPTION"
    BY <2>1 DEF Task
  <2>4. PICK new : new = row
    OBVIOUS
  <2> HIDE DEF row
  <2> QED
    BY <1>2, <2>1, <2>2, <2>3, <2>4
<1>5. ASSUME NEW e \in Staff, NEW g \in Garments, ScanItem(o, g, e)
      PROVE  ExceptionsEnd'
  <2>1. HasTask(o) /\ t \in Task /\ UNCHANGED <<order, call>>
    BY <1>0, <1>5 DEF ScanItem
  <2>2. CASE UNCHANGED task
    BY <2>1, <2>2 DEF ExceptionsEnd, HasTask, Live, GoesBackTo
  <2>3. CASE task' = [task EXCEPT ![o].st = "READY_TO_PACK",
                                  ![o].packer = PackerAfter(o, e)]
    <3> DEFINE row == [t EXCEPT !.st = "READY_TO_PACK", !.packer = PackerAfter(o, e)]
    <3>1. task' = [task EXCEPT ![o] = row] /\ row.st # "EXCEPTION"
      BY <2>1, <2>3 DEF IInv, ColumnsOK, Task
    <3>2. PICK new : new = row
      OBVIOUS
    <3> HIDE DEF row
    <3> QED
      BY <1>2, <2>1, <3>1, <3>2
  <2> QED
    BY <1>5, <2>2, <2>3 DEF ScanItem
<1>6. ASSUME NEW n \in Nodes, AssignNode(o, n) PROVE ExceptionsEnd'
  <2> DEFINE l == LabelFor(o, n)
             p == IF l = t.label THEN t.printed ELSE None
             row == [t EXCEPT !.node = n, !.label = l, !.printed = p]
  <2>1. HasTask(o) /\ t \in Task
    BY <1>0, <1>6 DEF AssignNode
  <2>2. task' = [task EXCEPT ![o] = row] /\ UNCHANGED <<order, call>>
    BY <1>6 DEF AssignNode, stockVars, IInv, ColumnsOK
  <2> HIDE DEF l, p
  <2>3. row.st = t.st /\ row.from = t.from
    BY <2>1 DEF Task
  <2>4. PICK new : new = row
    OBVIOUS
  <2> HIDE DEF row
  <2> QED
    BY <1>2, <2>1, <2>2, <2>3, <2>4
<1>7. CASE CompleteWithoutCode(o)
  <2> DEFINE row == [t EXCEPT !.st = "COMPLETED"]
  <2>1. HasTask(o) /\ t \in Task
    BY <1>0, <1>7 DEF CompleteWithoutCode
  <2>2. /\ task' = [task EXCEPT ![o] = row] /\ UNCHANGED call
        /\ row.st # "EXCEPTION"
    BY <1>7, <2>1 DEF CompleteWithoutCode, IInv, ColumnsOK, Task
  <2>3. \A x \in Orders : Live(x)' => Live(x) \/ x = o
    BY <1>7 DEF CompleteWithoutCode, Delivers, Live, IInv, ColumnsOK
  <2> HIDE DEF row
  <2> QED
    BY <2>2, <2>3, RowKeepsExceptions
<1>8. ASSUME NEW outcome \in {"AVAILABLE", "LOST"}, WriteOff(o, outcome)
      PROVE  ExceptionsEnd'
  <2>1. /\ UNCHANGED call /\ ~Live(o)'
        /\ \A x \in Orders : Live(x)' => Live(x)
        /\ \A x \in Orders \ {o} : task'[x] = task[x]
    BY <1>8 DEF WriteOff, Live, IInv, ColumnsOK
  <2> QED
    BY <2>1 DEF ExceptionsEnd, HasTask, GoesBackTo
<1>9. CASE RecordRefund(o)
  <2>1. UNCHANGED <<task, call>> /\ \A x \in Orders : Live(x)' => Live(x)
    BY <1>9 DEF RecordRefund, Live, IInv, ColumnsOK
  <2> QED
    BY <2>1 DEF ExceptionsEnd, HasTask, GoesBackTo
<1> QED
  BY <1>1, <1>3, <1>4, <1>5, <1>6, <1>7, <1>8, <1>9, <1>10, <1>11, <1>12, <1>13
     DEF Work

\* A system that has just started has no exceptions.
LEMMA InitExceptionsEnd == Init => ExceptionsEnd
<1>1. ASSUME NEW n PROVE NewTask(n).st # "EXCEPTION"
  BY DEF NewTask
<1> QED
  BY <1>1 DEF Init, ExceptionsEnd, HasTask, Idle

\* No step takes the way out away.
LEMMA NextKeepsExceptions ==
  IInv /\ ExceptionsEnd /\ [Next]_vars => ExceptionsEnd'
<1> SUFFICES ASSUME IInv, ExceptionsEnd, [Next]_vars PROVE ExceptionsEnd'
  OBVIOUS
<1>1. CASE UNCHANGED vars
  BY <1>1 DEF vars, stockVars, ExceptionsEnd, HasTask, Live, GoesBackTo
<1> QED
  BY <1>1, WorkKeepsExceptions, WriteKeepsExceptions, ReadKeepsExceptions DEF Next

\* In every reachable state the rows have their columns, and the task of an order
\* that is still to be served can leave an exception: no stale write, of any
\* number of requests, leaves it without a step to return to.
THEOREM TypeCorrect == Spec => []TypeOK
<1>1. IInv /\ ExceptionsEnd => TypeOK
  BY DEF IInv, ExceptionsEnd, TypeOK, CanResolve, GoesBackTo
<1> QED
  BY <1>1, IInvHolds, InitExceptionsEnd, NextKeepsExceptions, PTL DEF Spec

-----------------------------------------------------------------------------
(* Every step moves one parcel of Parcels, or none.                        *)

\* What leaves orders and stock alone is no step of Parcels.
LEMMA ReadMovesNothing ==
  ASSUME NEW c \in Calls, NEW o \in Orders, Read(c, o)
  PROVE  UNCHANGED P!vars
<1>1. \E op \in Twofold : \E read : Reads(c, op, o, read)
  BY DEF Read, AssignPickerReads, ClaimReads, AssignPackerReads, StartPackingReads,
         SendReads, HandoffReads, AssignRiderReads, ResendReads, FailReads,
         ReturnReads, VerifyCode, ExceptionReads, ResolveReads, Twofold
<1> QED
  BY <1>1 DEF Reads, stockVars, fixedVars, P!vars

\* The garments of a parcel that its order may move are shared with no paid order.
LEMMA OwnedMoves ==
  ASSUME NEW o \in Orders, NEW from, NEW to,
         Live(o), Owned(o, from), ItemsMove(o, to), UNCHANGED fixedVars
  PROVE  P!Moves(o, from, to)
BY DEF Live, Owned, ItemsMove, fixedVars, P!Moves, P!Sharing, P!Live, P!Restocked

\* A request writes no stock, unless it claims or hands over.
LEMMA WriteMovesParcels ==
  ASSUME IInv, NEW c \in Calls, Write(c)
  PROVE  [P!Next]_P!vars
<1> DEFINE o == call[c].o
<1>0. call[c].op # "idle" => o \in Orders
  BY DEF IInv, ColumnsOK, Call, Idle
<1>1. CASE Claim(c)
  <2>1. o \in Orders
    BY <1>0, <1>1 DEF Claim
  <2>2. CASE order[o] = "PAID"
    <3>1. P!Start(o)
      BY <1>1, <2>2 DEF Claim, StartsFulfilling, fixedVars, P!Start
    <3> QED
      BY <2>1, <3>1 DEF P!Next
  <2>3. CASE order[o] # "PAID"
    BY <1>1, <2>3 DEF Claim, StartsFulfilling, fixedVars, P!vars
  <2> QED
    BY <2>2, <2>3
<1>2. CASE CompleteOrder(c)
  <2>1. o \in Orders
    BY <1>0, <1>2 DEF CompleteOrder
  <2>2. P!Deliver(o)
    BY <1>2, <2>1, OwnedMoves DEF CompleteOrder, Delivers, P!Deliver
  <2> QED
    BY <2>1, <2>2 DEF P!Next
<1>3. CASE CallDies(c) \/ \E row : Writes(c, row)
  BY <1>3 DEF CallDies, Writes, stockVars, fixedVars, P!vars
<1> QED
  BY <1>1, <1>2, <1>3 DEF Write, AssignPicker, AssignPacker, StartPacking, Send,
     MoveToHandoff, AssignRider, ResendDeliveryCode, MarkDeliveryFailed,
     StartReturnToNode, ConfirmReturnAtNode, MarkException, ResolveException

\* What is one step of one order is a step of its parcel, or of none.
LEMMA WorkMovesParcels ==
  ASSUME IInv, NEW o \in Orders, Work(o)
  PROVE  [P!Next]_P!vars
<1>1. CASE Settle(o)
  <2>1. P!Pay(o)
    BY <1>1 DEF Settle, Payable, fixedVars, P!Pay, P!Open, P!Restocked
  <2> QED
    BY <2>1 DEF P!Next
<1>2. ASSUME NEW e \in Staff, NEW g \in Garments, ScanItem(o, g, e)
      PROVE  [P!Next]_P!vars
  <2>1. CASE LastItemScanned(o)
    <3>1. P!Pick(o)
      BY <1>2, <2>1, OwnedMoves DEF ScanItem, P!Pick
    <3> QED
      BY <3>1 DEF P!Next
  <2>2. CASE ~LastItemScanned(o)
    BY <1>2, <2>2 DEF ScanItem, fixedVars, P!vars
  <2> QED
    BY <2>1, <2>2
<1>3. ASSUME NEW e \in Staff, CompletePacking(o, e) PROVE [P!Next]_P!vars
  <2>1. P!Pack(o)
    BY <1>3, OwnedMoves DEF CompletePacking, P!Pack
  <2> QED
    BY <2>1 DEF P!Next
<1>4. CASE CompleteWithoutCode(o)
  <2>1. P!Deliver(o)
    BY <1>4, OwnedMoves DEF CompleteWithoutCode, Delivers, P!Deliver
  <2> QED
    BY <2>1 DEF P!Next
<1>5. ASSUME NEW outcome \in {"AVAILABLE", "LOST"}, WriteOff(o, outcome)
      PROVE  [P!Next]_P!vars
  <2>1. P!Live(o) \/ order[o] = "DEPOSIT_EXPIRED"
    BY <1>5 DEF WriteOff, CanWriteOff, P!Live, IInv, ColumnsOK, OrderStatus
  <2>2. P!WriteOff(o, outcome)
    BY <1>5, <2>1 DEF WriteOff, fixedVars, P!WriteOff
  <2> QED
    BY <2>2 DEF P!Next
<1>6. CASE RecordRefund(o)
  <2>1. P!Refund(o)
    BY <1>6 DEF RecordRefund, fixedVars, P!Refund
  <2> QED
    BY <2>1 DEF P!Next
<1>7. CASE \/ \E e \in Staff : ReassignPicker(o, e) \/ ReassignPacker(o, e)
           \/ \E n \in Nodes : AssignNode(o, n)
           \/ PrintLabel(o) \/ ReceiveAtNode(o) \/ HandToRider(o)
  BY <1>7 DEF ReassignPicker, ReassignPacker, AssignNode, PrintLabel, ReceiveAtNode,
     HandToRider, Updates, stockVars, fixedVars, P!vars
<1> QED
  BY <1>1, <1>2, <1>3, <1>4, <1>5, <1>6, <1>7 DEF Work

\* Every step of fulfilment is one of Parcels, or changes nothing Parcels sees.
LEMMA NextMovesParcels == IInv /\ [Next]_vars => [P!Next]_P!vars
<1> SUFFICES ASSUME IInv, [Next]_vars PROVE [P!Next]_P!vars
  OBVIOUS
<1>1. CASE UNCHANGED vars
  BY <1>1 DEF vars, stockVars, fixedVars, P!vars
<1>2. CASE \E c \in Calls, o \in Orders : Read(c, o)
  BY <1>2, ReadMovesNothing
<1> QED
  BY <1>1, <1>2, WorkMovesParcels, WriteMovesParcels DEF Next

\* Fulfilment starts as Parcels starts.
LEMMA InitIsParcels == Init => P!Init
BY DEF Init, P!Init

\* Fulfilment implements Parcels: whatever is read before and written after, the
\* stock of an order is picked, packed and handed over as one parcel.
THEOREM Implements == Spec => ImplementsParcels
BY InitIsParcels, NextMovesParcels, IInvHolds, PTL DEF Spec, ImplementsParcels, P!Spec

-----------------------------------------------------------------------------
(* What holds of Parcels, and so of fulfilment.                            *)

\* One step of a parcel on its way keeps its garments to one paid order.
LEMMA MovesKeepsOwner ==
  ASSUME ColumnsOK, ParcelHasOneOwner, NEW o \in Orders, NEW from, NEW to,
         P!Moves(o, from, to),
         \A x \in Orders : Live(x)' => Live(x)
  PROVE  ParcelHasOneOwner'
BY DEF ParcelHasOneOwner, ColumnsOK, Live, P!Moves, P!Sharing, P!Live, P!Restocked

\* No step of Parcels gives a picked or packed garment a second paid order.
LEMMA ParcelsKeepOwner ==
  ColumnsOK /\ ParcelHasOneOwner /\ [P!Next]_P!vars => ParcelHasOneOwner'
<1> SUFFICES ASSUME ColumnsOK, ParcelHasOneOwner, [P!Next]_P!vars
             PROVE  ParcelHasOneOwner'
  OBVIOUS
<1>1. CASE UNCHANGED P!vars
  BY <1>1 DEF P!vars, ParcelHasOneOwner, Live
<1>2. ASSUME NEW o \in Orders, P!Pay(o) PROVE ParcelHasOneOwner'
  <2>1. items' = items
    BY <1>2 DEF P!Pay
  <2> SUFFICES ASSUME NEW a \in Orders, NEW b \in Orders,
                      NEW g \in items[a] \cap items[b],
                      a # b, Live(a)', Live(b)'
               PROVE  inv'[g] \notin {"PICKED", "PACKED"}
    BY <2>1 DEF ParcelHasOneOwner
  <2>2. g \in Garments
    BY DEF ColumnsOK
  <2>3. CASE g \in items[o]
    BY <1>2, <2>2, <2>3 DEF P!Pay, P!Restocked
  <2>4. CASE g \notin items[o]
    <3>1. inv'[g] = inv[g]
      BY <1>2, <2>2, <2>4 DEF P!Pay, P!Restocked
    <3>2. Live(a) /\ Live(b)
      BY <1>2, <2>4 DEF P!Pay, Live, ColumnsOK
    <3> QED
      BY <3>1, <3>2 DEF ParcelHasOneOwner
  <2> QED
    BY <2>3, <2>4
<1>3. ASSUME NEW o \in Orders, P!Start(o) PROVE ParcelHasOneOwner'
  BY <1>3 DEF P!Start, ParcelHasOneOwner, Live, ColumnsOK
<1>4. ASSUME NEW o \in Orders, P!Pick(o) \/ P!Pack(o) \/ P!Deliver(o)
      PROVE  ParcelHasOneOwner'
  <2>1. \E from, to : P!Moves(o, from, to)
    BY <1>4 DEF P!Pick, P!Pack, P!Deliver
  <2>2. \A x \in Orders : Live(x)' => Live(x)
    BY <1>4 DEF P!Pick, P!Pack, P!Deliver, Live, ColumnsOK
  <2> QED
    BY <2>1, <2>2, MovesKeepsOwner
<1>5. ASSUME NEW o \in Orders, P!Refund(o) PROVE ParcelHasOneOwner'
  BY <1>5 DEF P!Refund, ParcelHasOneOwner, Live, ColumnsOK
<1>6. ASSUME NEW o \in Orders, NEW outcome \in {"AVAILABLE", "LOST"},
             P!WriteOff(o, outcome)
      PROVE  ParcelHasOneOwner'
  BY <1>6 DEF P!WriteOff, ParcelHasOneOwner, Live, ColumnsOK
<1> QED
  BY <1>1, <1>2, <1>3, <1>4, <1>5, <1>6 DEF P!Next

\* No garment is picked or packed while two paid orders list it, however many
\* orders were sold the same garment and in whatever order they were paid.
THEOREM ParcelsHaveOneOwner == Spec => []ParcelHasOneOwner
<1>1. Init => ParcelHasOneOwner
  BY DEF Init, ParcelHasOneOwner
<1>2. IInv => ColumnsOK
  BY DEF IInv
<1> QED
  BY <1>1, <1>2, IInvHolds, NextMovesParcels, ParcelsKeepOwner, PTL DEF Spec

\* A closed order is never taken up again.
THEOREM ClosedOrdersStayClosed == Spec => ClosedStaysClosed
<1> DEFINE Step == \A o \in Orders :
       /\ order[o] = "COMPLETED" => order'[o] \in {"COMPLETED", "REFUNDED"}
       /\ order[o] = "CANCELLED" => order'[o] \in {"CANCELLED", "REFUNDED"}
       /\ order[o] = "REFUNDED" => order'[o] = "REFUNDED"
<1>1. ASSUME IInv, [Next]_vars PROVE [Step]_vars
  <2>1. [P!Next]_P!vars
    BY <1>1, NextMovesParcels
  <2>2. order \in [Orders -> OrderStatus]
    BY <1>1 DEF IInv, ColumnsOK
  <2>3. CASE UNCHANGED P!vars
    BY <2>3 DEF P!vars
  <2>4. CASE P!Next
    BY <2>2, <2>4 DEF P!Next, P!Pay, P!Start, P!Pick, P!Pack, P!Deliver, P!Refund,
       P!WriteOff, P!Moves, P!Live, P!Open
  <2> QED
    BY <2>1, <2>3, <2>4
<1> QED
  BY <1>1, IInvHolds, PTL DEF Spec, ClosedStaysClosed

\* One step of Parcels never separates a delivered garment from its order.
LEMMA ParcelsKeepDelivered ==
  ColumnsOK /\ DeliveredWithItsOrder /\ [P!Next]_P!vars => DeliveredWithItsOrder'
<1> SUFFICES ASSUME ColumnsOK, DeliveredWithItsOrder, [P!Next]_P!vars
             PROVE  DeliveredWithItsOrder'
  OBVIOUS
<1>1. CASE UNCHANGED P!vars
  BY <1>1 DEF P!vars, DeliveredWithItsOrder
<1>2. ASSUME NEW o \in Orders, P!Pay(o) PROVE DeliveredWithItsOrder'
  <2>1. \A g \in Garments : inv[g] = "DELIVERED" => inv'[g] = "DELIVERED"
    BY <1>2 DEF P!Pay, P!Restocked
  <2>2. \A g \in Garments : inv'[g] = "DELIVERED" => inv[g] = "DELIVERED"
    BY <1>2 DEF P!Pay, P!Restocked
  <2>3. \A x \in Orders, s \in {"COMPLETED", "REFUNDED"} : order'[x] = s <=> order[x] = s
    BY <1>2 DEF P!Pay, P!Open, ColumnsOK
  <2> QED
    BY <1>2, <2>1, <2>2, <2>3 DEF P!Pay, DeliveredWithItsOrder, ColumnsOK
<1>3. ASSUME NEW o \in Orders, P!Start(o) PROVE DeliveredWithItsOrder'
  BY <1>3 DEF P!Start, DeliveredWithItsOrder, ColumnsOK
<1>4. ASSUME NEW o \in Orders, P!Pick(o) \/ P!Pack(o) PROVE DeliveredWithItsOrder'
  <2>1. /\ items' = items /\ order' = order
        /\ \A g \in Garments : inv'[g] = "DELIVERED" <=> inv[g] = "DELIVERED"
    BY <1>4 DEF P!Pick, P!Pack, P!Moves, P!Restocked
  <2> QED
    BY <2>1 DEF DeliveredWithItsOrder, ColumnsOK
<1>5. ASSUME NEW o \in Orders, P!Deliver(o) PROVE DeliveredWithItsOrder'
  <2>1. /\ items' = items /\ order' = [order EXCEPT ![o] = "COMPLETED"]
        /\ inv' = [g \in Garments |-> IF g \in items[o] THEN "DELIVERED" ELSE inv[g]]
        /\ order[o] \in {"PAID", "FULFILLING"}
    BY <1>5 DEF P!Deliver, P!Moves, P!Restocked, P!Live
  <2>2. \A x \in Orders : order'[x] = IF x = o THEN "COMPLETED" ELSE order[x]
    BY <2>1 DEF ColumnsOK
  <2> QED
    BY <2>1, <2>2 DEF DeliveredWithItsOrder, ColumnsOK
<1>6. ASSUME NEW o \in Orders, P!Refund(o) PROVE DeliveredWithItsOrder'
  BY <1>6 DEF P!Refund, DeliveredWithItsOrder, ColumnsOK
<1>7. ASSUME NEW o \in Orders, NEW outcome \in {"AVAILABLE", "LOST"},
             P!WriteOff(o, outcome)
      PROVE  DeliveredWithItsOrder'
  <2>1. \A g \in Garments : inv'[g] = "DELIVERED" <=> inv[g] = "DELIVERED"
    BY <1>7 DEF P!WriteOff
  <2>2. \A x \in Orders, s \in {"COMPLETED", "REFUNDED"} : order'[x] = s <=> order[x] = s
    BY <1>7 DEF P!WriteOff, P!Live, ColumnsOK
  <2> QED
    BY <1>7, <2>1, <2>2 DEF P!WriteOff, DeliveredWithItsOrder, ColumnsOK
<1> QED
  BY <1>1, <1>2, <1>3, <1>4, <1>5, <1>6, <1>7 DEF P!Next

\* A garment is DELIVERED when and only when an order that lists it was completed.
THEOREM DeliveredOnlyWithItsOrder == Spec => []DeliveredWithItsOrder
<1>1. Init => DeliveredWithItsOrder
  BY DEF Init, DeliveredWithItsOrder
<1>2. IInv => ColumnsOK
  BY DEF IInv
<1> QED
  BY <1>1, <1>2, IInvHolds, NextMovesParcels, ParcelsKeepDelivered, PTL DEF Spec


-----------------------------------------------------------------------------
(* The steps on record.                                                    *)

\* A request in progress keeps step s: it read it, or will write it unseen.
Keeps(c, s) ==
  \/ s = call[c].st
  \/ call[c].op = "handoff" /\ s = HandoffFor(call[c].o)
  \/ call[c].op = "fail" /\ s = "DELIVERY_FAILED"
  \/ call[c].op = "return" /\ s = "RETURNING_TO_NODE"
  \/ call[c].op = "returned" /\ s = "ARRIVED_AT_NODE"

\* The steps that the task of o is at, or may be put back to by what is on record.
OnRecord(o, s) ==
  \/ s \in Reached(o)
  \/ \E c \in Calls : call[c] # Idle /\ call[c].o = o /\ Keeps(c, s)

WasSealed(o) == \E s \in Sealed : OnRecord(o, s)
WasPicked(o) == WasSealed(o) \/ OnRecord(o, "READY_TO_PACK")

\* The steps of a sealed parcel beyond PACKED, by the method of its order.
Further(o) ==
  {"IN_TRANSIT_TO_NODE", "ARRIVED_AT_NODE", "COMPLETED", HandoffFor(o)}
    \cup (IF method[o] = "DELIVERY"
          THEN {"OUT_FOR_DELIVERY", "DELIVERY_FAILED", "RETURNING_TO_NODE"} ELSE {})

\* How a step gets on record.
GetsTo(o, s) ==
  \/ s \in {None, "PAID", "PICKING", "EXCEPTION"}
  \/ s = "READY_TO_PACK" /\ \E e \in Staff, g \in Garments :
                              ScanItem(o, g, e) /\ LastItemScanned(o)
  \/ s = "PACKED" /\ \E e \in Staff : CompletePacking(o, e)
  \/ s \in Further(o) /\ WasSealed(o)

-----------------------------------------------------------------------------
(* The invariant.                                                          *)

Unpaid == {"AWAITING", "DEPOSIT_EXPIRED"}

\* An order that is not paid has no task, no scans and no request in progress.
UnpaidIsUntouched ==
  /\ \A o \in Orders : order[o] \in Unpaid => task[o] = None /\ verified[o] = {}
  /\ \A c \in Calls : call[c] # Idle => order[call[c].o] \notin Unpaid

\* A request about packing names the packer.
TakerIsNamed ==
  \A c \in Calls : call[c].op \in {"assignPacker", "startPacking"} => call[c].by # None

\* Only the steps of its own delivery method are on record for an order.
OnRecordOnPath ==
  \A o \in Orders : \A s \in {"READY_TO_PACK"} \cup Sealed :
    OnRecord(o, s) => s \in {"READY_TO_PACK", "PACKED"} \cup Further(o)

\* What is past picking, or may be put there, has every garment scanned.
PickedIsVerified == \A o \in Orders : WasPicked(o) => verified[o] = items[o]

\* ... has a packer, and was started if it is sealed.
PickedIsAssigned ==
  \A o \in Orders :
    /\ WasPicked(o) => task[o].packer # None
    /\ WasSealed(o) => task[o].started # None

\* ... has its stock where the scans and the packing left it, up to a garment that a
\* closed order lists too.
StockIsMoved ==
  \A o \in Orders, g \in Garments :
    Live(o) /\ g \in items[o] =>
      \/ \E other \in Orders \ {o} :
           g \in items[other] /\ order[other] \in {"CANCELLED", "REFUNDED"}
      \/ /\ WasSealed(o) => inv[g] = "PACKED"
         /\ verified[o] = items[o] => inv[g] \in {"PICKED", "PACKED"}

RecordInv ==
  /\ IInv /\ UnpaidIsUntouched /\ TakerIsNamed
  /\ OnRecordOnPath /\ PickedIsVerified /\ PickedIsAssigned /\ StockIsMoved

-----------------------------------------------------------------------------
(* Which steps get on record, and how.                                     *)

\* The steps of a sealed parcel are none of the others.
LEMMA StepsDiffer ==
  /\ None \notin FulfillmentStatus
  /\ Sealed \cup {"READY_TO_PACK"} \subseteq FulfillmentStatus
  /\ \A s \in Sealed : s \notin {None, "PAID", "PICKING", "EXCEPTION", "READY_TO_PACK"}
  /\ "READY_TO_PACK" # None
BY UnsetAssumption DEF FulfillmentStatus, Sealed, OnTheWay, Handoffs

\* A request that reads puts on record what it reads and what it will write.
LEMMA ReadPutsOnRecord ==
  ASSUME IInv, NEW c \in Calls, NEW x \in Orders, NEW op, NEW read, Reads(c, op, x, read),
         NEW o \in Orders, NEW s, OnRecord(o, s)', ~OnRecord(o, s)
  PROVE  /\ x = o
         /\ \/ s = read.st
            \/ op = "handoff" /\ s = HandoffFor(o)
            \/ op = "fail" /\ s = "DELIVERY_FAILED"
            \/ op = "return" /\ s = "RETURNING_TO_NODE"
            \/ op = "returned" /\ s = "ARRIVED_AT_NODE"
<1>1. task' = task /\ method' = method
  BY DEF Reads, fixedVars
<1>2. PICK d \in Calls : call'[d] # Idle /\ call'[d].o = o /\ Keeps(d, s)'
  BY <1>1 DEF OnRecord, Reached, HasTask
<1>3. d = c
  BY <1>1, <1>2 DEF Reads, IInv, ColumnsOK, OnRecord, Keeps, HandoffFor
<1>4. call'[c] = [op |-> op, o |-> x, by |-> read.by, st |-> read.st,
                  at |-> read.at, label |-> read.label, code |-> read.code]
  BY DEF Reads, IInv, ColumnsOK
<1> QED BY <1>1, <1>2, <1>3, <1>4 DEF Keeps, HandoffFor

\* A step that writes one task, and starts no request, puts on record what it
\* writes.
LEMMA RowPutsOnRecord ==
  ASSUME IInv, NEW x \in Orders, NEW row, task' = [task EXCEPT ![x] = row],
         UNCHANGED fixedVars, UNCHANGED call \/ \E c \in Calls : Ends(c),
         NEW o \in Orders, NEW s, OnRecord(o, s)', ~OnRecord(o, s)
  PROVE  x = o /\ s \in {row.st, row.from}
<1>1. \A d \in Calls : call'[d] = call[d] \/ call'[d] = Idle
  BY DEF Ends, IInv, ColumnsOK
<1>2. \A d \in Calls : ~(call'[d] # Idle /\ call'[d].o = o /\ Keeps(d, s)')
  BY <1>1 DEF OnRecord, Keeps, HandoffFor, fixedVars
<1>3. s \in Reached(o)'
  BY <1>2 DEF OnRecord
<1>4. \A y \in Orders : task'[y] = IF y = x THEN row ELSE task[y]
  BY DEF IInv, ColumnsOK
<1> QED BY <1>3, <1>4 DEF OnRecord, Reached, HasTask

\* What a task is at is on record.
LEMMA ReachedIsOnRecord ==
  ASSUME NEW o \in Orders, HasTask(o)
  PROVE  /\ OnRecord(o, task[o].st) /\ OnRecord(o, task[o].from)
         /\ task[o].st \in Sealed => WasSealed(o)
BY DEF OnRecord, Reached, WasSealed

\* What the read of a request puts on record.
LEMMA ReadGetsTo ==
  ASSUME IInv, NEW c \in Calls, NEW x \in Orders, Read(c, x),
         NEW o \in Orders, NEW s, OnRecord(o, s)', ~OnRecord(o, s)
  PROVE  GetsTo(o, s)
<1>1. CASE \E e \in Staff : \/ AssignPickerReads(c, x, e) \/ ClaimReads(c, x, e)
                            \/ AssignPackerReads(c, x, e)
                            \/ \E actor \in Staff : StartPackingReads(c, x, actor, e)
  <2>1. PICK e \in Staff : \E op \in {"assignPicker", "claim", "assignPacker",
                                      "startPacking"} : Reads(c, op, x, By(e))
    BY <1>1 DEF AssignPickerReads, ClaimReads, AssignPackerReads, StartPackingReads
  <2>2. By(e).st = None
    BY DEF By, Nothing
  <2> QED BY <2>1, <2>2, ReadPutsOnRecord DEF GetsTo
<1>2. CASE SendReads(c, x) \/ AssignRiderReads(c, x) \/ ResendReads(c, x)
             \/ VerifyCode(c, x)
  <2> DEFINE sent == [Nothing EXCEPT !.at = node[x], !.label = task[x].label]
             told == [Nothing EXCEPT !.code = task[x].code]
  <2>1. sent.st = None /\ told.st = None /\ Nothing.st = None
    BY DEF Nothing
  <2>2. \/ Reads(c, "send", x, sent) \/ Reads(c, "handover", x, told)
        \/ Reads(c, "assignRider", x, Nothing) \/ Reads(c, "resend", x, Nothing)
    BY <1>2 DEF SendReads, AssignRiderReads, ResendReads, VerifyCode
  <2> HIDE DEF sent, told
  <2> QED BY <2>1, <2>2, ReadPutsOnRecord DEF GetsTo
<1>3. CASE HandoffReads(c, x)
  <2>1. x = o /\ s \in {None, HandoffFor(o)}
    BY <1>3, ReadPutsOnRecord DEF HandoffReads, Nothing
  <2>2. HasTask(o) /\ task[o].st \in {"ARRIVED_AT_NODE", "PACKED"}
    BY <1>3, <2>1 DEF HandoffReads, CanMove, Transitions, HandoffFor
  <2> QED BY <2>1, <2>2, ReachedIsOnRecord DEF GetsTo, Further, Sealed, OnTheWay
<1>4. CASE FailReads(c, x)
  <2>1. x = o /\ s \in {None, "DELIVERY_FAILED"}
    BY <1>4, ReadPutsOnRecord DEF FailReads, Nothing
  <2>2. HasTask(o) /\ method[o] = "DELIVERY" /\ task[o].st = "OUT_FOR_DELIVERY"
    BY <1>4, <2>1 DEF FailReads, CanMove, Transitions, HandoffFor
  <2> QED BY <2>1, <2>2, ReachedIsOnRecord DEF GetsTo, Further, Sealed, OnTheWay
<1>5. CASE ReturnReads(c, x)
  <2>1. Nothing.st = None
    BY DEF Nothing
  <2>2. CASE CanMove(x, "RETURNING_TO_NODE") /\ Reads(c, "return", x, Nothing)
    <3>1. x = o /\ s \in {None, "RETURNING_TO_NODE"}
      BY <2>1, <2>2, ReadPutsOnRecord
    <3>2. HasTask(o) /\ method[o] = "DELIVERY" /\ task[o].st = "DELIVERY_FAILED"
      BY <1>5, <2>2, <3>1 DEF ReturnReads, CanMove, Transitions, HandoffFor
    <3> QED BY <3>1, <3>2, ReachedIsOnRecord DEF GetsTo, Further, Sealed
  <2>3. CASE CanMove(x, "ARRIVED_AT_NODE") /\ Reads(c, "returned", x, Nothing)
    <3>1. x = o /\ s \in {None, "ARRIVED_AT_NODE"}
      BY <2>1, <2>3, ReadPutsOnRecord
    <3>2. HasTask(o) /\ task[o].st \in {"IN_TRANSIT_TO_NODE", "RETURNING_TO_NODE"}
      BY <1>5, <2>3, <3>1 DEF ReturnReads, CanMove, Transitions, HandoffFor
    <3> QED BY <3>1, <3>2, ReachedIsOnRecord DEF GetsTo, Further, Sealed, OnTheWay
  <2> QED BY <1>5, <2>2, <2>3 DEF ReturnReads
<1>6. CASE ExceptionReads(c, x)
  <2>1. x = o /\ HasTask(o) /\ s = task[o].st
    BY <1>6, ReadPutsOnRecord DEF ExceptionReads, Nothing
  <2> QED BY <2>1, ReachedIsOnRecord
<1>7. CASE ResolveReads(c, x)
  <2>1. x = o /\ HasTask(o) /\ s = task[o].from
    BY <1>7, ReadPutsOnRecord DEF ResolveReads, Nothing
  <2> QED BY <2>1, ReachedIsOnRecord
<1> QED BY <1>1, <1>2, <1>3, <1>4, <1>5, <1>6, <1>7 DEF Read

\* A request writes the task that it read, and what it leaves of the step stays.
LEMMA RequestPutsOnRecord ==
  ASSUME IInv, NEW c \in Calls, call[c] # Idle, NEW row, Writes(c, row),
         NEW o \in Orders, NEW s, OnRecord(o, s)', ~OnRecord(o, s)
  PROVE  /\ call[c].o = o /\ s \in {row.st, row.from}
         /\ HasTask(o) /\ s \notin {task[o].st, task[o].from} /\ ~Keeps(c, s)
<1>1. call[c].o \in Orders /\ task[call[c].o] \in Task
  BY RequestFields
<1>2. call[c].o = o /\ s \in {row.st, row.from}
  BY <1>1, RowPutsOnRecord DEF Writes
<1> QED BY <1>1, <1>2, UnsetAssumption DEF OnRecord, Reached, HasTask

\* What a request is about to write is on record already, but for the steps that
\* its transaction checks again.
LEMMA WriteGetsTo ==
  ASSUME IInv, NEW c \in Calls, Write(c),
         NEW o \in Orders, NEW s, OnRecord(o, s)', ~OnRecord(o, s)
  PROVE  GetsTo(o, s)
<1> DEFINE x == call[c].o
           t == task[x]
<1>0. /\ call[c].op # "idle" => call[c] # Idle
      /\ call[c] # Idle => x \in Orders /\ t \in Task
  BY RequestFields DEF Idle
<1>1. CASE AssignPicker(c)
  <2> DEFINE row == [t EXCEPT !.picker = call[c].by]
  <2>1. call[c] # Idle /\ Writes(c, row) /\ row.st = t.st /\ row.from = t.from
    BY <1>0, <1>1 DEF AssignPicker, Task
  <2> HIDE DEF row
  <2> QED BY <2>1, RequestPutsOnRecord
<1>2. CASE AssignPacker(c)
  <2> DEFINE row == [t EXCEPT !.packer = call[c].by]
  <2>1. call[c] # Idle /\ Writes(c, row) /\ row.st = t.st /\ row.from = t.from
    BY <1>0, <1>2 DEF AssignPacker, Task
  <2> HIDE DEF row
  <2> QED BY <2>1, RequestPutsOnRecord
<1>3. CASE StartPacking(c)
  <2> DEFINE row == [t EXCEPT !.started = call[c].by]
  <2>1. call[c] # Idle /\ Writes(c, row) /\ row.st = t.st /\ row.from = t.from
    BY <1>0, <1>3 DEF StartPacking, Task
  <2> HIDE DEF row
  <2> QED BY <2>1, RequestPutsOnRecord
<1>4. CASE AssignRider(c)
  <2> DEFINE row == [t EXCEPT !.rider = TRUE]
  <2>1. call[c] # Idle /\ Writes(c, row) /\ row.st = t.st /\ row.from = t.from
    BY <1>0, <1>4 DEF AssignRider, Task
  <2> HIDE DEF row
  <2> QED BY <2>1, RequestPutsOnRecord
<1>5. CASE ResendDeliveryCode(c)
  <2>1. call[c] # Idle /\ Writes(c, Minted(t))
        /\ Minted(t).st = t.st /\ Minted(t).from = t.from
    BY <1>0, <1>5 DEF ResendDeliveryCode, Minted, Task
  <2> QED BY <2>1, RequestPutsOnRecord
<1>6. CASE Send(c)
  <2> DEFINE row == [t EXCEPT !.st = "IN_TRANSIT_TO_NODE", !.node = call[c].at,
                              !.label = call[c].label]
  <2>1. call[c] # Idle /\ Writes(c, row) /\ t.st = "PACKED"
        /\ row.st = "IN_TRANSIT_TO_NODE" /\ row.from = t.from
    BY <1>0, <1>6 DEF Send, Task
  <2> HIDE DEF row
  <2>2. HasTask(o) /\ s = "IN_TRANSIT_TO_NODE" /\ task[o].st = "PACKED"
    BY <2>1, RequestPutsOnRecord
  <2> QED BY <2>2, ReachedIsOnRecord DEF GetsTo, Further, Sealed, OnTheWay
<1>7. CASE MoveToHandoff(c)
  <2> DEFINE row == [t EXCEPT !.st = HandoffFor(x)]
  <2>1. call[c] # Idle /\ Writes(c, row) /\ row.st = HandoffFor(x) /\ row.from = t.from
    BY <1>0, <1>7 DEF MoveToHandoff, Task
  <2> HIDE DEF row
  <2> QED BY <1>7, <2>1, RequestPutsOnRecord DEF Keeps, MoveToHandoff
<1>8. CASE MarkDeliveryFailed(c)
  <2> DEFINE row == [t EXCEPT !.st = "DELIVERY_FAILED", !.code = 0]
  <2>1. call[c] # Idle /\ Writes(c, row) /\ row.st = "DELIVERY_FAILED" /\ row.from = t.from
    BY <1>0, <1>8 DEF MarkDeliveryFailed, Task
  <2> HIDE DEF row
  <2> QED BY <1>8, <2>1, RequestPutsOnRecord DEF Keeps, MarkDeliveryFailed
<1>9. CASE StartReturnToNode(c)
  <2> DEFINE row == [t EXCEPT !.st = "RETURNING_TO_NODE"]
  <2>1. call[c] # Idle /\ Writes(c, row) /\ row.st = "RETURNING_TO_NODE" /\ row.from = t.from
    BY <1>0, <1>9 DEF StartReturnToNode, Task
  <2> HIDE DEF row
  <2> QED BY <1>9, <2>1, RequestPutsOnRecord DEF Keeps, StartReturnToNode
<1>10. CASE ConfirmReturnAtNode(c)
  <2> DEFINE row == [t EXCEPT !.st = "ARRIVED_AT_NODE", !.rider = FALSE]
  <2>1. call[c] # Idle /\ Writes(c, row) /\ row.st = "ARRIVED_AT_NODE" /\ row.from = t.from
    BY <1>0, <1>10 DEF ConfirmReturnAtNode, Task
  <2> HIDE DEF row
  <2> QED BY <1>10, <2>1, RequestPutsOnRecord DEF Keeps, ConfirmReturnAtNode
<1>11. CASE MarkException(c)
  <2> DEFINE row == [t EXCEPT !.st = "EXCEPTION", !.from = call[c].st]
  <2>1. call[c] # Idle /\ Writes(c, row) /\ row.st = "EXCEPTION" /\ row.from = call[c].st
    BY <1>0, <1>11 DEF MarkException, Task
  <2> HIDE DEF row
  <2> QED BY <2>1, RequestPutsOnRecord DEF Keeps, GetsTo
<1>12. CASE ResolveException(c)
  <2> DEFINE row == [t EXCEPT !.st = call[c].st, !.from = None]
  <2>1. call[c] # Idle /\ Writes(c, row) /\ row.st = call[c].st /\ row.from = None
    BY <1>0, <1>12 DEF ResolveException, Task
  <2> HIDE DEF row
  <2> QED BY <2>1, RequestPutsOnRecord DEF Keeps, GetsTo
<1>13. CASE Claim(c)
  <2> DEFINE row == [t EXCEPT !.st = "PICKING", !.picker = call[c].by]
  <2>1. /\ call[c] # Idle /\ Ends(c) /\ UNCHANGED fixedVars
        /\ row.st = "PICKING" /\ row.from = t.from
    BY <1>0, <1>13 DEF Claim, Task
  <2>2. task' = [task EXCEPT ![x] = row]
    BY <1>0, <1>13, <2>1 DEF Claim, IInv, ColumnsOK
  <2> HIDE DEF row
  <2>3. x = o /\ s \in {"PICKING", t.from}
    BY <1>0, <2>1, <2>2, RowPutsOnRecord
  <2> QED
    BY <1>0, <2>1, <2>3, UnsetAssumption, ReachedIsOnRecord DEF GetsTo, HasTask
<1>14. CASE CompleteOrder(c)
  <2> DEFINE row == [t EXCEPT !.st = "COMPLETED", !.code = 0]
  <2>1. /\ call[c] # Idle /\ Ends(c) /\ UNCHANGED fixedVars
        /\ row.st = "COMPLETED" /\ row.from = t.from
        /\ t.st \in {"READY_FOR_PICKUP", "OUT_FOR_DELIVERY"}
    BY <1>0, <1>14 DEF CompleteOrder, AtHandover, Task
  <2>2. task' = [task EXCEPT ![x] = row]
    BY <1>0, <1>14, <2>1 DEF CompleteOrder, IInv, ColumnsOK
  <2> HIDE DEF row
  <2>3. x = o /\ s \in {"COMPLETED", t.from}
    BY <1>0, <2>1, <2>2, RowPutsOnRecord
  <2>4. HasTask(o)
    BY <1>0, <2>1, <2>3, UnsetAssumption DEF HasTask
  <2> QED
    BY <2>1, <2>3, <2>4, ReachedIsOnRecord
       DEF GetsTo, Further, Sealed, OnTheWay, Handoffs
<1>15. CASE CallDies(c)
  <2>1. /\ task' = task /\ method' = method
        /\ \A d \in Calls : call'[d] = call[d] \/ call'[d] = Idle
    BY <1>15 DEF CallDies, Ends, fixedVars, IInv, ColumnsOK
  <2> QED BY <2>1 DEF OnRecord, Reached, HasTask, Keeps, HandoffFor
<1> QED
  BY <1>1, <1>2, <1>3, <1>4, <1>5, <1>6, <1>7, <1>8, <1>9, <1>10, <1>11, <1>12,
     <1>13, <1>14, <1>15 DEF Write

\* One step of one handler.
LEMMA UpdatePutsOnRecord ==
  ASSUME IInv, NEW x \in Orders, NEW row, Updates(x, row),
         NEW o \in Orders, NEW s, OnRecord(o, s)', ~OnRecord(o, s), HasTask(x)
  PROVE  x = o /\ s \in {row.st, row.from} /\ s \notin {task[o].st, task[o].from}
<1>1. x = o /\ s \in {row.st, row.from}
  BY RowPutsOnRecord DEF Updates
<1> QED BY <1>1 DEF OnRecord, Reached, HasTask

\* What a handler in one step puts on record.
LEMMA WorkGetsTo ==
  ASSUME IInv, NEW x \in Orders, Work(x),
         NEW o \in Orders, NEW s, OnRecord(o, s)', ~OnRecord(o, s)
  PROVE  GetsTo(o, s)
<1> DEFINE t == task[x]
<1>0. HasTask(x) => t \in Task
  BY TaskIsRow
<1>1. CASE Settle(x)
  <2>1. s \in {NewTask(node[x]).st, NewTask(node[x]).from}
    BY <1>1, RowPutsOnRecord DEF Settle
  <2> QED BY <2>1 DEF NewTask, GetsTo
<1>2. ASSUME NEW e \in Staff, ReassignPicker(x, e) PROVE GetsTo(o, s)
  <2> DEFINE row == [t EXCEPT !.picker = e]
  <2>1. HasTask(x) /\ Updates(x, row) /\ row.st = t.st /\ row.from = t.from
    BY <1>0, <1>2 DEF ReassignPicker, Task
  <2> HIDE DEF row
  <2> QED BY <2>1, UpdatePutsOnRecord
<1>3. ASSUME NEW e \in Staff, ReassignPacker(x, e) PROVE GetsTo(o, s)
  <2> DEFINE row == [t EXCEPT !.packer = e,
                              !.started = IF @ = None THEN None ELSE e]
  <2>1. HasTask(x) /\ Updates(x, row) /\ row.st = t.st /\ row.from = t.from
    BY <1>0, <1>3 DEF ReassignPacker, Task
  <2> HIDE DEF row
  <2> QED BY <2>1, UpdatePutsOnRecord
<1>4. ASSUME NEW e \in Staff, CompletePacking(x, e) PROVE GetsTo(o, s)
  <2> DEFINE row == [t EXCEPT
        !.st = "PACKED",
        !.label = IF @ = None /\ node[x] \in Stores THEN node[x] ELSE @,
        !.node = IF node[x] = None THEN @ ELSE node[x]]
  <2>1. HasTask(x) /\ row.st = "PACKED" /\ row.from = t.from
    BY <1>0, <1>4 DEF CompletePacking, Task
  <2>2. task' = [task EXCEPT ![x] = row] /\ UNCHANGED <<fixedVars, call>>
    BY <1>4 DEF CompletePacking, IInv, ColumnsOK
  <2> HIDE DEF row
  <2>3. x = o /\ s \in {"PACKED", t.from}
    BY <2>1, <2>2, RowPutsOnRecord
  <2> QED BY <1>4, <2>1, <2>3, ReachedIsOnRecord DEF GetsTo
<1>5. ASSUME NEW e \in Staff, NEW g \in Garments, ScanItem(x, g, e)
      PROVE  GetsTo(o, s)
  <2>1. HasTask(x) /\ UNCHANGED <<fixedVars, call>>
    BY <1>5 DEF ScanItem
  <2>2. CASE LastItemScanned(x)
    <3> DEFINE row == [t EXCEPT !.st = "READY_TO_PACK", !.packer = PackerAfter(x, e)]
    <3>1. row.st = "READY_TO_PACK" /\ row.from = t.from
      BY <1>0, <2>1 DEF Task
    <3>2. task' = [task EXCEPT ![x] = row]
      BY <1>5, <2>2 DEF ScanItem, IInv, ColumnsOK
    <3> HIDE DEF row
    <3>3. x = o /\ s \in {"READY_TO_PACK", t.from}
      BY <2>1, <3>1, <3>2, RowPutsOnRecord
    <3> QED BY <1>5, <2>1, <2>2, <3>3, ReachedIsOnRecord DEF GetsTo
  <2>3. CASE ~LastItemScanned(x)
    BY <1>5, <2>1, <2>3 DEF ScanItem, fixedVars, OnRecord, Reached, HasTask, Keeps,
       HandoffFor
  <2> QED BY <2>2, <2>3
<1>6. ASSUME NEW n \in Nodes, AssignNode(x, n) PROVE GetsTo(o, s)
  <2> DEFINE row == [t EXCEPT
        !.node = n, !.label = LabelFor(x, n),
        !.printed = IF LabelFor(x, n) = task[x].label THEN @ ELSE None]
  <2>1. HasTask(x) /\ row.st = t.st /\ row.from = t.from
    BY <1>0, <1>6 DEF AssignNode, Task
  <2>2. task' = [task EXCEPT ![x] = row] /\ UNCHANGED <<fixedVars, call>>
    BY <1>6 DEF AssignNode, IInv, ColumnsOK
  <2> HIDE DEF row
  <2>3. x = o /\ s \in {t.st, t.from}
    BY <2>1, <2>2, RowPutsOnRecord
  <2> QED BY <2>1, <2>3, ReachedIsOnRecord
<1>7. CASE PrintLabel(x)
  <2> DEFINE row == [t EXCEPT !.printed = task[x].label]
  <2>1. HasTask(x) /\ Updates(x, row) /\ row.st = t.st /\ row.from = t.from
    BY <1>0, <1>7 DEF PrintLabel, Task
  <2> HIDE DEF row
  <2> QED BY <2>1, UpdatePutsOnRecord
<1>8. CASE ReceiveAtNode(x)
  <2> DEFINE row == [t EXCEPT !.st = "ARRIVED_AT_NODE"]
  <2>1. /\ HasTask(x) /\ Updates(x, row) /\ t.st = "IN_TRANSIT_TO_NODE"
        /\ row.st = "ARRIVED_AT_NODE" /\ row.from = t.from
    BY <1>0, <1>8 DEF ReceiveAtNode, Task
  <2> HIDE DEF row
  <2>2. x = o /\ s = "ARRIVED_AT_NODE"
    BY <2>1, UpdatePutsOnRecord
  <2> QED BY <2>1, <2>2, ReachedIsOnRecord DEF GetsTo, Further, Sealed, OnTheWay
<1>9. CASE HandToRider(x)
  <2> DEFINE row == [Minted(t) EXCEPT !.st = "OUT_FOR_DELIVERY", !.rider = TRUE]
  <2>1. /\ HasTask(x) /\ Updates(x, row) /\ method[x] = "DELIVERY"
        /\ t.st \in {"ARRIVED_AT_NODE", "READY_FOR_DISPATCH"}
    BY <1>9 DEF HandToRider
  <2>2. Minted(t) \in Task /\ Minted(t).from = t.from
    BY <1>0, <1>9, <2>1, MintedIsRow DEF HandToRider, Minted, Task
  <2>3. row.st = "OUT_FOR_DELIVERY" /\ row.from = t.from
    BY <2>2 DEF Task
  <2> HIDE DEF row
  <2>4. x = o /\ s = "OUT_FOR_DELIVERY"
    BY <2>1, <2>3, UpdatePutsOnRecord
  <2> QED
    BY <2>1, <2>4, ReachedIsOnRecord DEF GetsTo, Further, Sealed, OnTheWay, Handoffs
<1>10. CASE CompleteWithoutCode(x)
  <2> DEFINE row == [t EXCEPT !.st = "COMPLETED"]
  <2>1. HasTask(x) /\ row.st = "COMPLETED" /\ row.from = t.from /\ t.st \in OnTheWay
    BY <1>0, <1>10 DEF CompleteWithoutCode, Task
  <2>2. task' = [task EXCEPT ![x] = row] /\ UNCHANGED <<fixedVars, call>>
    BY <1>10 DEF CompleteWithoutCode, IInv, ColumnsOK
  <2> HIDE DEF row
  <2>3. x = o /\ s \in {"COMPLETED", t.from}
    BY <2>1, <2>2, RowPutsOnRecord
  <2> QED BY <2>1, <2>3, ReachedIsOnRecord DEF GetsTo, Further, Sealed
<1>11. ASSUME NEW outcome \in {"AVAILABLE", "LOST"}, WriteOff(x, outcome)
       PROVE  GetsTo(o, s)
  <2>1. CASE HasTask(x)
    <3> DEFINE row == [t EXCEPT !.st = "EXCEPTION", !.from = None]
    <3>1. row.st = "EXCEPTION" /\ row.from = None
      BY <1>0, <2>1 DEF Task
    <3>2. task' = [task EXCEPT ![x] = row] /\ UNCHANGED <<fixedVars, call>>
      BY <1>11, <2>1 DEF WriteOff, IInv, ColumnsOK
    <3> HIDE DEF row
    <3>3. x = o /\ s \in {"EXCEPTION", None}
      BY <3>1, <3>2, RowPutsOnRecord
    <3> QED BY <3>3 DEF GetsTo
  <2>2. CASE ~HasTask(x)
    BY <1>11, <2>2 DEF WriteOff, fixedVars, OnRecord, Reached, HasTask, Keeps, HandoffFor
  <2> QED BY <2>1, <2>2
<1>12. CASE RecordRefund(x)
  BY <1>12 DEF RecordRefund, fixedVars, OnRecord, Reached, HasTask, Keeps, HandoffFor
<1> QED
  BY <1>1, <1>2, <1>3, <1>4, <1>5, <1>6, <1>7, <1>8, <1>9, <1>10, <1>11, <1>12 DEF Work

\* However requests interleave, a step of a sealed parcel gets on record from
\* READY_TO_PACK by packing, or from another step of a sealed parcel.
LEMMA StepGetsTo ==
  ASSUME IInv, [Next]_vars, NEW o \in Orders, NEW s, OnRecord(o, s)', ~OnRecord(o, s)
  PROVE  GetsTo(o, s)
<1>1. CASE UNCHANGED vars
  BY <1>1 DEF vars, fixedVars, OnRecord, Reached, HasTask, Keeps, HandoffFor
<1> QED BY <1>1, ReadGetsTo, WriteGetsTo, WorkGetsTo DEF Next

\* What an order lists, and how it is fetched, is settled with its payment.
LEMMA RowsAreFixed ==
  ASSUME [Next]_vars PROVE UNCHANGED fixedVars
<1>1. ASSUME NEW x \in Orders, Work(x) PROVE UNCHANGED fixedVars
  BY <1>1 DEF Work, Settle, ReassignPicker, ReassignPacker, CompletePacking, ScanItem,
     AssignNode, PrintLabel, ReceiveAtNode, HandToRider, CompleteWithoutCode, WriteOff,
     RecordRefund, Updates
<1>2. ASSUME NEW c \in Calls, NEW x \in Orders, Read(c, x) PROVE UNCHANGED fixedVars
  BY <1>2 DEF Read, AssignPickerReads, ClaimReads, AssignPackerReads,
     StartPackingReads, SendReads, HandoffReads, AssignRiderReads, ResendReads,
     FailReads, ReturnReads, VerifyCode, ExceptionReads, ResolveReads, Reads
<1>3. ASSUME NEW c \in Calls, Write(c) PROVE UNCHANGED fixedVars
  BY <1>3 DEF Write, AssignPicker, Claim, AssignPacker, StartPacking, Send,
     MoveToHandoff, AssignRider, ResendDeliveryCode, MarkDeliveryFailed,
     StartReturnToNode, ConfirmReturnAtNode, CompleteOrder, MarkException,
     ResolveException, CallDies, Writes
<1> QED BY <1>1, <1>2, <1>3 DEF Next, vars

\* A parcel is sealed by its packing, and picked by its last scan.
LEMMA SealedByPacking ==
  ASSUME IInv, [Next]_vars, NEW o \in Orders
  PROVE  /\ WasSealed(o)' => WasSealed(o) \/ \E e \in Staff : CompletePacking(o, e)
         /\ WasPicked(o)' => \/ WasPicked(o)
                             \/ \E e \in Staff, g \in Garments :
                                  ScanItem(o, g, e) /\ LastItemScanned(o)
<1>1. ASSUME NEW s \in Sealed, OnRecord(o, s)', ~OnRecord(o, s)
      PROVE  WasSealed(o) \/ \E e \in Staff : CompletePacking(o, e)
  BY <1>1, StepGetsTo, StepsDiffer DEF GetsTo
<1>2. WasSealed(o)' => WasSealed(o) \/ \E e \in Staff : CompletePacking(o, e)
  BY <1>1 DEF WasSealed
<1>3. ASSUME NEW e \in Staff, CompletePacking(o, e) PROVE WasPicked(o)
  BY <1>3, ReachedIsOnRecord DEF CompletePacking, WasPicked
<1>4. ASSUME OnRecord(o, "READY_TO_PACK")', ~OnRecord(o, "READY_TO_PACK")
      PROVE  \/ WasSealed(o)
             \/ \E e \in Staff, g \in Garments : ScanItem(o, g, e) /\ LastItemScanned(o)
  BY <1>4, StepGetsTo, StepsDiffer DEF GetsTo
<1> QED BY <1>2, <1>3, <1>4 DEF WasPicked

\* What is on record for an order is about its task, and the order was paid.
LEMMA RecordIsPaid ==
  ASSUME RecordInv, NEW o \in Orders, WasPicked(o)
  PROVE  order[o] \notin Unpaid /\ task[o] \in Task /\ HasTask(o)
<1>1. PICK s : OnRecord(o, s)
  BY DEF WasPicked, WasSealed
<1>2. task[o] \in Task /\ order[o] \notin Unpaid
  <2>1. CASE s \in Reached(o)
    BY <2>1 DEF Reached, HasTask, RecordInv, IInv, ColumnsOK, UnpaidIsUntouched
  <2>2. CASE s \notin Reached(o)
    BY <1>1, <2>2, RequestFields DEF OnRecord, RecordInv, UnpaidIsUntouched
  <2> QED BY <2>1, <2>2
<1> QED BY <1>2, UnsetAssumption DEF HasTask

-----------------------------------------------------------------------------
(* The steps of the invariant.                                             *)

\* A request in progress was in progress, or was started on a task.
LEMMA RequestsStart ==
  ASSUME IInv, [Next]_vars, NEW d \in Calls, call'[d] # Idle
  PROVE  \/ call'[d] = call[d]
         \/ /\ call'[d].o \in Orders /\ HasTask(call'[d].o) /\ order' = order
            /\ call'[d].op \in {"assignPacker", "startPacking"} => call'[d].by \in Staff
<1>1. ASSUME NEW c \in Calls, NEW x \in Orders, Read(c, x), call'[d] # call[d]
      PROVE  /\ call'[d].o \in Orders /\ HasTask(call'[d].o) /\ order' = order
             /\ call'[d].op \in {"assignPacker", "startPacking"} => call'[d].by \in Staff
  <2>1. ASSUME NEW op, NEW read, Reads(c, op, x, read)
        PROVE  call'[d].op = op /\ call'[d].o = x /\ call'[d].by = read.by /\ order' = order
    BY <1>1, <2>1 DEF Reads, IInv, ColumnsOK, stockVars
  <2>2. CASE \E e \in Staff : \/ AssignPickerReads(c, x, e) \/ ClaimReads(c, x, e)
                              \/ AssignPackerReads(c, x, e)
                              \/ \E actor \in Staff : StartPackingReads(c, x, actor, e)
    <3>1. PICK e \in Staff : HasTask(x) /\ \E op : Reads(c, op, x, By(e))
      BY <2>2 DEF AssignPickerReads, ClaimReads, AssignPackerReads, StartPackingReads
    <3>2. By(e).by = e
      BY DEF By, Nothing
    <3> QED BY <2>1, <3>1, <3>2
  <2>3. ASSUME NEW op \in {"send", "handoff", "assignRider", "resend", "fail", "return",
                           "returned", "handover", "exception", "resolve"},
               NEW read, HasTask(x), Reads(c, op, x, read)
        PROVE  /\ call'[d].o \in Orders /\ HasTask(call'[d].o) /\ order' = order
               /\ call'[d].op \notin {"assignPacker", "startPacking"}
    <3>1. call'[d].op = op /\ call'[d].o = x /\ order' = order
      BY <2>1, <2>3
    <3> QED BY <2>3, <3>1
  <2>4. CASE HandoffReads(c, x) \/ AssignRiderReads(c, x) \/ ResendReads(c, x)
               \/ FailReads(c, x) \/ ReturnReads(c, x)
    BY <2>3, <2>4 DEF HandoffReads, AssignRiderReads, ResendReads, FailReads, ReturnReads
  <2>5. CASE SendReads(c, x)
    BY <2>3, <2>5 DEF SendReads
  <2>6. CASE VerifyCode(c, x)
    BY <2>3, <2>6 DEF VerifyCode
  <2>7. CASE ExceptionReads(c, x)
    BY <2>3, <2>7 DEF ExceptionReads
  <2>8. CASE ResolveReads(c, x)
    BY <2>3, <2>8 DEF ResolveReads
  <2> QED BY <1>1, <2>2, <2>4, <2>5, <2>6, <2>7, <2>8 DEF Read
<1>2. ASSUME NEW c \in Calls, Ends(c) PROVE call'[d] = call[d]
  BY <1>2 DEF Ends, IInv, ColumnsOK
<1>3. CASE UNCHANGED call
  BY <1>3
<1>4. ASSUME NEW c \in Calls, Write(c) PROVE Ends(c)
  BY <1>4 DEF Write, AssignPicker, Claim, AssignPacker, StartPacking, Send,
     MoveToHandoff, AssignRider, ResendDeliveryCode, MarkDeliveryFailed,
     StartReturnToNode, ConfirmReturnAtNode, CompleteOrder, MarkException,
     ResolveException, CallDies, Writes
<1>5. ASSUME NEW x \in Orders, Work(x) PROVE UNCHANGED call
  BY <1>5 DEF Work, Settle, ReassignPicker, ReassignPacker, CompletePacking,
     ScanItem, AssignNode, PrintLabel, ReceiveAtNode, HandToRider,
     CompleteWithoutCode, WriteOff, RecordRefund, Updates
<1> QED BY <1>1, <1>2, <1>3, <1>4, <1>5 DEF Next, vars

\* A packer is named when one is assigned or starts.
LEMMA TakerStep ==
  ASSUME RecordInv, [Next]_vars PROVE TakerIsNamed'
<1> SUFFICES ASSUME NEW d \in Calls, call'[d].op \in {"assignPacker", "startPacking"}
             PROVE  call'[d].by # None
  BY DEF TakerIsNamed
<1>1. call'[d] # Idle
  BY DEF Idle
<1> QED
  BY <1>1, RequestsStart, FulfillmentAssumption DEF RecordInv, TakerIsNamed

\* An order that waits for its payment is not worked on, and no order goes back
\* to waiting.
LEMMA UnpaidIsLeftAlone ==
  ASSUME RecordInv, [Next]_vars, NEW o \in Orders, order'[o] \in Unpaid
  PROVE  order[o] \in Unpaid /\ task'[o] = task[o] /\ verified'[o] = verified[o]
<1> USE DEF Unpaid
<1>1. order[o] \in Unpaid
  <2>1. [P!Next]_P!vars /\ order \in [Orders -> OrderStatus]
    BY NextMovesParcels DEF RecordInv, IInv, ColumnsOK
  <2> QED
    BY <2>1 DEF P!Next, P!vars, P!Pay, P!Start, P!Pick, P!Pack, P!Deliver, P!Refund,
       P!WriteOff, P!Moves
<1>2. ~HasTask(o) /\ \A c \in Calls : call[c] # Idle => call[c].o # o
  BY <1>1 DEF RecordInv, UnpaidIsUntouched, HasTask
<1>3. ASSUME NEW x \in Orders, Work(x)
      PROVE  task'[o] = task[o] /\ verified'[o] = verified[o]
  <2>1. CASE x # o
    BY <1>3, <2>1 DEF RecordInv, IInv, ColumnsOK, Work, Settle, ReassignPicker,
       ReassignPacker, CompletePacking, ScanItem, AssignNode, PrintLabel,
       ReceiveAtNode, HandToRider, CompleteWithoutCode, WriteOff, RecordRefund, Updates
  <2>2. CASE x = o
    <3>1. \/ Settle(o) \/ RecordRefund(o)
          \/ \E outcome \in {"AVAILABLE", "LOST"} : WriteOff(o, outcome)
      BY <1>2, <1>3, <2>2 DEF Work, ReassignPicker, ReassignPacker, CompletePacking,
         ScanItem, AssignNode, PrintLabel, ReceiveAtNode, HandToRider,
         CompleteWithoutCode
    <3> QED BY <3>1 DEF Settle, RecordRefund, WriteOff, RecordInv, IInv, ColumnsOK
  <2> QED BY <2>1, <2>2
<1>4. ASSUME NEW c \in Calls, Write(c)
      PROVE  task'[o] = task[o] /\ verified'[o] = verified[o]
  <2>1. call[c] # Idle => call[c].o # o
    BY <1>2
  <2> QED
    BY <1>4, <2>1 DEF RecordInv, IInv, ColumnsOK, Write, AssignPicker, Claim, AssignPacker,
       StartPacking, Send, MoveToHandoff, AssignRider, ResendDeliveryCode,
       MarkDeliveryFailed, StartReturnToNode, ConfirmReturnAtNode, CompleteOrder,
       MarkException, ResolveException, CallDies, Writes, Idle
<1>5. ASSUME NEW c \in Calls, NEW x \in Orders, Read(c, x)
      PROVE  task' = task /\ verified' = verified
  BY <1>5 DEF Read, AssignPickerReads, ClaimReads, AssignPackerReads,
     StartPackingReads, SendReads, HandoffReads, AssignRiderReads, ResendReads,
     FailReads, ReturnReads, VerifyCode, ExceptionReads, ResolveReads, Reads
<1> QED BY <1>1, <1>3, <1>4, <1>5 DEF Next, vars

\* Nobody works on an order that is not paid.
LEMMA UnpaidStep ==
  ASSUME RecordInv, [Next]_vars PROVE UnpaidIsUntouched'
<1>1. ASSUME NEW o \in Orders, order'[o] \in Unpaid
      PROVE  task'[o] = None /\ verified'[o] = {}
  BY <1>1, UnpaidIsLeftAlone DEF RecordInv, UnpaidIsUntouched
<1>2. ASSUME NEW d \in Calls, call'[d] # Idle PROVE order'[call'[d].o] \notin Unpaid
  <2>1. CASE call'[d] = call[d]
    BY <1>2, <2>1, RequestFields, UnpaidIsLeftAlone DEF RecordInv, UnpaidIsUntouched
  <2>2. CASE call'[d] # call[d]
    BY <1>2, <2>2, RequestsStart DEF RecordInv, UnpaidIsUntouched, HasTask
  <2> QED BY <2>1, <2>2
<1> QED BY <1>1, <1>2 DEF UnpaidIsUntouched, Unpaid

\* What is on record stays on the path of the delivery method.
LEMMA PathStep ==
  ASSUME RecordInv, [Next]_vars PROVE OnRecordOnPath'
<1> SUFFICES ASSUME NEW o \in Orders, NEW s \in {"READY_TO_PACK"} \cup Sealed,
                    OnRecord(o, s)'
             PROVE  s \in {"READY_TO_PACK", "PACKED"} \cup Further(o)'
  BY DEF OnRecordOnPath, Sealed, OnTheWay, Handoffs
<1>1. Further(o)' = Further(o)
  BY RowsAreFixed DEF fixedVars, Further, HandoffFor
<1>2. CASE OnRecord(o, s)
  BY <1>1, <1>2 DEF RecordInv, OnRecordOnPath
<1>3. CASE ~OnRecord(o, s)
  BY <1>1, <1>3, StepGetsTo, StepsDiffer DEF RecordInv, GetsTo
<1> QED BY <1>2, <1>3

\* The scanned garments of an order change by a scan alone.
LEMMA ScannedByScan ==
  ASSUME IInv, [Next]_vars, NEW o \in Orders, verified'[o] # verified[o]
  PROVE  \E e \in Staff, g \in Garments : ScanItem(o, g, e)
<1>1. ASSUME NEW x \in Orders, Work(x)
      PROVE  \E e \in Staff, g \in Garments : ScanItem(o, g, e)
  <2>1. PICK e \in Staff, g \in Garments : ScanItem(x, g, e)
    BY <1>1 DEF Work, Settle, ReassignPicker, ReassignPacker, CompletePacking,
       AssignNode, PrintLabel, ReceiveAtNode, HandToRider, CompleteWithoutCode,
       WriteOff, RecordRefund, Updates
  <2>2. x = o
    BY <2>1 DEF ScanItem, IInv, ColumnsOK
  <2> QED BY <2>1, <2>2
<1>2. ASSUME NEW c \in Calls, NEW x \in Orders, Read(c, x) PROVE UNCHANGED verified
  BY <1>2 DEF Read, AssignPickerReads, ClaimReads, AssignPackerReads,
     StartPackingReads, SendReads, HandoffReads, AssignRiderReads, ResendReads,
     FailReads, ReturnReads, VerifyCode, ExceptionReads, ResolveReads, Reads
<1>3. ASSUME NEW c \in Calls, Write(c) PROVE UNCHANGED verified
  BY <1>3 DEF Write, AssignPicker, Claim, AssignPacker, StartPacking, Send,
     MoveToHandoff, AssignRider, ResendDeliveryCode, MarkDeliveryFailed,
     StartReturnToNode, ConfirmReturnAtNode, CompleteOrder, MarkException,
     ResolveException, CallDies, Writes
<1> QED BY <1>1, <1>2, <1>3 DEF Next, vars

\* The last scan is what puts READY_TO_PACK on record; nothing takes a scan back.
LEMMA PickedStep ==
  ASSUME RecordInv, [Next]_vars PROVE PickedIsVerified'
<1> SUFFICES ASSUME NEW o \in Orders, WasPicked(o)' PROVE verified'[o] = items'[o]
  BY DEF PickedIsVerified
<1>1. items' = items
  BY RowsAreFixed DEF fixedVars
<1>2. CASE WasPicked(o)
  <2>1. verified[o] = items[o]
    BY <1>2 DEF RecordInv, PickedIsVerified
  <2>2. verified'[o] = verified[o]
    BY <2>1, ScannedByScan DEF ScanItem, RecordInv
  <2> QED BY <1>1, <2>1, <2>2
<1>3. CASE ~WasPicked(o)
  BY <1>1, <1>3, SealedByPacking DEF RecordInv, LastItemScanned
<1> QED BY <1>2, <1>3

\* A name that a task has is replaced by another, never taken away, while its
\* order is not paid anew.
LEMMA HandsStay ==
  ASSUME RecordInv, [Next]_vars, NEW o \in Orders, HasTask(o)
  PROVE  /\ task[o].packer # None => task'[o].packer # None
         /\ task[o].started # None => task'[o].started # None
<1> USE FulfillmentAssumption
<1>0. task[o] \in Task /\ order[o] \notin Unpaid /\ task \in [Orders -> Task \cup {None}]
  BY TaskIsRow DEF RecordInv, UnpaidIsUntouched, HasTask, IInv, ColumnsOK
<1>1. ASSUME NEW x \in Orders, NEW row, task' = [task EXCEPT ![x] = row],
             row.packer = task[x].packer, row.started = task[x].started
      PROVE  task'[o].packer = task[o].packer /\ task'[o].started = task[o].started
  BY <1>0, <1>1
<1>2. ASSUME NEW x \in Orders, Work(x)
      PROVE  /\ task[o].packer # None => task'[o].packer # None
             /\ task[o].started # None => task'[o].started # None
  <2>1. CASE x # o
    <3>1. task'[o] = task[o]
      BY <1>0, <1>2, <2>1 DEF Work, Settle, ReassignPicker,
       ReassignPacker, CompletePacking, ScanItem, AssignNode, PrintLabel,
       ReceiveAtNode, HandToRider, CompleteWithoutCode, WriteOff, RecordRefund, Updates
    <3> QED BY <3>1
  <2>2. CASE x = o
    <3>1. ~Settle(o)
      BY <1>0 DEF Settle, Unpaid
    <3>2. ASSUME NEW e \in Staff, ReassignPacker(o, e)
          PROVE  /\ task[o].packer # None => task'[o].packer # None
                 /\ task[o].started # None => task'[o].started # None
      BY <1>0, <3>2 DEF ReassignPacker, Updates, Task
    <3>3. ASSUME NEW e \in Staff, NEW g \in Garments, ScanItem(o, g, e)
          PROVE  /\ task[o].packer # None => task'[o].packer # None
                 /\ task[o].started # None => task'[o].started # None
      BY <1>0, <3>3 DEF ScanItem, PackerAfter, Task
    <3>4. ASSUME NEW e \in Staff, ReassignPicker(o, e) \/ CompletePacking(o, e)
          PROVE  task'[o].packer = task[o].packer /\ task'[o].started = task[o].started
      BY <1>0, <3>4 DEF ReassignPicker, CompletePacking, Updates, Task
    <3>5. ASSUME NEW n \in Nodes, AssignNode(o, n)
          PROVE  task'[o].packer = task[o].packer /\ task'[o].started = task[o].started
      BY <1>0, <3>5 DEF AssignNode, Task
    <3>6. CASE PrintLabel(o) \/ ReceiveAtNode(o) \/ CompleteWithoutCode(o)
      BY <1>0, <3>6 DEF PrintLabel, ReceiveAtNode, CompleteWithoutCode, Updates, Task
    <3>7. CASE HandToRider(o)
      <4>1. Minted(task[o]) \in Task
        BY <1>0, <3>7, MintedIsRow DEF HandToRider
      <4>2. Minted(task[o]).packer = task[o].packer
            /\ Minted(task[o]).started = task[o].started
        BY <1>0 DEF Minted, Task
      <4> QED BY <1>0, <3>7, <4>1, <4>2 DEF HandToRider, Updates, Task
    <3>8. ASSUME NEW outcome \in {"AVAILABLE", "LOST"}, WriteOff(o, outcome)
          PROVE  task'[o].packer = task[o].packer /\ task'[o].started = task[o].started
      BY <1>0, <3>8 DEF WriteOff, Task
    <3>9. CASE RecordRefund(o)
      BY <3>9 DEF RecordRefund
    <3> QED
      BY <1>2, <2>2, <3>1, <3>2, <3>3, <3>4, <3>5, <3>6, <3>7, <3>8, <3>9 DEF Work
  <2> QED BY <2>1, <2>2
<1>3. ASSUME NEW c \in Calls, Write(c)
      PROVE  /\ task[o].packer # None => task'[o].packer # None
             /\ task[o].started # None => task'[o].started # None
  <2>0. call[c].op # "idle" => call[c] # Idle /\ call[c].o \in Orders
    BY RequestFields DEF Idle, RecordInv
  <2>1. CASE call[c] = Idle \/ call[c].o # o
    <3>1. task'[o] = task[o]
      BY <1>0, <1>3, <2>0, <2>1 DEF Write, AssignPicker, Claim, AssignPacker, StartPacking,
       Send, MoveToHandoff, AssignRider, ResendDeliveryCode, MarkDeliveryFailed,
       StartReturnToNode, ConfirmReturnAtNode, CompleteOrder, MarkException,
       ResolveException, CallDies, Writes, Idle
    <3> QED BY <3>1
  <2>2. CASE call[c] # Idle /\ call[c].o = o
    <3>1. CASE AssignPacker(c) \/ StartPacking(c)
      <4>1. call[c].by # None
        BY <3>1 DEF AssignPacker, StartPacking, RecordInv, TakerIsNamed
      <4> QED BY <1>0, <2>2, <3>1, <4>1 DEF AssignPacker, StartPacking, Writes, Task
    <3>2. CASE ResendDeliveryCode(c)
      <4>1. Minted(task[o]).packer = task[o].packer
            /\ Minted(task[o]).started = task[o].started
        BY <1>0 DEF Minted, Task
      <4> QED BY <1>0, <2>2, <3>2, <4>1 DEF ResendDeliveryCode, Writes
    <3>3. ASSUME NEW row, Writes(c, row),
                 row.packer = task[o].packer, row.started = task[o].started
          PROVE  task'[o].packer = task[o].packer /\ task'[o].started = task[o].started
      BY <1>0, <2>2, <3>3 DEF Writes
    <3>4. CASE AssignPicker(c)
      <4> DEFINE row == [task[o] EXCEPT !.picker = call[c].by]
      <4>1. /\ Writes(c, row)
            /\ row.packer = task[o].packer /\ row.started = task[o].started
        BY <1>0, <2>2, <3>4 DEF AssignPicker, Task
      <4> HIDE DEF row
      <4> QED BY <3>3, <4>1
    <3>5. CASE Send(c)
      <4> DEFINE row == [task[o] EXCEPT !.st = "IN_TRANSIT_TO_NODE", !.node = call[c].at,
                                        !.label = call[c].label]
      <4>1. /\ Writes(c, row)
            /\ row.packer = task[o].packer /\ row.started = task[o].started
        BY <1>0, <2>2, <3>5 DEF Send, Task
      <4> HIDE DEF row
      <4> QED BY <3>3, <4>1
    <3>6. CASE MoveToHandoff(c)
      <4> DEFINE row == [task[o] EXCEPT !.st = HandoffFor(o)]
      <4>1. /\ Writes(c, row)
            /\ row.packer = task[o].packer /\ row.started = task[o].started
        BY <1>0, <2>2, <3>6 DEF MoveToHandoff, Task
      <4> HIDE DEF row
      <4> QED BY <3>3, <4>1
    <3>7. CASE AssignRider(c)
      <4> DEFINE row == [task[o] EXCEPT !.rider = TRUE]
      <4>1. /\ Writes(c, row)
            /\ row.packer = task[o].packer /\ row.started = task[o].started
        BY <1>0, <2>2, <3>7 DEF AssignRider, Task
      <4> HIDE DEF row
      <4> QED BY <3>3, <4>1
    <3>8. CASE MarkDeliveryFailed(c)
      <4> DEFINE row == [task[o] EXCEPT !.st = "DELIVERY_FAILED", !.code = 0]
      <4>1. /\ Writes(c, row)
            /\ row.packer = task[o].packer /\ row.started = task[o].started
        BY <1>0, <2>2, <3>8 DEF MarkDeliveryFailed, Task
      <4> HIDE DEF row
      <4> QED BY <3>3, <4>1
    <3>9. CASE StartReturnToNode(c)
      <4> DEFINE row == [task[o] EXCEPT !.st = "RETURNING_TO_NODE"]
      <4>1. /\ Writes(c, row)
            /\ row.packer = task[o].packer /\ row.started = task[o].started
        BY <1>0, <2>2, <3>9 DEF StartReturnToNode, Task
      <4> HIDE DEF row
      <4> QED BY <3>3, <4>1
    <3>10. CASE ConfirmReturnAtNode(c)
      <4> DEFINE row == [task[o] EXCEPT !.st = "ARRIVED_AT_NODE", !.rider = FALSE]
      <4>1. /\ Writes(c, row)
            /\ row.packer = task[o].packer /\ row.started = task[o].started
        BY <1>0, <2>2, <3>10 DEF ConfirmReturnAtNode, Task
      <4> HIDE DEF row
      <4> QED BY <3>3, <4>1
    <3>11. CASE MarkException(c)
      <4> DEFINE row == [task[o] EXCEPT !.st = "EXCEPTION", !.from = call[c].st]
      <4>1. /\ Writes(c, row)
            /\ row.packer = task[o].packer /\ row.started = task[o].started
        BY <1>0, <2>2, <3>11 DEF MarkException, Task
      <4> HIDE DEF row
      <4> QED BY <3>3, <4>1
    <3>12. CASE ResolveException(c)
      <4> DEFINE row == [task[o] EXCEPT !.st = call[c].st, !.from = None]
      <4>1. /\ Writes(c, row)
            /\ row.packer = task[o].packer /\ row.started = task[o].started
        BY <1>0, <2>2, <3>12 DEF ResolveException, Task
      <4> HIDE DEF row
      <4> QED BY <3>3, <4>1
    <3>13. CASE Claim(c) \/ CompleteOrder(c)
      BY <1>0, <2>2, <3>13 DEF Claim, CompleteOrder, Task
    <3>14. CASE CallDies(c)
      BY <3>14 DEF CallDies
    <3> QED
      BY <1>3, <3>1, <3>2, <3>4, <3>5, <3>6, <3>7, <3>8, <3>9,
         <3>10, <3>11, <3>12, <3>13, <3>14 DEF Write
  <2> QED BY <2>1, <2>2
<1>4. ASSUME NEW c \in Calls, NEW x \in Orders, Read(c, x) PROVE task' = task
  BY <1>4 DEF Read, AssignPickerReads, ClaimReads, AssignPackerReads,
     StartPackingReads, SendReads, HandoffReads, AssignRiderReads, ResendReads,
     FailReads, ReturnReads, VerifyCode, ExceptionReads, ResolveReads, Reads
<1> QED BY <1>2, <1>3, <1>4 DEF Next, vars

\* A picked order has a packer, and a sealed parcel was started.
LEMMA AssignedStep ==
  ASSUME RecordInv, [Next]_vars PROVE PickedIsAssigned'
<1>1. ASSUME NEW o \in Orders, WasPicked(o)' PROVE task'[o].packer # None
  <2>1. CASE WasPicked(o)
    BY <2>1, RecordIsPaid, HandsStay DEF RecordInv, PickedIsAssigned
  <2>2. ASSUME NEW e \in Staff, NEW g \in Garments, ScanItem(o, g, e), LastItemScanned(o)
        PROVE  task'[o].packer # None
    <3>1. task[o] \in Task /\ task \in [Orders -> Task \cup {None}]
      BY <2>2, TaskIsRow DEF ScanItem, RecordInv, IInv, ColumnsOK
    <3> QED
      BY <2>2, <3>1, FulfillmentAssumption DEF ScanItem, PackerAfter, Task
  <2> QED BY <1>1, <2>1, <2>2, SealedByPacking DEF RecordInv
<1>2. ASSUME NEW o \in Orders, WasSealed(o)' PROVE task'[o].started # None
  <2>1. CASE WasSealed(o)
    BY <2>1, RecordIsPaid, HandsStay DEF RecordInv, PickedIsAssigned, WasPicked
  <2>2. ASSUME NEW e \in Staff, CompletePacking(o, e) PROVE task'[o].started # None
    BY <2>2, HandsStay DEF CompletePacking
  <2> QED BY <1>2, <2>1, <2>2, SealedByPacking DEF RecordInv
<1> QED BY <1>1, <1>2 DEF PickedIsAssigned

\* A garment of a paid order leaves PICKED and PACKED, or its order is closed with
\* it, or an order that lists it too is closed.
LEMMA StockStays ==
  ASSUME RecordInv, [Next]_vars, NEW o \in Orders, NEW g \in items[o], Live(o), Live(o)'
  PROVE  \/ \E other \in Orders \ {o} : g \in items[other] /\ order'[other] = "CANCELLED"
         \/ inv'[g] = inv[g]
         \/ \E x \in Orders \ {o} : inv[g] \in {"AVAILABLE", "PAID"} /\ Settle(x)
         \/ inv'[g] = "PICKED" /\ \E e \in Staff, i \in Garments :
                                    ScanItem(o, i, e) /\ LastItemScanned(o)
         \/ inv'[g] = "PACKED" /\ \E e \in Staff : CompletePacking(o, e)
<1>0. /\ g \in Garments /\ order \in [Orders -> OrderStatus]
      /\ inv \in [Garments -> StockStatus]
  BY DEF RecordInv, IInv, ColumnsOK
<1>1. ASSUME NEW x \in Orders \ {o}, NEW from, Owned(x, from) PROVE g \notin items[x]
  BY <1>1 DEF Owned
<1>2. ASSUME NEW x \in Orders, NEW to, ItemsMove(x, to)
      PROVE  inv'[g] = IF g \in items[x] THEN to ELSE inv[g]
  BY <1>0, <1>2 DEF ItemsMove
<1>3. CASE UNCHANGED inv
  BY <1>3
<1>4. ASSUME NEW x \in Orders, Settle(x)
      PROVE  inv'[g] = inv[g] \/ (x # o /\ inv[g] \in {"AVAILABLE", "PAID"})
  <2>1. x # o
    BY <1>4 DEF Settle, Live
  <2>2. g \in items[x] => inv[g] \in {"AVAILABLE", "PAID"}
    BY <1>4 DEF Settle, Payable
  <2>3. g \notin items[x] => inv'[g] = inv[g]
    BY <1>0, <1>4 DEF Settle
  <2> QED BY <2>1, <2>2, <2>3
<1>5. ASSUME NEW x \in Orders, NEW e \in Staff, NEW i \in Garments, ScanItem(x, i, e)
      PROVE  \/ inv'[g] = inv[g]
             \/ x = o /\ inv'[g] = "PICKED" /\ LastItemScanned(o)
  <2>1. CASE x = o
    BY <1>2, <1>5, <2>1 DEF ScanItem, LastItemScanned
  <2>2. CASE x # o
    BY <1>1, <1>2, <1>5, <2>2 DEF ScanItem
  <2> QED BY <2>1, <2>2
<1>6. ASSUME NEW x \in Orders, NEW e \in Staff, CompletePacking(x, e)
      PROVE  inv'[g] = inv[g] \/ (x = o /\ inv'[g] = "PACKED")
  <2>0. Owned(x, "PICKED") /\ ItemsMove(x, "PACKED")
    BY <1>6 DEF CompletePacking
  <2>1. CASE x = o
    BY <1>2, <2>0, <2>1
  <2>2. CASE x # o
    BY <1>1, <1>2, <2>0, <2>2
  <2> QED BY <2>1, <2>2
<1>7. ASSUME NEW x \in Orders, Delivers(x) PROVE inv'[g] = inv[g]
  <2>1. x # o
    BY <1>0, <1>7 DEF Delivers, Live
  <2> QED BY <1>1, <1>2, <1>7, <2>1 DEF Delivers
<1>8. ASSUME NEW x \in Orders, NEW outcome \in {"AVAILABLE", "LOST"}, WriteOff(x, outcome)
      PROVE  \/ inv'[g] = inv[g]
             \/ x # o /\ g \in items[x] /\ order'[x] = "CANCELLED"
  BY <1>0, <1>8 DEF WriteOff, Live
<1>9. ASSUME NEW c \in Calls, Write(c) PROVE inv'[g] = inv[g]
  <2>1. CASE CompleteOrder(c)
    <3>1. call[c].o \in Orders
      BY <2>1, RequestFields DEF CompleteOrder, Idle, RecordInv
    <3> QED BY <1>7, <2>1, <3>1 DEF CompleteOrder
  <2>2. CASE ~CompleteOrder(c)
    BY <1>9, <2>2 DEF Write, AssignPicker, Claim, AssignPacker, StartPacking, Send,
     MoveToHandoff, AssignRider, ResendDeliveryCode, MarkDeliveryFailed,
     StartReturnToNode, ConfirmReturnAtNode, MarkException, ResolveException, CallDies,
     Writes, stockVars
  <2> QED BY <2>1, <2>2
<1>10. ASSUME NEW c \in Calls, NEW x \in Orders, Read(c, x) PROVE UNCHANGED inv
  BY <1>10, ReadMovesNothing DEF P!vars
<1>11. ASSUME NEW x \in Orders,
              \/ \E e \in Staff : ReassignPicker(x, e) \/ ReassignPacker(x, e)
              \/ \E n \in Nodes : AssignNode(x, n)
              \/ PrintLabel(x) \/ ReceiveAtNode(x) \/ HandToRider(x) \/ RecordRefund(x)
       PROVE  UNCHANGED inv
  BY <1>11 DEF ReassignPicker, ReassignPacker, AssignNode, PrintLabel, ReceiveAtNode,
     HandToRider, RecordRefund, Updates, stockVars
<1>12. ASSUME NEW x \in Orders, CompleteWithoutCode(x) PROVE inv'[g] = inv[g]
  BY <1>7, <1>12 DEF CompleteWithoutCode
<1>13. CASE UNCHANGED vars
  BY <1>3, <1>13 DEF vars, stockVars
<1>14. CASE \E x \in Orders : Work(x)
  <2>1. PICK x \in Orders : Work(x)
    BY <1>14
  <2>2. CASE \E e \in Staff : CompletePacking(x, e)
               \/ \E i \in Garments : ScanItem(x, i, e)
    BY <1>5, <1>6, <2>2
  <2>3. CASE Settle(x) \/ \E outcome \in {"AVAILABLE", "LOST"} : WriteOff(x, outcome)
    BY <1>4, <1>8, <2>3
  <2> QED BY <1>3, <1>11, <1>12, <2>1, <2>2, <2>3 DEF Work
<1> QED BY <1>3, <1>9, <1>10, <1>13, <1>14 DEF Next

\* Stock is moved with the scans and the packing.
LEMMA StockStep ==
  ASSUME RecordInv, [Next]_vars PROVE StockIsMoved'
<1>1. items' = items
  BY RowsAreFixed DEF fixedVars
<1> SUFFICES ASSUME NEW o \in Orders, NEW g \in Garments, Live(o)', g \in items[o],
                    \A other \in Orders \ {o} :
                      g \in items[other] => order'[other] \notin {"CANCELLED", "REFUNDED"}
             PROVE  /\ WasSealed(o)' => inv'[g] = "PACKED"
                    /\ verified'[o] = items[o] => inv'[g] \in {"PICKED", "PACKED"}
  BY <1>1 DEF StockIsMoved
\* The order has just been paid: nothing of it has been scanned.
<1>2. CASE ~Live(o)
  <2>1. order[o] \in Unpaid
    <3>1. [P!Next]_P!vars /\ order \in [Orders -> OrderStatus]
      BY NextMovesParcels DEF RecordInv, IInv, ColumnsOK
    <3> QED
      BY <1>2, <3>1 DEF Live, Unpaid, OrderStatus, P!Next, P!vars, P!Pay, P!Start,
         P!Pick, P!Pack, P!Deliver, P!Refund, P!WriteOff, P!Moves, P!Live, P!Open
  <2>2. /\ task[o] = None /\ verified[o] = {}
        /\ ~WasPicked(o)
    BY <2>1, RecordIsPaid DEF RecordInv, UnpaidIsUntouched
  <2>3. /\ \A e \in Staff, i \in Garments : ~ScanItem(o, i, e)
        /\ \A e \in Staff : ~CompletePacking(o, e)
    BY <2>2 DEF ScanItem, CompletePacking, HasTask
  <2>4. verified'[o] # items[o]
    BY <2>2, <2>3, ScannedByScan DEF RecordInv
  <2>5. ~WasSealed(o)'
    BY <2>2, <2>3, SealedByPacking DEF RecordInv, WasPicked
  <2> QED BY <2>4, <2>5
<1>3. CASE Live(o)
  <2>1. \A other \in Orders \ {o} :
          g \in items[other] => order[other] \notin {"CANCELLED", "REFUNDED"}
    <3>1. [P!Next]_P!vars /\ order \in [Orders -> OrderStatus]
      BY NextMovesParcels DEF RecordInv, IInv, ColumnsOK
    <3>2. \A x \in Orders : order[x] \in {"CANCELLED", "REFUNDED"}
                              => order'[x] \in {"CANCELLED", "REFUNDED"}
      BY <3>1 DEF P!Next, P!vars, P!Pay, P!Start, P!Pick, P!Pack, P!Deliver, P!Refund,
         P!WriteOff, P!Moves, P!Live, P!Open
    <3> QED BY <3>2
  <2>2. /\ WasSealed(o) => inv[g] = "PACKED"
        /\ verified[o] = items[o] => inv[g] \in {"PICKED", "PACKED"}
    BY <1>3, <2>1 DEF RecordInv, StockIsMoved
  <2>3. ASSUME NEW e \in Staff, CompletePacking(o, e) PROVE inv'[g] = "PACKED"
    BY <2>3 DEF CompletePacking, ItemsMove
  <2>4. ASSUME NEW e \in Staff, NEW i \in Garments, ScanItem(o, i, e), LastItemScanned(o)
        PROVE  inv'[g] = "PICKED" /\ ~WasSealed(o)'
    <3>1. inv'[g] = "PICKED"
      BY <2>4 DEF ScanItem, ItemsMove
    <3>2. ~WasSealed(o)
      BY <2>4 DEF ScanItem, RecordInv, PickedIsVerified, WasPicked
    <3>3. \A f \in Staff : ~CompletePacking(o, f)
      BY <2>4 DEF ScanItem, CompletePacking
    <3> QED BY <3>1, <3>2, <3>3, SealedByPacking DEF RecordInv
  <2>5. CASE inv'[g] = inv[g]
    <3>1. WasSealed(o)' => inv'[g] = "PACKED"
      BY <2>2, <2>3, <2>5, SealedByPacking DEF RecordInv
    <3>2. ASSUME verified'[o] = items[o], verified'[o] # verified[o]
          PROVE  inv'[g] \in {"PICKED", "PACKED"}
      BY <2>4, <3>2, ScannedByScan DEF RecordInv, LastItemScanned, ScanItem
    <3> QED BY <2>2, <2>5, <3>1, <3>2
  <2>6. ASSUME NEW x \in Orders \ {o}, Settle(x), inv[g] \in {"AVAILABLE", "PAID"}
        PROVE  verified'[o] # items[o] /\ ~WasSealed(o)'
    <3>1. verified[o] # items[o] /\ ~WasSealed(o)
      BY <2>2, <2>6
    <3>2. verified' = verified /\ task'[o] = task[o] /\ UNCHANGED <<call, method>>
      BY <2>6 DEF Settle, fixedVars, RecordInv, IInv, ColumnsOK
    <3> QED
      BY <3>1, <3>2 DEF WasSealed, OnRecord, Reached, HasTask, Keeps, HandoffFor
  <2> QED
    BY <1>3, <2>3, <2>4, <2>5, <2>6, StockStays
<1> QED BY <1>2, <1>3

-----------------------------------------------------------------------------
(* What holds of every reachable state.                                    *)

\* RecordInv holds of every reachable state.
LEMMA RecordInvHolds == Spec => []RecordInv
<1>1. Init => RecordInv
  <2> SUFFICES ASSUME Init PROVE RecordInv
    OBVIOUS
  <2>1. IInv
    BY InitIInv
  <2>2. /\ \A c \in Calls : call[c] = Idle
        /\ \A o \in Orders : verified[o] = {}
        /\ \A o \in Orders : task[o] = IF order[o] = "PAID" THEN NewTask(node[o]) ELSE None
    BY DEF Init
  <2>3. UnpaidIsUntouched /\ TakerIsNamed
    BY <2>2 DEF UnpaidIsUntouched, TakerIsNamed, Unpaid, Idle
  <2>4. \A o \in Orders, s \in {"READY_TO_PACK"} \cup Sealed : ~OnRecord(o, s)
    <3>1. ASSUME NEW o \in Orders, NEW s, OnRecord(o, s) PROVE s \in {"PAID", None}
      <4>1. s \in Reached(o)
        BY <2>2, <3>1 DEF OnRecord
      <4>2. HasTask(o) /\ task[o] = NewTask(node[o])
        BY <2>2, <4>1 DEF Reached, HasTask
      <4> QED BY <4>1, <4>2 DEF Reached, NewTask
    <3> QED BY <3>1, StepsDiffer
  <2>5. \A o \in Orders : ~WasPicked(o) /\ ~WasSealed(o)
    BY <2>4 DEF WasPicked, WasSealed
  <2>6. StockIsMoved
    BY <2>2, <2>5 DEF StockIsMoved
  <2> QED
    BY <2>1, <2>3, <2>4, <2>5, <2>6
       DEF RecordInv, OnRecordOnPath, PickedIsVerified, PickedIsAssigned
<1>2. RecordInv /\ [Next]_vars => RecordInv'
  BY NextKeepsIInv, UnpaidStep, TakerStep, PathStep, PickedStep, AssignedStep, StockStep
     DEF RecordInv
<1> QED BY <1>1, <1>2, PTL DEF Spec

\* What an order has reached is on record.
LEMMA ReachedIsSealed ==
  ASSUME NEW o \in Orders
  PROVE  /\ Reached(o) \cap Sealed # {} => WasSealed(o)
         /\ Reached(o) \cap (Sealed \cup {"READY_TO_PACK"}) # {} => WasPicked(o)
BY DEF OnRecord, WasSealed, WasPicked

\* Whatever stale hand-off or resolved exception put it there, a task past
\* picking has every garment scanned.
THEOREM PastPickingIsScanned == Spec => []SealedMeansVerified
<1>1. RecordInv => SealedMeansVerified
  BY ReachedIsSealed DEF RecordInv, PickedIsVerified, SealedMeansVerified
<1> QED BY <1>1, RecordInvHolds, PTL

\* A parcel that can be packed has a packer, and a sealed one was started.
THEOREM PackingHasHands == Spec => []PackingIsAssigned
<1>1. RecordInv => PackingIsAssigned
  BY ReachedIsSealed DEF RecordInv, PickedIsAssigned, PackingIsAssigned, Reached
<1> QED BY <1>1, RecordInvHolds, PTL

\* No pickup is sent out with a rider, and no delivery waits to be picked up.
THEOREM PathsStayApart == Spec => []PathsAreExclusive
<1>1. RecordInv => PathsAreExclusive
  <2> SUFFICES ASSUME RecordInv, NEW o \in Orders, NEW s \in Sealed, s \in Reached(o)
               PROVE  s \notin (IF method[o] = "DELIVERY" THEN {"READY_FOR_PICKUP"}
                                ELSE {"READY_FOR_DISPATCH", "OUT_FOR_DELIVERY",
                                      "DELIVERY_FAILED", "RETURNING_TO_NODE"})
    BY DEF PathsAreExclusive, Sealed, OnTheWay, Handoffs
  <2>1. s \in {"READY_TO_PACK", "PACKED"} \cup Further(o)
    BY DEF RecordInv, OnRecordOnPath, OnRecord
  <2>2. method[o] \in {"PICKUP", "DELIVERY"}
    BY DEF RecordInv, IInv, ColumnsOK
  <2> QED BY <2>1, <2>2 DEF Further, HandoffFor
<1> QED BY <1>1, RecordInvHolds, PTL

\* The stock of a paid order follows its task, up to garments that a closed order
\* lists too.
THEOREM StockIsWhereTheTaskIs == Spec => []StockFollowsTheTask
<1>1. RecordInv => StockFollowsTheTask
  BY ReachedIsSealed DEF RecordInv, StockIsMoved, StockFollowsTheTask
<1> QED BY <1>1, RecordInvHolds, PTL
=============================================================================
