--------------------------- MODULE ShelvesProofs ----------------------------
(***************************************************************************)
(* Theorems about Shelves, for any garments, shelves, transactions and     *)
(* capacities.                                                             *)
(***************************************************************************)
EXTENDS Shelves, FiniteSetTheorems, TLAPS

\* What counts against the capacity of a shelf.
Load(s) == On(s) \ excused

\* A placement that holds the lock of its shelf still has room there.
PlaceInv(t) ==
  Doing(t, "PLACE") /\ holder[tx[t].to] = t =>
    /\ shelf[tx[t].to].open
    /\ Cardinality(Load(tx[t].to) \cup tx[t].of) <= shelf[tx[t].to].capacity

\* A restore that is still under way has room on every shelf it is to write.
RestoreInv(t) ==
  Doing(t, "RESTORE") =>
    /\ \A g \in Of(t, "item") : item[g].freed \in Of(t, "shelf")
    /\ \A s \in Of(t, "shelf") :
         /\ shelf[s].open
         /\ Cardinality(Load(s) \cup FromShelf(Of(t, "item"), s))
              <= shelf[s].capacity

\* A cancellation that is still under way takes only what never went live, and
\* deletes only what nobody has ordered.
CancelInv(t) ==
  Doing(t, "CANCEL") =>
    /\ Of(t, "product") \subseteq Unfinished
    /\ tx[t].del \subseteq (Of(t, "product") \cap Of(t, "item")) \ ordered

TxInv(t) == PlaceInv(t) /\ RestoreInv(t) /\ CancelInv(t)
IInv == TypeOK /\ OverfullIsExplained /\ \A t \in Txs : TxInv(t)

-----------------------------------------------------------------------------
(* Transactions.                                                           *)

LEMMA TxKinds ==
  ASSUME TypeOK, NEW t \in Txs, tx[t] # None
  PROVE  /\ Doing(t, "PLACE") => tx[t] \in Placing
         /\ Doing(t, "PICK") => tx[t] \in Picking
         /\ Serializable(t) => tx[t] \in Serial
         /\ Doing(t, "WAIT_ASSIGN") \/ Doing(t, "WAIT_MOVE") => tx[t] \in Waiting
  BY DEF TypeOK, Tx, Doing, Serializable, Waiting, Placing, Picking, Serial,
         Completing

LEMMA OfTypes ==
  ASSUME TypeOK, NEW t \in Txs, Serializable(t)
  PROVE  /\ tx[t].rows \subseteq Rows /\ tx[t].del \subseteq Garments
         /\ Of(t, "product") \subseteq Garments
         /\ Of(t, "item") \subseteq Garments
         /\ Of(t, "shelf") \subseteq Shelves
         /\ \A x : x \in Of(t, "product") => <<"product", x>> \in tx[t].rows
         /\ \A x : x \in Of(t, "item") => <<"item", x>> \in tx[t].rows
         /\ \A x : x \in Of(t, "shelf") => <<"shelf", x>> \in tx[t].rows
<1>1. tx[t] \in Serial
  BY TxKinds DEF Serializable, Doing
<1>2. tx[t].rows \subseteq Rows /\ tx[t].del \subseteq Garments
  BY <1>1 DEF Serial
<1>3. \A r \in Rows :
        /\ r = <<r[1], r[2]>>
        /\ r[1] \in {"product", "item"} => r[2] \in Garments
        /\ r[1] = "shelf" => r[2] \in Shelves
  BY DEF Rows
<1>4. ASSUME NEW table, NEW x \in Of(t, table)
      PROVE  <<table, x>> \in tx[t].rows /\ <<table, x>> \in Rows
  <2>1. PICK r \in tx[t].rows : r[1] = table /\ r[2] = x
    BY <1>4 DEF Of
  <2>2. r = <<table, x>>
    BY <1>2, <1>3, <2>1
  <2> QED
    BY <1>2, <2>2
<1>5. /\ \A x : <<"product", x>> \in Rows => x \in Garments
      /\ \A x : <<"item", x>> \in Rows => x \in Garments
      /\ \A x : <<"shelf", x>> \in Rows => x \in Shelves
  BY DEF Rows
<1>6. /\ \A x : x \in Of(t, "product") => <<"product", x>> \in tx[t].rows /\ <<"product", x>> \in Rows
      /\ \A x : x \in Of(t, "item") => <<"item", x>> \in tx[t].rows /\ <<"item", x>> \in Rows
      /\ \A x : x \in Of(t, "shelf") => <<"shelf", x>> \in tx[t].rows /\ <<"shelf", x>> \in Rows
  BY <1>4
<1> QED
  BY <1>2, <1>5, <1>6

\* A transaction whose rows others have not written goes on; the others are over.
LEMMA WrittenFrame ==
  ASSUME TypeOK, NEW W, Written(W), NEW u \in Txs
  PROVE  tx'[u] = None \/ (tx'[u] = tx[u] /\ ~Loses(u, W))
  BY DEF Written, TypeOK

LEMMA CommitsFrame ==
  ASSUME TypeOK, NEW t \in Txs, NEW W, Commits(t, W), NEW u \in Txs
  PROVE  /\ tx'[u] = None \/ (u # t /\ tx'[u] = tx[u] /\ ~Loses(u, W) /\ ~Pivot(t, u))
         /\ \A s \in Shelves : holder'[s] = u => holder[s] = u
<1>1. tx'[u] = None \/ (u # t /\ tx'[u] = tx[u] /\ ~Loses(u, W) /\ ~Pivot(t, u))
  BY DEF Commits
<1>2. \A s \in Shelves : holder'[s] = u => holder[s] = u
  BY ShelvesAssumption DEF Commits, Unlocked
<1> QED
  BY <1>1, <1>2

LEMMA WrittenTypes ==
  ASSUME TypeOK, NEW W, Written(W)
  PROVE  tx' \in [Txs -> Tx \cup {None}]
  BY DEF TypeOK, Written

LEMMA CommitsTypes ==
  ASSUME TypeOK, NEW t \in Txs, NEW W, Commits(t, W)
  PROVE  /\ tx' \in [Txs -> Tx \cup {None}]
         /\ holder' \in [Shelves -> Txs \cup {None}]
  BY DEF TypeOK, Commits, Unlocked

LEMMA BeginsTypes ==
  ASSUME TypeOK, NEW t \in Txs, NEW rec, Begins(t, rec),
         rec \in Tx \cup {None}
  PROVE  /\ tx' \in [Txs -> Tx \cup {None}]
         /\ tx'[t] = rec
         /\ \A u \in Txs : u # t => tx'[u] = tx[u]
  BY DEF TypeOK, Begins

-----------------------------------------------------------------------------
(* Types.                                                                  *)

LEMMA InitTypes == Init => TypeOK
  BY ShelvesAssumption DEF Init, TypeOK, Product, Item, NoItem

LEMMA PlanTypes ==
  ASSUME TypeOK, NEW t \in Txs, NEW S \in SUBSET Garments,
         NEW N \in SUBSET Garments, NEW to \in Shelves, NEW F \in SUBSET Shelves
  PROVE  [kind |-> "PLACE", of |-> S, new |-> N, to |-> to, from |-> F] \in Placing
  BY DEF Placing

LEMMA LockTypes ==
  ASSUME TypeOK, NEW t \in Txs, Lock(t)
  PROVE  TypeOK'
<1>1. PICK rec \in Waiting : Begins(t, rec)
  BY DEF Lock
<1>2. tx' \in [Txs -> Tx \cup {None}]
  BY <1>1, BeginsTypes DEF Tx
<1>3. holder' \in [Shelves -> Txs \cup {None}]
  BY DEF Lock, TypeOK
<1> QED
  BY <1>2, <1>3 DEF Lock, TypeOK, garmentVars, batchVars

LEMMA PlanAssignTypes ==
  ASSUME TypeOK, NEW t \in Txs, NEW to \in Shelves, PlanAssign(t, to)
  PROVE  TypeOK'
<1> DEFINE without == {g \in tx[t].of : item[g].at = None}
           new == {g \in without : item[g].st = "NONE"}
           rec == [kind |-> "PLACE", of |-> without, new |-> new, to |-> to, from |-> {}]
<1>1. tx[t] \in Waiting
  BY TxKinds DEF PlanAssign, Doing
<1>2. without \in SUBSET Garments /\ new \in SUBSET Garments
  BY <1>1 DEF Waiting
<1>3. rec \in Placing
  BY <1>2, PlanTypes
<1>4. Begins(t, rec)
  BY DEF PlanAssign
<1>5. tx' \in [Txs -> Tx \cup {None}]
  <2> HIDE DEF rec
  <2> QED
    BY <1>3, <1>4, BeginsTypes DEF Tx
<1> QED
  BY <1>5 DEF PlanAssign, TypeOK, garmentVars, batchVars

LEMMA PlanMoveTypes ==
  ASSUME TypeOK, NEW t \in Txs, NEW to \in Shelves, PlanMove(t, to)
  PROVE  TypeOK'
<1> DEFINE moving == {g \in tx[t].of : Movable(g, to) /\ item[g].at # None}
           from == {item[g].at : g \in moving}
           rec == [kind |-> "PLACE", of |-> moving, new |-> {}, to |-> to, from |-> from]
<1>1. tx[t] \in Waiting
  BY TxKinds DEF PlanMove, Doing
<1>2. moving \in SUBSET Garments
  BY <1>1 DEF Waiting
<1>3. from \in SUBSET Shelves
  BY <1>2 DEF TypeOK, Item
<1>4. rec \in Placing
  BY <1>2, <1>3, PlanTypes
<1>5. Begins(t, rec)
  BY DEF PlanMove
<1>6. tx' \in [Txs -> Tx \cup {None}]
  <2> HIDE DEF rec
  <2> QED
    BY <1>4, <1>5, BeginsTypes DEF Tx
<1> QED
  BY <1>6 DEF PlanMove, TypeOK, garmentVars, batchVars

LEMMA MoveOneTypes ==
  ASSUME TypeOK, NEW t \in Txs, NEW g \in Garments, NEW to \in Shelves,
         MoveOne(t, g, to)
  PROVE  TypeOK'
<1> DEFINE from == {item[g].at} \ {None}
           rec == [kind |-> "PLACE", of |-> {g}, new |-> {}, to |-> to, from |-> from]
<1>1. from \in SUBSET Shelves
  BY DEF TypeOK, Item
<1>2. rec \in Placing
  BY <1>1, PlanTypes
<1>3. Begins(t, rec)
  BY DEF MoveOne
<1>4. tx' \in [Txs -> Tx \cup {None}]
  <2> HIDE DEF rec
  <2> QED
    BY <1>2, <1>3, BeginsTypes DEF Tx
<1>5. holder' \in [Shelves -> Txs \cup {None}]
  BY DEF MoveOne
<1> QED
  BY <1>4, <1>5 DEF MoveOne, TypeOK, garmentVars, batchVars

LEMMA PlaceTypes ==
  ASSUME TypeOK, NEW t \in Txs, Place(t)
  PROVE  TypeOK'
<1>1. tx[t] \in Placing
  BY TxKinds DEF Place, Doing
<1>2. /\ tx' \in [Txs -> Tx \cup {None}]
      /\ holder' \in [Shelves -> Txs \cup {None}]
  BY CommitsTypes DEF Place
<1>3. item' \in [Garments -> Item]
  BY <1>1 DEF Place, PlacedBy, TypeOK, Item, Placing
<1>4. excused' \subseteq Garments
  BY <1>1 DEF Place, TypeOK, Placing
<1> QED
  BY <1>2, <1>3, <1>4 DEF Place, TypeOK, batchVars

LEMMA DeskTypes ==
  ASSUME TypeOK, NEW s \in Shelves, Desk(s)
  PROVE  TypeOK'
<1>1. CASE SetLocationStatus(s)
  <2>1. tx' \in [Txs -> Tx \cup {None}]
    BY <1>1, WrittenTypes DEF SetLocationStatus
  <2>2. [shelf[s] EXCEPT !.open = ~shelf[s].open] \in Shelf
    BY DEF TypeOK, Shelf
  <2>3. shelf' = [shelf EXCEPT ![s] = [shelf[s] EXCEPT !.open = ~shelf[s].open]]
    BY <1>1 DEF SetLocationStatus, TypeOK
  <2>4. shelf' \in [Shelves -> Shelf] /\ changes' \in 0..MaxChanges
    BY <1>1, <2>2, <2>3, ShelvesAssumption DEF SetLocationStatus, TypeOK
  <2> QED
    BY <1>1, <2>1, <2>4 DEF SetLocationStatus, TypeOK, garmentVars, batchVars
<1>2. ASSUME NEW c \in 1..MaxCapacity, UpdateCapacity(s, c) PROVE TypeOK'
  <2>1. tx' \in [Txs -> Tx \cup {None}]
    BY <1>2, WrittenTypes DEF UpdateCapacity
  <2>2. shelf' \in [Shelves -> Shelf] /\ changes' \in 0..MaxChanges
    BY <1>2, ShelvesAssumption DEF UpdateCapacity, TypeOK, Shelf
  <2> QED
    BY <1>2, <2>1, <2>2 DEF UpdateCapacity, TypeOK, garmentVars, batchVars
<1> QED
  BY <1>1, <1>2 DEF Desk

LEMMA BecomesTypes ==
  ASSUME TypeOK, NEW g \in Garments, NEW from, NEW to, Becomes(g, from, to),
         to \in {"EARLY", "READY", "LIVE", "ARCHIVED"},
         to = "ARCHIVED" => from \in {"EARLY", "READY"}
  PROVE  TypeOK'
<1>1. tx' \in [Txs -> Tx \cup {None}]
  BY WrittenTypes DEF Becomes
<1>2. product' \in [Garments -> Product]
  BY DEF Becomes, TypeOK, Product
<1> QED
  BY <1>1, <1>2 DEF Becomes, TypeOK, batchVars

LEMMA StockTypes ==
  ASSUME TypeOK, NEW g \in Garments, NEW from, NEW to, Stock(g, from, to),
         to \in {"STOCK", "HELD", "PAID"},
         ordered' \subseteq Garments, excused' \subseteq Garments
  PROVE  TypeOK'
<1>1. tx' \in [Txs -> Tx \cup {None}]
  BY WrittenTypes DEF Stock
<1>2. item' \in [Garments -> Item]
  BY DEF Stock, TypeOK, Item
<1> QED
  BY <1>1, <1>2 DEF Stock, TypeOK, batchVars

LEMMA LifecycleTypes ==
  ASSUME TypeOK, NEW g \in Garments, Lifecycle(g)
  PROVE  TypeOK'
<1>1. CASE \/ Barcode(g) \/ Rework(g) \/ Publish(g)
             \/ RejectAtReview(g) \/ RejectAtDisplayReview(g)
  BY <1>1, BecomesTypes DEF Barcode, Rework, Publish, RejectAtReview,
         RejectAtDisplayReview
<1>2. CASE Reserve(g) \/ Pay(g) \/ Release(g) \/ WriteOff(g)
  <2>1. ordered' \subseteq Garments /\ excused' \subseteq Garments
    BY <1>2 DEF Reserve, Pay, Release, WriteOff, TypeOK
  <2> QED
    BY <1>2, <2>1, StockTypes DEF Reserve, Pay, Release, WriteOff
<1>3. ASSUME NEW s \in Shelves, Restock(g, s) PROVE TypeOK'
  <2>1. tx' \in [Txs -> Tx \cup {None}]
    BY <1>3, WrittenTypes DEF Restock
  <2>2. item' \in [Garments -> Item] /\ product' \in [Garments -> Product]
    BY <1>3 DEF Restock, TypeOK, Item, Product
  <2> QED
    BY <1>3, <2>1, <2>2 DEF Restock, TypeOK, batchVars
<1> QED
  BY <1>1, <1>2, <1>3 DEF Lifecycle

LEMMA PickTypes ==
  ASSUME TypeOK, NEW t \in Txs, NEW g \in Garments, Pick(t, g)
  PROVE  TypeOK'
<1> DEFINE rec == [kind |-> "PICK", of |-> g, at |-> item[g].at,
                   open |-> shelf[item[g].at].open]
<1>1. item[g].at \in Shelves
  BY DEF Pick, TypeOK, Item
<1>2. shelf[item[g].at].open \in BOOLEAN
  BY <1>1 DEF TypeOK, Shelf
<1>3. rec \in Picking
  BY <1>1, <1>2 DEF Picking
<1>4. Begins(t, rec)
  BY DEF Pick
<1>5. tx' \in [Txs -> Tx \cup {None}]
  <2> HIDE DEF rec
  <2> QED
    BY <1>3, <1>4, BeginsTypes DEF Tx
<1> QED
  BY <1>5 DEF Pick, TypeOK, garmentVars, batchVars

LEMMA PickedTypes ==
  ASSUME TypeOK, NEW t \in Txs, Picked(t)
  PROVE  TypeOK'
<1>1. tx[t] \in Picking
  BY TxKinds DEF Picked, Doing
<1>2. /\ tx' \in [Txs -> Tx \cup {None}]
      /\ holder' \in [Shelves -> Txs \cup {None}]
  BY CommitsTypes DEF Picked
<1>3. tx[t].of \in Garments /\ tx[t].at \in Shelves /\ tx[t].open \in BOOLEAN
  BY <1>1 DEF Picking
<1>4. item' \in [Garments -> Item]
  BY <1>3 DEF Picked, TypeOK, Item
<1>5. [shelf[tx[t].at] EXCEPT !.open = tx[t].open] \in Shelf
  BY <1>3 DEF TypeOK, Shelf
<1>6. shelf' = [shelf EXCEPT ![tx[t].at] = [shelf[tx[t].at] EXCEPT !.open = tx[t].open]]
  BY DEF Picked, TypeOK
<1>7. shelf' \in [Shelves -> Shelf]
  BY <1>5, <1>6 DEF TypeOK
<1>8. excused' \subseteq Garments
  BY DEF Picked, TypeOK
<1> QED
  BY <1>2, <1>4, <1>7, <1>8 DEF Picked, TypeOK, batchVars

LEMMA CompleteTypes ==
  ASSUME TypeOK, NEW t \in Txs, Count(t) \/ Complete(t)
  PROVE  TypeOK'
<1>1. CASE Count(t)
  <2>1. [kind |-> "COMPLETE"] \in Completing
    BY DEF Completing
  <2>2. tx' \in [Txs -> Tx \cup {None}]
    BY <1>1, <2>1, BeginsTypes DEF Count, Tx
  <2> QED
    BY <1>1, <2>2 DEF Count, TypeOK, garmentVars, batchVars
<1>2. CASE Complete(t)
  <2>1. /\ tx' \in [Txs -> Tx \cup {None}]
        /\ holder' \in [Shelves -> Txs \cup {None}]
    BY <1>2, CommitsTypes DEF Complete
  <2> QED
    BY <1>2, <2>1 DEF Complete, TypeOK, garmentVars
<1> QED
  BY <1>1, <1>2

LEMMA AbortTypes ==
  ASSUME TypeOK, NEW t \in Txs, Abort(t)
  PROVE  TypeOK'
<1>1. tx' \in [Txs -> Tx \cup {None}]
  BY BeginsTypes DEF Abort
<1>2. holder' \in [Shelves -> Txs \cup {None}]
  BY DEF Abort, Unlocked, TypeOK
<1> QED
  BY <1>1, <1>2 DEF Abort, TypeOK, garmentVars, batchVars

LEMMA RowsTypes ==
  ASSUME NEW P \in SUBSET Garments, NEW I \in SUBSET Garments,
         NEW S \in SUBSET Shelves, NEW B \in SUBSET {BatchRow}
  PROVE  ProductRows(P) \cup ItemRows(I) \cup ShelfRows(S) \cup B \subseteq Rows
  BY DEF Rows, ProductRows, ItemRows, ShelfRows, BatchRow

LEMMA BeginCancelTypes ==
  ASSUME TypeOK, NEW t \in Txs, BeginCancel(t)
  PROVE  TypeOK'
<1> DEFINE shelved == {g \in Unfinished : item[g].at # None}
           S == {item[g].at : g \in shelved}
           rows == ProductRows(Unfinished) \cup ItemRows(ToDelete \cup shelved)
                     \cup ShelfRows(S) \cup {BatchRow}
           rec == [kind |-> "CANCEL", del |-> ToDelete, rows |-> rows]
<1>1. /\ Unfinished \in SUBSET Garments /\ ToDelete \in SUBSET Garments
      /\ ToDelete \cup shelved \in SUBSET Garments
  BY DEF Unfinished, ToDelete
<1>2. S \in SUBSET Shelves
  BY <1>1 DEF TypeOK, Item
<1>3. rows \subseteq Rows
  BY <1>1, <1>2, RowsTypes
<1>4. rec \in Serial
  BY <1>1, <1>3 DEF Serial
<1>5. Begins(t, rec)
  BY DEF BeginCancel
<1>6. tx' \in [Txs -> Tx \cup {None}]
  <2> HIDE DEF rec
  <2> QED
    BY <1>4, <1>5, BeginsTypes DEF Tx
<1> QED
  BY <1>6 DEF BeginCancel, TypeOK, garmentVars, batchVars

LEMMA BeginRestoreTypes ==
  ASSUME TypeOK, NEW t \in Txs, NEW g \in Garments, BeginRestore(t, g)
  PROVE  TypeOK'
<1> DEFINE coming == {h \in Together(g) : Has(h, "ARCHIVED")}
           B == {r \in {BatchRow} : batch # "OPEN"}
           rows(back) == ProductRows(coming) \cup ItemRows(back)
                           \cup ShelfRows({item[h].freed : h \in back}) \cup B
           rec(back) == [kind |-> "RESTORE", del |-> {}, rows |-> rows(back)]
<1>1. PICK back \in SUBSET Wanting(coming) : Begins(t, rec(back))
  BY DEF BeginRestore
<1>2. coming \in SUBSET Garments /\ Wanting(coming) \subseteq coming
  BY DEF Together, Wanting, TypeOK
<1>3. back \in SUBSET Garments /\ \A h \in back : item[h].freed # None
  BY <1>1, <1>2 DEF Wanting
<1>4. {item[h].freed : h \in back} \in SUBSET Shelves
  BY <1>3 DEF TypeOK, Item
<1>5. B \in SUBSET {BatchRow}
  OBVIOUS
<1>6. rows(back) \subseteq Rows
  BY <1>2, <1>3, <1>4, <1>5, RowsTypes
<1>7. rec(back) \in Serial
  BY <1>6, ZenonT(30) DEF Serial
<1>8. tx' \in [Txs -> Tx \cup {None}]
  <2> HIDE DEF rec
  <2> QED
    BY <1>1, <1>7, BeginsTypes DEF Tx
<1> QED
  BY <1>8 DEF BeginRestore, TypeOK, garmentVars, batchVars

LEMMA CancelTypes ==
  ASSUME TypeOK, NEW t \in Txs, Cancel(t), CancelInv(t)
  PROVE  TypeOK'
<1>1. Serializable(t)
  BY DEF Cancel, Serializable
<1>2. /\ tx' \in [Txs -> Tx \cup {None}]
      /\ holder' \in [Shelves -> Txs \cup {None}]
  BY CommitsTypes DEF Cancel
<1>3. \A g \in Of(t, "product") : product[g].st \in {"EARLY", "READY"}
  BY DEF Cancel, CancelInv, Unfinished, Has
<1>4. product' \in [Garments -> Product]
  BY <1>3 DEF Cancel, TypeOK, Product
<1>5. item' \in [Garments -> Item]
  BY DEF Cancel, TypeOK, Item, NoItem
<1>6. cancelled' \subseteq Garments /\ excused' \subseteq Garments
  BY <1>1, OfTypes DEF Cancel, TypeOK
<1> QED
  BY <1>2, <1>4, <1>5, <1>6 DEF Cancel, TypeOK

LEMMA RestoreTypes ==
  ASSUME TypeOK, NEW t \in Txs, Restore(t)
  PROVE  TypeOK'
<1>1. /\ tx' \in [Txs -> Tx \cup {None}]
      /\ holder' \in [Shelves -> Txs \cup {None}]
  BY CommitsTypes DEF Restore
<1>2. product' \in [Garments -> Product]
  BY DEF Restore, TypeOK, Product
<1>3. item' \in [Garments -> Item]
  BY DEF Restore, TypeOK, Item
<1>4. batch' \in {"OPEN", "COMPLETED", "CANCELLED"} /\ cancelled' \subseteq Garments
  BY DEF Restore, TypeOK, batchVars
<1> QED
  BY <1>1, <1>2, <1>3, <1>4 DEF Restore, TypeOK

LEMMA TypeStep ==
  ASSUME IInv, [Next]_vars
  PROVE  TypeOK'
<1> USE DEF IInv, TxInv
<1>1. ASSUME NEW g \in Garments, Lifecycle(g) PROVE TypeOK'
  BY <1>1, LifecycleTypes
<1>2. ASSUME NEW s \in Shelves, Desk(s) PROVE TypeOK'
  BY <1>2, DeskTypes
<1>3. ASSUME NEW t \in Txs, Transaction(t) PROVE TypeOK'
  <2>1. CASE Lock(t)
    BY <2>1, LockTypes
  <2>2. CASE Place(t)
    BY <2>2, PlaceTypes
  <2>3. ASSUME NEW s \in Shelves,
               PlanAssign(t, s) \/ PlanMove(t, s) \/ \E g \in Garments : MoveOne(t, g, s)
        PROVE TypeOK'
    BY <2>3, PlanAssignTypes, PlanMoveTypes, MoveOneTypes
  <2>4. CASE Picked(t)
    BY <2>4, PickedTypes
  <2>5. CASE Count(t) \/ Complete(t)
    BY <2>5, CompleteTypes
  <2>6. CASE Abort(t)
    BY <2>6, AbortTypes
  <2>7. CASE BeginCancel(t)
    BY <2>7, BeginCancelTypes
  <2>8. CASE Cancel(t)
    BY <2>8, CancelTypes
  <2>9. CASE Restore(t)
    BY <2>9, RestoreTypes
  <2>10. ASSUME NEW g \in Garments, Pick(t, g) \/ BeginRestore(t, g) PROVE TypeOK'
    BY <2>10, PickTypes, BeginRestoreTypes
  <2> QED
    BY <1>3, <2>1, <2>2, <2>3, <2>4, <2>5, <2>6, <2>7, <2>8, <2>9, <2>10
      DEF Transaction, Placement
<1>4. CASE UNCHANGED vars
  BY <1>4 DEF vars, garmentVars, batchVars, TypeOK
<1> QED
  BY <1>1, <1>2, <1>3, <1>4 DEF Next

-----------------------------------------------------------------------------
(* What a step leaves alone.                                               *)

LEMMA FewerFit ==
  ASSUME NEW B \in SUBSET Garments, NEW A \in SUBSET B, NEW n \in Nat,
         Cardinality(B) <= n
  PROVE  Cardinality(A) <= n
<1>1. IsFiniteSet(B)
  BY ShelvesAssumption, FS_Subset
<1>2. IsFiniteSet(A) /\ Cardinality(A) <= Cardinality(B)
  BY <1>1, FS_Subset
<1>3. Cardinality(A) \in Nat /\ Cardinality(B) \in Nat
  BY <1>1, <1>2, FS_CardinalityType
<1> QED
  BY <1>2, <1>3

\* The products P, the items I and the shelves S are written; no other shelf has
\* more to carry.
Frame(P, I, S) ==
  /\ \A g \in Garments \ P : product'[g] = product[g]
  /\ \A g \in Garments \ I : item'[g] = item[g]
  /\ \A s \in Shelves \ S : shelf'[s] = shelf[s] /\ Load(s)' \subseteq Load(s)
  /\ \A g \in ordered' : g \in ordered \/ Has(g, "LIVE")

LEMMA LoadTypes ==
  ASSUME TypeOK, NEW s \in Shelves
  PROVE  Load(s) \subseteq Garments /\ shelf[s].capacity \in Nat
  BY ShelvesAssumption DEF Load, On, TypeOK, Shelf

\* A transaction that goes on, and whose shelves nobody has written, keeps its
\* invariant.
LEMMA GoesOn ==
  ASSUME TypeOK, TypeOK', NEW u \in Txs, TxInv(u), tx'[u] = tx[u],
         NEW P, NEW I, NEW S, Frame(P, I, S),
         NEW W, ~Loses(u, W), ProductRows(P) \cup ItemRows(I) \cup ShelfRows(S) \subseteq W,
         \A s \in Shelves : holder'[s] = u => holder[s] = u /\ s \notin S
  PROVE  TxInv(u)'
<1> DEFINE F(s) == FromShelf(Of(u, "item"), s)
<1>1. CASE Doing(u, "PLACE")
  <2> DEFINE to == tx[u].to
  <2>1. to \in Shelves /\ tx[u].of \subseteq Garments
    BY <1>1, TxKinds DEF Doing, Placing
  <2>2. SUFFICES ASSUME holder'[to] = u
                 PROVE  /\ shelf'[to].open
                        /\ Cardinality(Load(to)' \cup tx[u].of) <= shelf'[to].capacity
    BY <1>1 DEF TxInv, PlaceInv, RestoreInv, CancelInv, Doing, Load, On
  <2>3. holder[to] = u /\ to \notin S
    BY <2>1, <2>2
  <2>4. shelf'[to] = shelf[to] /\ Load(to)' \subseteq Load(to)
    BY <2>1, <2>3 DEF Frame
  <2>5. /\ shelf[to].open
        /\ Cardinality(Load(to) \cup tx[u].of) <= shelf[to].capacity
    BY <1>1, <2>3 DEF TxInv, PlaceInv
  <2>6. Cardinality(Load(to)' \cup tx[u].of) <= shelf[to].capacity
    <3>1. Load(to)' \cup tx[u].of \in SUBSET (Load(to) \cup tx[u].of)
      BY <2>4
    <3>2. Load(to) \cup tx[u].of \in SUBSET Garments /\ shelf[to].capacity \in Nat
      BY <2>1, LoadTypes
    <3> QED
      BY <2>5, <3>1, <3>2, FewerFit
  <2> QED
    BY <2>4, <2>5, <2>6
<1>2. CASE Doing(u, "RESTORE")
  <2>1. /\ Of(u, "item") \subseteq Garments /\ Of(u, "shelf") \subseteq Shelves
        /\ \A x : x \in Of(u, "item") => <<"item", x>> \in tx[u].rows
        /\ \A x : x \in Of(u, "shelf") => <<"shelf", x>> \in tx[u].rows
    BY <1>2, OfTypes DEF Serializable
  <2>2. tx[u].rows \cap W = {}
    BY <1>2 DEF Loses, Serializable
  <2>3. \A g \in Of(u, "item") : g \notin I /\ item'[g] = item[g]
    BY <2>1, <2>2 DEF Frame, ItemRows
  <2>4. \A s \in Of(u, "shelf") : s \notin S /\ shelf'[s] = shelf[s] /\ Load(s)' \subseteq Load(s)
    BY <2>1, <2>2 DEF Frame, ShelfRows
  <2>5. Of(u, "item")' = Of(u, "item") /\ Of(u, "shelf")' = Of(u, "shelf")
    BY DEF Of
  <2>6. \A s \in Shelves : F(s)' = F(s)
    BY <2>3, <2>5 DEF FromShelf
  <2>7. ASSUME NEW s \in Of(u, "shelf")
        PROVE  Cardinality(Load(s)' \cup F(s)) <= shelf[s].capacity
    <3>1. Load(s)' \cup F(s) \in SUBSET (Load(s) \cup F(s))
      BY <2>4
    <3>2. Load(s) \cup F(s) \in SUBSET Garments /\ shelf[s].capacity \in Nat
      BY <2>1, LoadTypes DEF FromShelf
    <3>3. Cardinality(Load(s) \cup F(s)) <= shelf[s].capacity
      BY <1>2 DEF TxInv, RestoreInv
    <3> QED
      BY <3>1, <3>2, <3>3, FewerFit
  <2>8. \A g \in Of(u, "item") : item'[g].freed \in Of(u, "shelf")
    BY <1>2, <2>3 DEF TxInv, RestoreInv
  <2>9. \A s \in Of(u, "shelf") : shelf'[s].open
    BY <1>2, <2>4 DEF TxInv, RestoreInv
  <2>10. \A s \in Of(u, "shelf") : Cardinality(Load(s)' \cup F(s)') <= shelf'[s].capacity
    BY <2>1, <2>4, <2>6, <2>7
  <2>11. RestoreInv(u)'
    BY <2>5, <2>8, <2>9, <2>10 DEF RestoreInv
  <2> QED
    BY <1>2, <2>11 DEF TxInv, PlaceInv, CancelInv, Doing
<1>3. CASE Doing(u, "CANCEL")
  <2>1. /\ Of(u, "product") \subseteq Garments
        /\ \A x : x \in Of(u, "product") => <<"product", x>> \in tx[u].rows
    BY <1>3, OfTypes DEF Serializable
  <2>2. tx[u].rows \cap W = {}
    BY <1>3 DEF Loses, Serializable
  <2>3. \A g \in Of(u, "product") : product'[g] = product[g]
    BY <2>1, <2>2 DEF Frame, ProductRows
  <2>4. Of(u, "product")' = Of(u, "product") /\ Of(u, "item")' = Of(u, "item")
    BY DEF Of
  <2>5. /\ Of(u, "product") \subseteq Unfinished
        /\ tx[u].del \subseteq (Of(u, "product") \cap Of(u, "item")) \ ordered
    BY <1>3 DEF TxInv, CancelInv
  <2>6. Of(u, "product") \subseteq Unfinished'
    BY <2>3, <2>5 DEF Unfinished, Has
  <2>7. tx[u].del \cap ordered' = {}
    BY <2>5 DEF Frame, Unfinished, Has
  <2> QED
    BY <1>3, <2>4, <2>5, <2>6, <2>7 DEF TxInv, PlaceInv, RestoreInv, CancelInv, Doing
<1>4. CASE ~Doing(u, "PLACE") /\ ~Doing(u, "RESTORE") /\ ~Doing(u, "CANCEL")
  BY <1>4 DEF TxInv, PlaceInv, RestoreInv, CancelInv, Doing
<1> QED
  BY <1>1, <1>2, <1>3, <1>4

LEMMA IsOver ==
  ASSUME NEW u \in Txs, tx'[u] = None
  PROVE  TxInv(u)'
  BY DEF TxInv, PlaceInv, RestoreInv, CancelInv, Doing

LEMMA StillFits ==
  ASSUME TypeOK, OverfullIsExplained, NEW P, NEW I, NEW S, Frame(P, I, S),
         \A s \in Shelves \cap S : Cardinality(Load(s)') <= shelf'[s].capacity
  PROVE  OverfullIsExplained'
<1>1. ASSUME NEW s \in Shelves \ S
      PROVE  Cardinality(Load(s)') <= shelf'[s].capacity
  <2>1. Load(s)' \in SUBSET Load(s) /\ shelf'[s] = shelf[s]
    BY DEF Frame
  <2>2. Load(s) \in SUBSET Garments /\ shelf[s].capacity \in Nat
    BY LoadTypes
  <2>3. Cardinality(Load(s)) <= shelf[s].capacity
    BY DEF OverfullIsExplained, Load
  <2> QED
    BY <2>1, <2>2, <2>3, FewerFit
<1>2. \A s \in Shelves : Cardinality(Load(s)') <= shelf'[s].capacity
  BY <1>1
<1> QED
  BY <1>2 DEF OverfullIsExplained, Load

\* A step of its own, a transaction's last step, and its first or a later one.
LEMMA SingleStep ==
  ASSUME IInv, TypeOK', NEW P, NEW I, NEW S, Frame(P, I, S),
         NEW W, Written(W), ProductRows(P) \cup ItemRows(I) \cup ShelfRows(S) \subseteq W,
         UNCHANGED holder, Free(S \cap Shelves),
         \A s \in Shelves \cap S : Cardinality(Load(s)') <= shelf'[s].capacity
  PROVE  IInv'
<1>1. OverfullIsExplained'
  BY StillFits DEF IInv
<1>2. ASSUME NEW u \in Txs PROVE TxInv(u)'
  <2>1. CASE tx'[u] = None
    BY <2>1, IsOver
  <2>2. CASE tx'[u] = tx[u] /\ ~Loses(u, W)
    <3>1. \A s \in Shelves : holder'[s] = u => holder[s] = u /\ s \notin S
      BY ShelvesAssumption DEF Free
    <3> QED
      BY <2>2, <3>1, GoesOn DEF IInv
  <2> QED
    BY <2>1, <2>2, WrittenFrame DEF IInv
<1> QED
  BY <1>1, <1>2 DEF IInv

LEMMA LastStep ==
  ASSUME IInv, TypeOK', NEW t \in Txs, NEW P, NEW I, NEW S, Frame(P, I, S),
         NEW W, Commits(t, W), ProductRows(P) \cup ItemRows(I) \cup ShelfRows(S) \subseteq W,
         FreeOrMine(t, S \cap Shelves),
         \A s \in Shelves \cap S : Cardinality(Load(s)') <= shelf'[s].capacity
  PROVE  IInv'
<1>1. OverfullIsExplained'
  BY StillFits DEF IInv
<1>2. ASSUME NEW u \in Txs PROVE TxInv(u)'
  <2>1. CASE tx'[u] = None
    BY <2>1, IsOver
  <2>2. CASE u # t /\ tx'[u] = tx[u] /\ ~Loses(u, W)
    <3>1. \A s \in Shelves : holder'[s] = u => holder[s] = u /\ s \notin S
      BY <2>2, CommitsFrame, ShelvesAssumption DEF FreeOrMine, IInv
    <3> QED
      BY <2>2, <3>1, GoesOn DEF IInv
  <2> QED
    BY <2>1, <2>2, CommitsFrame DEF IInv
<1> QED
  BY <1>1, <1>2 DEF IInv

LEMMA OwnStep ==
  ASSUME IInv, TypeOK', NEW t \in Txs, NEW rec, Begins(t, rec),
         UNCHANGED <<garmentVars, shelf, excused>>, TxInv(t)',
         \A u \in Txs \ {t} : \A s \in Shelves : holder'[s] = u => holder[s] = u
  PROVE  IInv'
<1>1. Frame({}, {}, {})
  BY DEF Frame, garmentVars, Load, On
<1>2. OverfullIsExplained'
  BY <1>1, StillFits DEF IInv
<1>3. ASSUME NEW u \in Txs, u # t PROVE TxInv(u)'
  <2>1. tx'[u] = tx[u]
    BY <1>3 DEF Begins, IInv, TypeOK
  <2>2. ~Loses(u, {})
    BY DEF Loses
  <2>3. ProductRows({}) \cup ItemRows({}) \cup ShelfRows({}) \subseteq {}
    BY DEF ProductRows, ItemRows, ShelfRows
  <2> QED
    BY <1>1, <1>3, <2>1, <2>2, <2>3, GoesOn DEF IInv
<1> QED
  BY <1>2, <1>3 DEF IInv

-----------------------------------------------------------------------------
(* Each action keeps the invariant.                                        *)

LEMMA LockKeeps ==
  ASSUME IInv, NEW t \in Txs, Lock(t)
  PROVE  IInv'
<1>1. TypeOK'
  BY LockTypes DEF IInv
<1>2. PICK rec \in Waiting : Begins(t, rec)
  BY DEF Lock
<1>3. tx'[t] = rec /\ rec.kind \in {"WAIT_ASSIGN", "WAIT_MOVE"}
  BY <1>2 DEF Begins, IInv, TypeOK, Waiting
<1>4. TxInv(t)'
  BY <1>3 DEF TxInv, PlaceInv, RestoreInv, CancelInv, Doing
<1>5. \A u \in Txs \ {t} : \A s \in Shelves : holder'[s] = u => holder[s] = u
  BY DEF Lock
<1> QED
  BY <1>1, <1>2, <1>4, <1>5, OwnStep DEF Lock

\* Garments that fit on a shelf leave it within its capacity.
LEMMA FitsLeavesRoom ==
  ASSUME TypeOK, NEW s \in Shelves, NEW S \in SUBSET Garments, Fits(S, s)
  PROVE  shelf[s].open /\ (S # {} => Cardinality(Load(s) \cup S) <= shelf[s].capacity)
<1>1. /\ Load(s) \in SUBSET On(s) /\ On(s) \in SUBSET Garments
      /\ shelf[s].capacity \in Nat
  BY LoadTypes DEF Load, On
<1>2. IsFiniteSet(S) /\ IsFiniteSet(On(s)) /\ IsFiniteSet(Load(s))
  BY <1>1, ShelvesAssumption, FS_Subset
<1>3. /\ Cardinality(S) \in Nat /\ Cardinality(On(s)) \in Nat
      /\ Cardinality(On(s) \cap S) \in Nat
  BY <1>2, FS_CardinalityType, FS_Intersection
<1>4. Cardinality(On(s) \cup S) = Cardinality(On(s)) + Cardinality(S) - Cardinality(On(s) \cap S)
  BY <1>2, FS_Union
<1>5. S # {} => Cardinality(S) # 0
  BY <1>2, FS_EmptySet
<1>6. S # {} => Cardinality(On(s) \cup S) <= shelf[s].capacity
  BY <1>1, <1>3, <1>4, <1>5 DEF Fits, Room
<1>7. Load(s) \cup S \in SUBSET (On(s) \cup S) /\ On(s) \cup S \in SUBSET Garments
  BY <1>1
<1>8. S # {} => Cardinality(Load(s) \cup S) <= shelf[s].capacity
  BY <1>1, <1>6, <1>7, FewerFit
<1> QED
  BY <1>8 DEF Fits

LEMMA PlanKeeps ==
  ASSUME IInv, TypeOK', NEW t \in Txs, NEW to \in Shelves,
         NEW S \in SUBSET Garments, S # {}, Fits(S, to),
         NEW rec, rec.kind = "PLACE", rec.of = S, rec.to = to, Begins(t, rec),
         UNCHANGED <<garmentVars, shelf, excused>>,
         \A u \in Txs \ {t} : \A s \in Shelves : holder'[s] = u => holder[s] = u
  PROVE  IInv'
<1>1. shelf[to].open /\ Cardinality(Load(to) \cup S) <= shelf[to].capacity
  BY FitsLeavesRoom DEF IInv
<1>2. tx'[t] = rec
  BY DEF Begins, IInv, TypeOK
<1>3. Load(to)' = Load(to) /\ UNCHANGED shelf
  BY DEF Load, On, garmentVars
<1>4. TxInv(t)'
  BY <1>1, <1>2, <1>3 DEF TxInv, PlaceInv, RestoreInv, CancelInv, Doing, Load, On, garmentVars
<1> QED
  BY <1>4, OwnStep

LEMMA PlanAssignKeeps ==
  ASSUME IInv, NEW t \in Txs, NEW to \in Shelves, PlanAssign(t, to)
  PROVE  IInv'
<1> DEFINE without == {g \in tx[t].of : item[g].at = None}
           rec == [kind |-> "PLACE", of |-> without, to |-> to, from |-> {},
                   new |-> {g \in without : item[g].st = "NONE"}]
<1>1. TypeOK'
  BY PlanAssignTypes DEF IInv
<1>2. without \in SUBSET Garments
  BY TxKinds DEF PlanAssign, Doing, Waiting, IInv
<1>3. without # {} /\ Fits(without, to) /\ Begins(t, rec)
  BY DEF PlanAssign
<1>4. rec.kind = "PLACE" /\ rec.of = without /\ rec.to = to
  OBVIOUS
<1>5. UNCHANGED <<garmentVars, shelf, excused, holder>>
  BY DEF PlanAssign
<1> HIDE DEF rec, without
<1> QED
  BY <1>1, <1>2, <1>3, <1>4, <1>5, PlanKeeps

LEMMA PlanMoveKeeps ==
  ASSUME IInv, NEW t \in Txs, NEW to \in Shelves, PlanMove(t, to)
  PROVE  IInv'
<1> DEFINE moving == {g \in tx[t].of : Movable(g, to) /\ item[g].at # None}
           rec == [kind |-> "PLACE", of |-> moving, new |-> {}, to |-> to,
                   from |-> {item[g].at : g \in moving}]
<1>1. TypeOK'
  BY PlanMoveTypes DEF IInv
<1>2. moving \in SUBSET Garments
  BY TxKinds DEF PlanMove, Doing, Waiting, IInv
<1>3. moving # {} /\ Fits(moving, to) /\ Begins(t, rec)
  BY DEF PlanMove
<1>4. rec.kind = "PLACE" /\ rec.of = moving /\ rec.to = to
  OBVIOUS
<1>5. UNCHANGED <<garmentVars, shelf, excused, holder>>
  BY DEF PlanMove
<1> HIDE DEF rec, moving
<1> QED
  BY <1>1, <1>2, <1>3, <1>4, <1>5, PlanKeeps

LEMMA MoveOneKeeps ==
  ASSUME IInv, NEW t \in Txs, NEW g \in Garments, NEW to \in Shelves,
         MoveOne(t, g, to)
  PROVE  IInv'
<1> DEFINE rec == [kind |-> "PLACE", of |-> {g}, new |-> {}, to |-> to,
                   from |-> {item[g].at} \ {None}]
<1>1. TypeOK'
  BY MoveOneTypes DEF IInv
<1>2. Fits({g}, to) /\ Begins(t, rec)
  BY DEF MoveOne
<1>3. rec.kind = "PLACE" /\ rec.of = {g} /\ rec.to = to
  OBVIOUS
<1>4. UNCHANGED <<garmentVars, shelf, excused>>
  BY DEF MoveOne
<1>5. \A u \in Txs \ {t} : \A s \in Shelves : holder'[s] = u => holder[s] = u
  BY DEF MoveOne
<1> HIDE DEF rec
<1> QED
  BY <1>1, <1>2, <1>3, <1>4, <1>5, PlanKeeps

LEMMA PlaceKeeps ==
  ASSUME IInv, NEW t \in Txs, Place(t)
  PROVE  IInv'
<1> DEFINE p == tx[t]
           S == {p.to} \cup p.from
           W == ItemRows(p.of) \cup ShelfRows(S)
<1>1. TypeOK'
  BY PlaceTypes DEF IInv
<1>2. p.of \subseteq Garments /\ p.to \in Shelves /\ p.from \subseteq Shelves
  BY TxKinds DEF Place, Doing, Placing, IInv
<1>3. \A g \in Garments \ p.of : item'[g] = item[g]
  BY DEF Place
<1>4. \A g \in p.of : item'[g].at = p.to
  BY <1>2 DEF Place, PlacedBy
<1>5. excused' = IF holder[p.to] = t THEN excused \ p.of ELSE excused \cup p.of
  BY DEF Place
<1>12. shelf' = shelf
  BY DEF Place
<1>6. ASSUME NEW s \in Shelves, s # p.to PROVE Load(s)' \subseteq Load(s)
  BY <1>3, <1>4, <1>5, <1>6 DEF Load, On
<1>7. Frame({}, p.of, S)
  BY <1>3, <1>6 DEF Frame, Place
<1>8. ASSUME NEW s \in Shelves, s = p.to
      PROVE  Cardinality(Load(s)') <= shelf'[s].capacity
  <2>1. CASE holder[s] = t
    <3>1. Load(s)' \in SUBSET (Load(s) \cup p.of)
      BY <1>3, <1>5, <1>8, <2>1 DEF Load, On
    <3>2. Load(s) \cup p.of \in SUBSET Garments /\ shelf[s].capacity \in Nat
      BY <1>2, LoadTypes DEF IInv
    <3>3. Cardinality(Load(s) \cup p.of) <= shelf[s].capacity
      BY <1>8, <2>1 DEF IInv, TxInv, PlaceInv, Place
    <3> QED
      BY <1>12, <3>1, <3>2, <3>3, FewerFit
  <2>2. CASE holder[s] # t
    <3>1. Load(s)' \in SUBSET Load(s)
      BY <1>3, <1>5, <1>8, <2>2 DEF Load, On
    <3>2. Load(s) \in SUBSET Garments /\ shelf[s].capacity \in Nat
      BY LoadTypes DEF IInv
    <3>3. Cardinality(Load(s)) <= shelf[s].capacity
      BY DEF IInv, OverfullIsExplained, Load
    <3> QED
      BY <1>12, <3>1, <3>2, <3>3, FewerFit
  <2> QED
    BY <2>1, <2>2
<1>9. \A s \in Shelves \cap S : Cardinality(Load(s)') <= shelf'[s].capacity
  <2>1. ASSUME NEW s \in Shelves, s # p.to
        PROVE  Cardinality(Load(s)') <= shelf'[s].capacity
    <3>1. Load(s)' \in SUBSET Load(s)
      BY <1>6, <2>1
    <3>2. Load(s) \in SUBSET Garments /\ shelf[s].capacity \in Nat
      BY LoadTypes DEF IInv
    <3>3. Cardinality(Load(s)) <= shelf[s].capacity
      BY DEF IInv, OverfullIsExplained, Load
    <3> QED
      BY <1>12, <3>1, <3>2, <3>3, FewerFit
  <2> QED
    BY <1>8, <2>1
<1>10. FreeOrMine(t, S \cap Shelves) /\ Commits(t, W)
  BY DEF Place, FreeOrMine
<1>11. ProductRows({}) \cup ItemRows(p.of) \cup ShelfRows(S) \subseteq W
  BY DEF ProductRows
<1> HIDE DEF p, S, W
<1> QED
  BY <1>1, <1>7, <1>9, <1>10, <1>11, LastStep

LEMMA DeskKeeps ==
  ASSUME IInv, NEW s \in Shelves, Desk(s)
  PROVE  IInv'
<1> DEFINE W == ShelfRows({s})
<1>1. TypeOK'
  BY DeskTypes DEF IInv
<1>2. /\ UNCHANGED <<garmentVars, holder, excused>>
      /\ \A x \in Shelves \ {s} : shelf'[x] = shelf[x]
      /\ Written(W) /\ Free({s} \cap Shelves)
  <2>1. CASE SetLocationStatus(s)
    BY <2>1 DEF SetLocationStatus, Free, IInv, TypeOK
  <2>2. ASSUME NEW c \in 1..MaxCapacity, UpdateCapacity(s, c)
        PROVE  /\ UNCHANGED <<garmentVars, holder, excused>>
               /\ \A x \in Shelves \ {s} : shelf'[x] = shelf[x]
               /\ Written(W) /\ Free({s} \cap Shelves)
    BY <2>2 DEF UpdateCapacity, Free, IInv, TypeOK
  <2> QED
    BY <2>1, <2>2 DEF Desk
<1>3. \A x \in Shelves : Load(x)' = Load(x)
  BY <1>2 DEF Load, On, garmentVars
<1>4. Frame({}, {}, {s})
  BY <1>2, <1>3 DEF Frame, garmentVars
<1>5. Cardinality(Load(s)) <= shelf'[s].capacity
  <2>1. CASE SetLocationStatus(s)
    BY <2>1 DEF SetLocationStatus, IInv, OverfullIsExplained, Load, TypeOK, Shelf
  <2>2. ASSUME NEW c \in 1..MaxCapacity, UpdateCapacity(s, c)
        PROVE  Cardinality(Load(s)) <= shelf'[s].capacity
    <3>1. Load(s) \in SUBSET On(s) /\ On(s) \in SUBSET Garments /\ c \in Nat
      BY DEF Load, On
    <3>2. shelf'[s].capacity = c /\ Cardinality(On(s)) <= c
      <4>1. IsFiniteSet(On(s))
        BY <3>1, ShelvesAssumption, FS_Subset
      <4>2. Cardinality(On(s)) \in Nat
        BY <4>1, FS_CardinalityType
      <4> QED
        BY <2>2, <3>1, <4>2 DEF UpdateCapacity, IInv, TypeOK, Shelf
    <3> QED
      BY <3>1, <3>2, FewerFit
  <2> QED
    BY <2>1, <2>2 DEF Desk
<1>6. \A x \in Shelves \cap {s} : Cardinality(Load(x)') <= shelf'[x].capacity
  BY <1>3, <1>5
<1>7. ProductRows({}) \cup ItemRows({}) \cup ShelfRows({s}) \subseteq W
  BY DEF ProductRows, ItemRows
<1> HIDE DEF W
<1> QED
  BY <1>1, <1>2, <1>4, <1>6, <1>7, SingleStep

\* Every row of a garment the step does not write is as it was, and no shelf has
\* more to carry.
LEMMA LifeKeeps ==
  ASSUME IInv, TypeOK', NEW g \in Garments, NEW P \in SUBSET {g}, NEW I \in SUBSET {g},
         NEW W, ProductRows(P) \cup ItemRows(I) \subseteq W, Written(W),
         \A x \in Garments \ P : product'[x] = product[x],
         \A x \in Garments \ I : item'[x] = item[x],
         \A s \in Shelves : Load(s)' \subseteq Load(s),
         \A x \in ordered' : x \in ordered \/ Has(x, "LIVE"),
         UNCHANGED <<shelf, holder>>
  PROVE  IInv'
<1>1. Frame(P, I, {})
  BY DEF Frame
<1>2. ProductRows(P) \cup ItemRows(I) \cup ShelfRows({}) \subseteq W
  BY DEF ShelfRows
<1>3. Free({} \cap Shelves)
  BY DEF Free
<1> QED
  BY <1>1, <1>2, <1>3, SingleStep

LEMMA BecomesKeeps ==
  ASSUME IInv, TypeOK', NEW g \in Garments, NEW from, NEW to, Becomes(g, from, to)
  PROVE  IInv'
<1>1. \A x \in Garments \ {g} : product'[x] = product[x]
  BY DEF Becomes, IInv, TypeOK
<1>2. UNCHANGED <<ordered, item, shelf, holder, excused>>
  BY DEF Becomes
<1>3. \A s \in Shelves : Load(s)' \subseteq Load(s)
  BY <1>2 DEF Load, On
<1>4. Written(ProductRows({g}))
  BY DEF Becomes
<1>5. ProductRows({g}) \cup ItemRows({}) \subseteq ProductRows({g})
  BY DEF ItemRows
<1> QED
  BY <1>1, <1>2, <1>3, <1>4, <1>5, LifeKeeps

LEMMA StockKeeps ==
  ASSUME IInv, TypeOK', NEW g \in Garments, NEW from, NEW to, Stock(g, from, to),
         \A x \in ordered' : x \in ordered \/ Has(x, "LIVE"),
         \/ from \subseteq OCCUPYING /\ excused' = excused
         \/ excused' = excused \cup {g}
  PROVE  IInv'
<1>1. /\ \A x \in Garments \ {g} : item'[x] = item[x]
      /\ item'[g].at = item[g].at /\ item[g].st \in from
  BY DEF Stock, IInv, TypeOK, Item
<1>2. UNCHANGED <<product, shelf, holder>>
  BY DEF Stock
<1>3. \A s \in Shelves : Load(s)' \subseteq Load(s)
  BY <1>1 DEF Load, On
<1>4. Written(ItemRows({g}))
  BY DEF Stock
<1>5. ProductRows({}) \cup ItemRows({g}) \subseteq ItemRows({g})
  BY DEF ProductRows
<1> QED
  BY <1>1, <1>2, <1>3, <1>4, <1>5, LifeKeeps

LEMMA RestockKeeps ==
  ASSUME IInv, TypeOK', NEW g \in Garments, NEW to \in Shelves, Restock(g, to)
  PROVE  IInv'
<1> DEFINE S == {item[g].at, to} \ {None}
           W == ProductRows({g}) \cup ItemRows({g}) \cup ShelfRows(S)
<1>1. /\ \A x \in Garments \ {g} : product'[x] = product[x] /\ item'[x] = item[x]
      /\ item'[g].at = to
      /\ excused' = excused \ {g} /\ UNCHANGED <<ordered, shelf, holder>>
  BY DEF Restock, IInv, TypeOK
<1>2. \A s \in Shelves : s # to => Load(s)' \subseteq Load(s)
  BY <1>1 DEF Load, On
<1>3. ASSUME NEW s \in Shelves PROVE Cardinality(Load(s)') <= shelf'[s].capacity
  <2>1. CASE s = to
    <3>1. Load(s)' \in SUBSET (Load(s) \cup {g})
      BY <1>1 DEF Load, On
    <3>2. Load(s) \cup {g} \in SUBSET Garments /\ shelf[s].capacity \in Nat
      BY LoadTypes DEF IInv
    <3>3. Fits({g}, s)
      BY <2>1 DEF Restock
    <3>4. Cardinality(Load(s) \cup {g}) <= shelf[s].capacity
      BY <3>3, FitsLeavesRoom DEF IInv
    <3> QED
      BY <1>1, <3>1, <3>2, <3>4, FewerFit
  <2>2. CASE s # to
    <3>1. Load(s)' \in SUBSET Load(s)
      BY <1>2, <2>2
    <3>2. Load(s) \in SUBSET Garments /\ shelf[s].capacity \in Nat
      BY LoadTypes DEF IInv
    <3>3. Cardinality(Load(s)) <= shelf[s].capacity
      BY DEF IInv, OverfullIsExplained, Load
    <3> QED
      BY <1>1, <3>1, <3>2, <3>3, FewerFit
  <2> QED
    BY <2>1, <2>2
<1>4. Frame({g}, {g}, S)
  BY <1>1, <1>2, ShelvesAssumption DEF Frame
<1>5. Written(W) /\ Free(S \cap Shelves)
  BY DEF Restock, Free
<1>6. ProductRows({g}) \cup ItemRows({g}) \cup ShelfRows(S) \subseteq W
  OBVIOUS
<1> HIDE DEF S, W
<1> QED
  BY <1>1, <1>3, <1>4, <1>5, <1>6, SingleStep

LEMMA LifecycleKeeps ==
  ASSUME IInv, NEW g \in Garments, Lifecycle(g)
  PROVE  IInv'
<1>1. TypeOK'
  BY LifecycleTypes DEF IInv
<1>2. CASE \/ Barcode(g) \/ Rework(g) \/ Publish(g)
             \/ RejectAtReview(g) \/ RejectAtDisplayReview(g)
  BY <1>1, <1>2, BecomesKeeps DEF Barcode, Rework, Publish, RejectAtReview,
         RejectAtDisplayReview
<1>3. CASE Reserve(g) \/ Pay(g) \/ Release(g) \/ WriteOff(g)
  <2>1. CASE Reserve(g)
    BY <1>1, <2>1, StockKeeps DEF Reserve, OCCUPYING
  <2>2. CASE Pay(g)
    BY <1>1, <2>2, StockKeeps DEF Pay, OCCUPYING
  <2>3. CASE Release(g)
    BY <1>1, <2>3, StockKeeps DEF Release, OCCUPYING
  <2>4. CASE WriteOff(g)
    BY <1>1, <2>4, StockKeeps DEF WriteOff
  <2> QED
    BY <1>3, <2>1, <2>2, <2>3, <2>4
<1>4. ASSUME NEW s \in Shelves, Restock(g, s) PROVE IInv'
  BY <1>1, <1>4, RestockKeeps
<1> QED
  BY <1>2, <1>3, <1>4 DEF Lifecycle

LEMMA PickedKeeps ==
  ASSUME IInv, NEW t \in Txs, Picked(t)
  PROVE  IInv'
<1> DEFINE g == tx[t].of
           S == {tx[t].at}
           W == ItemRows({g}) \cup ShelfRows(S)
<1>1. TypeOK'
  BY PickedTypes DEF IInv
<1>2. g \in Garments /\ tx[t].at \in Shelves
  BY TxKinds DEF Picked, Doing, Picking, IInv
<1>3. /\ \A x \in Garments \ {g} : item'[x] = item[x]
      /\ item'[g].st = "GONE"
      /\ \A s \in Shelves : shelf'[s].capacity = shelf[s].capacity
      /\ \A s \in Shelves \ S : shelf'[s] = shelf[s]
      /\ excused' = excused \ {g} /\ UNCHANGED <<product, ordered>>
  BY <1>2 DEF Picked, IInv, TypeOK, Item, Shelf
<1>4. \A s \in Shelves : Load(s)' \subseteq Load(s)
  BY <1>3 DEF Load, On, OCCUPYING
<1>5. ASSUME NEW s \in Shelves PROVE Cardinality(Load(s)') <= shelf'[s].capacity
  <2>1. Load(s)' \in SUBSET Load(s)
    BY <1>4
  <2>2. Load(s) \in SUBSET Garments /\ shelf[s].capacity \in Nat
    BY LoadTypes DEF IInv
  <2>3. Cardinality(Load(s)) <= shelf[s].capacity
    BY DEF IInv, OverfullIsExplained, Load
  <2> QED
    BY <1>3, <2>1, <2>2, <2>3, FewerFit
<1>6. Frame({}, {g}, S)
  BY <1>3, <1>4 DEF Frame
<1>7. Commits(t, W) /\ FreeOrMine(t, S \cap Shelves)
  BY DEF Picked, Free, FreeOrMine
<1>8. ProductRows({}) \cup ItemRows({g}) \cup ShelfRows(S) \subseteq W
  BY DEF ProductRows
<1> HIDE DEF g, S, W
<1> QED
  BY <1>1, <1>5, <1>6, <1>7, <1>8, LastStep

LEMMA BeginsOtherKeeps ==
  ASSUME IInv, TypeOK', NEW t \in Txs, NEW rec, Begins(t, rec),
         rec = None \/ rec.kind \in {"PICK", "COMPLETE"},
         UNCHANGED <<garmentVars, shelf, excused>>,
         \A u \in Txs \ {t} : \A s \in Shelves : holder'[s] = u => holder[s] = u
  PROVE  IInv'
<1>1. tx'[t] = rec
  BY DEF Begins, IInv, TypeOK
<1>2. TxInv(t)'
  BY <1>1 DEF TxInv, PlaceInv, RestoreInv, CancelInv, Doing
<1> QED
  BY <1>2, OwnStep

LEMMA CompleteKeeps ==
  ASSUME IInv, NEW t \in Txs, Complete(t)
  PROVE  IInv'
<1>1. TypeOK'
  BY CompleteTypes DEF IInv
<1>2. Frame({}, {}, {})
  BY DEF Frame, Complete, garmentVars, Load, On
<1>3. Commits(t, {BatchRow}) /\ FreeOrMine(t, {} \cap Shelves)
  BY DEF Complete, FreeOrMine
<1>4. ProductRows({}) \cup ItemRows({}) \cup ShelfRows({}) \subseteq {BatchRow}
  BY DEF ProductRows, ItemRows, ShelfRows
<1> QED
  BY <1>1, <1>2, <1>3, <1>4, LastStep

\* The rows a serializable transaction is to write, table by table.
LEMMA OfRows ==
  ASSUME NEW t \in Txs, NEW A, NEW B, NEW C, NEW D \in SUBSET {BatchRow},
         tx'[t].rows = ProductRows(A) \cup ItemRows(B) \cup ShelfRows(C) \cup D
  PROVE  Of(t, "product")' = A /\ Of(t, "item")' = B /\ Of(t, "shelf")' = C
<1> DEFINE rows == ProductRows(A) \cup ItemRows(B) \cup ShelfRows(C) \cup D
           O(table) == {r[2] : r \in {q \in rows : q[1] = table}}
<1>1. ASSUME NEW r \in rows
      PROVE  \/ r[1] = "product" /\ r[2] \in A
             \/ r[1] = "item" /\ r[2] \in B
             \/ r[1] = "shelf" /\ r[2] \in C
             \/ r[1] = "batch"
  BY DEF ProductRows, ItemRows, ShelfRows, BatchRow
<1>2. /\ \A a \in A : <<"product", a>> \in rows
      /\ \A b \in B : <<"item", b>> \in rows
      /\ \A c \in C : <<"shelf", c>> \in rows
  BY DEF ProductRows, ItemRows, ShelfRows
<1> HIDE DEF rows
<1>3. O("product") = A
  <2>1. \A x \in O("product") : x \in A
    BY <1>1
  <2>2. ASSUME NEW a \in A PROVE a \in O("product")
    <3>1. <<"product", a>> \in rows /\ <<"product", a>>[1] = "product" /\ <<"product", a>>[2] = a
      BY <1>2
    <3> QED
      BY <3>1
  <2> QED
    BY <2>1, <2>2
<1>4. O("item") = B
  <2>1. \A x \in O("item") : x \in B
    BY <1>1
  <2>2. ASSUME NEW b \in B PROVE b \in O("item")
    <3>1. <<"item", b>> \in rows /\ <<"item", b>>[1] = "item" /\ <<"item", b>>[2] = b
      BY <1>2
    <3> QED
      BY <3>1
  <2> QED
    BY <2>1, <2>2
<1>5. O("shelf") = C
  <2>1. \A x \in O("shelf") : x \in C
    BY <1>1
  <2>2. ASSUME NEW c \in C PROVE c \in O("shelf")
    <3>1. <<"shelf", c>> \in rows /\ <<"shelf", c>>[1] = "shelf" /\ <<"shelf", c>>[2] = c
      BY <1>2
    <3> QED
      BY <3>1
  <2> QED
    BY <2>1, <2>2
<1> QED
  BY <1>3, <1>4, <1>5 DEF Of, rows

LEMMA BeginCancelKeeps ==
  ASSUME IInv, NEW t \in Txs, BeginCancel(t)
  PROVE  IInv'
<1> DEFINE shelved == {g \in Unfinished : item[g].at # None}
           at == {item[g].at : g \in shelved}
           items == ToDelete \cup shelved
           last == {BatchRow}
           rec == [kind |-> "CANCEL", del |-> ToDelete,
                   rows |-> ProductRows(Unfinished) \cup ItemRows(items)
                              \cup ShelfRows(at) \cup last]
<1>1. TypeOK'
  BY BeginCancelTypes DEF IInv
<1>2. Begins(t, rec)
  BY DEF BeginCancel
<1>3. tx'[t] = rec
  BY <1>2 DEF Begins, IInv, TypeOK
<1>4. /\ tx'[t].kind = "CANCEL" /\ tx'[t].del = ToDelete
      /\ tx'[t].rows = ProductRows(Unfinished) \cup ItemRows(items)
                         \cup ShelfRows(at) \cup last
  BY <1>3
<1>5. Of(t, "product")' = Unfinished /\ Of(t, "item")' = items
  <2>1. last \in SUBSET {BatchRow}
    OBVIOUS
  <2> HIDE DEF at, items, last
  <2> QED
    BY <1>4, <2>1, OfRows
<1>6. Unfinished' = Unfinished /\ UNCHANGED ordered
  BY DEF BeginCancel, garmentVars, Unfinished, Has
<1>7. TxInv(t)'
  BY <1>4, <1>5, <1>6 DEF TxInv, PlaceInv, RestoreInv, CancelInv, Doing, ToDelete
<1>8. UNCHANGED <<garmentVars, shelf, excused, holder>>
  BY DEF BeginCancel
<1> HIDE DEF rec
<1> QED
  BY <1>1, <1>2, <1>7, <1>8, OwnStep

LEMMA CancelKeeps ==
  ASSUME IInv, NEW t \in Txs, Cancel(t)
  PROVE  IInv'
<1> DEFINE P == Of(t, "product")
           I == Of(t, "item")
           S == Of(t, "shelf")
           W == tx[t].rows
<1>1. TypeOK'
  BY CancelTypes DEF IInv, TxInv
<1>2. Serializable(t)
  BY DEF Cancel, Serializable
<1>3. ProductRows(P) \cup ItemRows(I) \cup ShelfRows(S) \subseteq W
  BY <1>2, OfTypes DEF IInv, ProductRows, ItemRows, ShelfRows
<1>4. tx[t].del \subseteq P \cap I
  BY DEF Cancel, IInv, TxInv, CancelInv
<1>5. /\ \A g \in Garments \ P : product'[g] = product[g]
      /\ \A g \in Garments \ I : item'[g] = item[g]
      /\ excused' = excused \ I /\ UNCHANGED <<ordered, shelf>>
  BY <1>4 DEF Cancel
<1>6. \A g \in Garments \cap I : item'[g].at = None
  BY <1>4 DEF Cancel, NoItem, IInv, TypeOK, Item
<1>7. \A s \in Shelves : Load(s)' \subseteq Load(s)
  BY <1>5, <1>6, ShelvesAssumption DEF Load, On
<1>8. ASSUME NEW s \in Shelves PROVE Cardinality(Load(s)') <= shelf'[s].capacity
  <2>1. Load(s)' \in SUBSET Load(s)
    BY <1>7
  <2>2. Load(s) \in SUBSET Garments /\ shelf[s].capacity \in Nat
    BY LoadTypes DEF IInv
  <2>3. Cardinality(Load(s)) <= shelf[s].capacity
    BY DEF IInv, OverfullIsExplained, Load
  <2> QED
    BY <1>5, <2>1, <2>2, <2>3, FewerFit
<1>9. Frame(P, I, S)
  BY <1>5, <1>7 DEF Frame
<1>10. Commits(t, W) /\ FreeOrMine(t, S \cap Shelves)
  BY DEF Cancel, Free, FreeOrMine
<1> HIDE DEF P, I, S, W
<1> QED
  BY <1>1, <1>3, <1>8, <1>9, <1>10, LastStep

\* What a restore finds room for still has it at that moment.
LEMMA BeginRestoreKeeps ==
  ASSUME IInv, NEW t \in Txs, NEW g \in Garments, BeginRestore(t, g)
  PROVE  IInv'
<1> DEFINE coming == {h \in Together(g) : Has(h, "ARCHIVED")}
           Shelved(back) == {item[h].freed : h \in back}
           Back == {r \in {BatchRow} : batch # "OPEN"}
           Rec(back) == [kind |-> "RESTORE", del |-> {},
                         rows |-> ProductRows(coming) \cup ItemRows(back)
                                    \cup ShelfRows(Shelved(back)) \cup Back]
<1>1. TypeOK'
  BY BeginRestoreTypes DEF IInv
<1>2. PICK back \in SUBSET Wanting(coming) :
        /\ \A s \in Shelves : Cardinality(FromShelf(back, s)) <= Room(s)
        /\ Begins(t, Rec(back))
  BY DEF BeginRestore
<1>3. coming \subseteq Garments
  BY DEF Together, IInv, TypeOK
<1>4. back \subseteq Garments /\ \A h \in back : item[h].freed \in Shelves
  BY <1>2, <1>3 DEF Wanting, IInv, TypeOK, Item
<1>5. ASSUME NEW s \in Shelved(back)
      PROVE  /\ shelf[s].open
             /\ Cardinality(Load(s) \cup FromShelf(back, s)) <= shelf[s].capacity
  <2>1. s \in Shelves
    BY <1>4
  <2>2. FromShelf(back, s) # {} /\ FromShelf(back, s) \in SUBSET Garments
    BY <1>4 DEF FromShelf
  <2>3. Cardinality(FromShelf(back, s)) \in Nat \ {0}
    BY <2>2, ShelvesAssumption, FS_Subset, FS_CardinalityType, FS_EmptySet
  <2>4. shelf[s].open
    BY <1>2, <2>1, <2>3 DEF Room
  <2>5. Fits(FromShelf(back, s), s)
    BY <1>2, <2>1, <2>4 DEF Fits
  <2> QED
    BY <2>1, <2>2, <2>5, FitsLeavesRoom DEF IInv
<1>6. tx'[t] = Rec(back)
  BY <1>2 DEF Begins, IInv, TypeOK
<1>7. /\ tx'[t].kind = "RESTORE"
      /\ tx'[t].rows = ProductRows(coming) \cup ItemRows(back)
                         \cup ShelfRows(Shelved(back)) \cup Back
  BY <1>6
<1>8. Of(t, "item")' = back /\ Of(t, "shelf")' = Shelved(back)
  <2>1. Back \in SUBSET {BatchRow}
    OBVIOUS
  <2> HIDE DEF coming, Shelved, Back
  <2> QED
    BY <1>7, <2>1, OfRows
<1>9. UNCHANGED <<item, shelf, excused>>
  BY DEF BeginRestore, garmentVars
<1>10. /\ \A h \in back : item'[h].freed \in Shelved(back)
       /\ \A s \in Shelved(back) :
            /\ shelf'[s].open
            /\ Load(s)' = Load(s) /\ shelf'[s] = shelf[s]
            /\ {h \in back : item'[h].freed = s} = FromShelf(back, s)
  BY <1>5, <1>9 DEF Load, On, FromShelf
<1>11. TxInv(t)'
  BY <1>5, <1>7, <1>8, <1>10 DEF TxInv, PlaceInv, RestoreInv, CancelInv, Doing, FromShelf
<1>12. UNCHANGED <<garmentVars, shelf, excused, holder>>
  BY DEF BeginRestore
<1> HIDE DEF Rec
<1> QED
  BY <1>1, <1>2, <1>11, <1>12, OwnStep

LEMMA RestoreKeeps ==
  ASSUME IInv, NEW t \in Txs, Restore(t)
  PROVE  IInv'
<1> DEFINE P == Of(t, "product")
           I == Of(t, "item")
           S == Of(t, "shelf")
           W == tx[t].rows
<1>1. TypeOK'
  BY RestoreTypes DEF IInv
<1>2. Serializable(t)
  BY DEF Restore, Serializable
<1>3. ProductRows(P) \cup ItemRows(I) \cup ShelfRows(S) \subseteq W
  BY <1>2, OfTypes DEF IInv, ProductRows, ItemRows, ShelfRows
<1>4. /\ \A g \in I : item[g].freed \in S
      /\ \A s \in S : Cardinality(Load(s) \cup FromShelf(I, s)) <= shelf[s].capacity
      /\ I \subseteq Garments
  BY <1>2, OfTypes DEF Restore, IInv, TxInv, RestoreInv
<1>5. /\ \A g \in Garments \ P : product'[g] = product[g]
      /\ \A g \in Garments \ I : item'[g] = item[g]
      /\ excused' = excused \ I /\ UNCHANGED <<ordered, shelf>>
  BY DEF Restore
<1>6. \A g \in I : item'[g].at = item[g].freed /\ item'[g].st = item[g].st
  BY <1>4 DEF Restore, IInv, TypeOK, Item
<1>7. \A s \in Shelves \ S : Load(s)' \subseteq Load(s)
  BY <1>4, <1>5, <1>6 DEF Load, On
<1>8. ASSUME NEW s \in Shelves \cap S PROVE Cardinality(Load(s)') <= shelf'[s].capacity
  <2>1. Load(s)' \in SUBSET (Load(s) \cup FromShelf(I, s))
    BY <1>5, <1>6 DEF Load, On, FromShelf
  <2>2. Load(s) \cup FromShelf(I, s) \in SUBSET Garments /\ shelf[s].capacity \in Nat
    BY <1>4, LoadTypes DEF IInv, FromShelf
  <2> QED
    BY <1>4, <1>5, <2>1, <2>2, FewerFit
<1>9. Frame(P, I, S)
  BY <1>5, <1>7 DEF Frame
<1>10. Commits(t, W) /\ FreeOrMine(t, S \cap Shelves)
  BY DEF Restore, Free, FreeOrMine
<1> HIDE DEF P, I, S, W
<1> QED
  BY <1>1, <1>3, <1>8, <1>9, <1>10, LastStep

LEMMA OtherKeeps ==
  ASSUME IInv, NEW t \in Txs, TypeOK',
         \/ Count(t) \/ Abort(t)
         \/ \E g \in Garments : Pick(t, g)
  PROVE  IInv'
<1>1. CASE Count(t)
  <2>1. Begins(t, [kind |-> "COMPLETE"]) /\ UNCHANGED <<garmentVars, shelf, excused, holder>>
    BY <1>1 DEF Count
  <2> QED
    BY <2>1, BeginsOtherKeeps
<1>2. CASE Abort(t)
  <2>1. Begins(t, None) /\ UNCHANGED <<garmentVars, shelf, excused>>
    BY <1>2 DEF Abort
  <2>2. \A u \in Txs \ {t} : \A s \in Shelves : holder'[s] = u => holder[s] = u
    BY <1>2, ShelvesAssumption DEF Abort, Unlocked
  <2> QED
    BY <2>1, <2>2, BeginsOtherKeeps
<1>3. ASSUME NEW g \in Garments, Pick(t, g) PROVE IInv'
  <2> DEFINE rec == [kind |-> "PICK", of |-> g, at |-> item[g].at,
                     open |-> shelf[item[g].at].open]
  <2>1. Begins(t, rec) /\ UNCHANGED <<garmentVars, shelf, excused, holder>>
    BY <1>3 DEF Pick
  <2>2. rec.kind = "PICK"
    OBVIOUS
  <2> HIDE DEF rec
  <2> QED
    BY <2>1, <2>2, BeginsOtherKeeps
<1> QED
  BY <1>1, <1>2, <1>3

LEMMA InvStep ==
  ASSUME IInv, [Next]_vars
  PROVE  IInv'
<1>1. TypeOK'
  BY TypeStep
<1>2. ASSUME NEW g \in Garments, Lifecycle(g) PROVE IInv'
  BY <1>2, LifecycleKeeps
<1>3. ASSUME NEW s \in Shelves, Desk(s) PROVE IInv'
  BY <1>3, DeskKeeps
<1>4. ASSUME NEW t \in Txs, Transaction(t) PROVE IInv'
  <2>1. CASE Lock(t) \/ Place(t)
    BY <2>1, LockKeeps, PlaceKeeps
  <2>2. ASSUME NEW s \in Shelves,
               PlanAssign(t, s) \/ PlanMove(t, s) \/ \E g \in Garments : MoveOne(t, g, s)
        PROVE  IInv'
    BY <2>2, PlanAssignKeeps, PlanMoveKeeps, MoveOneKeeps
  <2>3. CASE Picked(t) \/ Complete(t)
    BY <2>3, PickedKeeps, CompleteKeeps
  <2>4. CASE Count(t) \/ Abort(t)
    BY <1>1, <2>4, OtherKeeps
  <2>5. CASE BeginCancel(t) \/ Cancel(t) \/ Restore(t)
    BY <2>5, BeginCancelKeeps, CancelKeeps, RestoreKeeps
  <2>6. ASSUME NEW g \in Garments, Pick(t, g) \/ BeginRestore(t, g) PROVE IInv'
    BY <1>1, <2>6, OtherKeeps, BeginRestoreKeeps
  <2> QED
    BY <1>4, <2>1, <2>2, <2>3, <2>4, <2>5, <2>6 DEF Transaction, Placement
<1>5. CASE UNCHANGED vars
  <2>1. Frame({}, {}, {})
    BY <1>5 DEF Frame, vars, garmentVars, Load, On
  <2>2. ASSUME NEW u \in Txs PROVE TxInv(u)'
    <3>1. tx'[u] = tx[u] /\ \A s \in Shelves : holder'[s] = u => holder[s] = u
      BY <1>5 DEF vars
    <3>2. ~Loses(u, {}) /\ ProductRows({}) \cup ItemRows({}) \cup ShelfRows({}) \subseteq {}
      BY DEF Loses, ProductRows, ItemRows, ShelfRows
    <3> QED
      BY <1>1, <2>1, <3>1, <3>2, GoesOn DEF IInv
  <2> QED
    BY <1>1, <2>1, <2>2, StillFits DEF IInv
<1> QED
  BY <1>2, <1>3, <1>4, <1>5 DEF Next

LEMMA InitInv == Init => IInv
<1> SUFFICES ASSUME Init PROVE IInv
  OBVIOUS
<1>1. TypeOK
  BY InitTypes
<1>2. \A s \in Shelves : On(s) \ excused = {}
  BY DEF Init, On, NoItem, OCCUPYING
<1>3. OverfullIsExplained
  <2>1. Cardinality({}) = 0
    BY FS_EmptySet
  <2>2. \A s \in Shelves : shelf[s].capacity \in Nat
    BY <1>1, LoadTypes
  <2> QED
    BY <1>2, <2>1, <2>2 DEF OverfullIsExplained
<1>4. \A t \in Txs : TxInv(t)
  BY ShelvesAssumption DEF Init, TxInv, PlaceInv, RestoreInv, CancelInv, Doing
<1> QED
  BY <1>1, <1>3, <1>4 DEF IInv

\* The strengthening is inductive, so it holds throughout.
THEOREM InvariantHolds == Spec => []IInv
<1>1. IInv /\ [Next]_vars => IInv'
  BY InvStep
<1> QED
  BY InitInv, <1>1, PTL DEF Spec

-----------------------------------------------------------------------------
(* The theorems.                                                           *)

\* Every variable keeps the shape of its table, whatever overlaps: what a
\* transaction of warehouse-capacity, of a batch or of the product control desk
\* writes from what it read before is still a row.
THEOREM TypesHold == Spec => []TypeOK
<1>1. IInv => TypeOK
  BY DEF IInv
<1> QED
  BY InvariantHolds, <1>1, PTL

\* The count under the shelf locks, or under SERIALIZABLE, holds until the
\* garments are written: no shelf carries more than its capacity of the garments
\* that were counted.
THEOREM ShelvesHoldTheirLoad == Spec => []OverfullIsExplained
<1>1. IInv => OverfullIsExplained
  BY DEF IInv
<1> QED
  BY InvariantHolds, <1>1, PTL

-----------------------------------------------------------------------------

\* What a step may put on a shelf.
LEMMA OntoOpenShelves ==
  ASSUME IInv, [Next]_vars, NEW g \in Garments, NEW s \in Shelves, PutOn(g, s)
  PROVE  shelf[s].open
<1>1. item'[g].at # item[g].at /\ item'[g].at = s /\ g \notin excused'
  BY DEF PutOn
<1>2. CASE UNCHANGED item
  BY <1>1, <1>2
<1>3. ASSUME NEW x \in Garments, Lifecycle(x) PROVE shelf[s].open
  <2>1. CASE \/ Barcode(x) \/ Rework(x) \/ Publish(x)
             \/ RejectAtReview(x) \/ RejectAtDisplayReview(x)
    BY <1>2, <2>1 DEF Barcode, Rework, Publish, RejectAtReview,
         RejectAtDisplayReview, Becomes
  <2>2. ASSUME NEW from, NEW to, Stock(x, from, to) PROVE item'[g].at = item[g].at
    BY <2>2 DEF Stock, IInv, TypeOK, Item
  <2>3. CASE Reserve(x) \/ Pay(x) \/ Release(x) \/ WriteOff(x)
    BY <1>1, <2>2, <2>3 DEF Reserve, Pay, Release, WriteOff
  <2>4. ASSUME NEW to \in Shelves, Restock(x, to) PROVE shelf[s].open
    <3>1. g = x /\ s = to
      BY <1>1, <2>4 DEF Restock, IInv, TypeOK
    <3> QED
      BY <2>4, <3>1 DEF Restock, Fits
  <2> QED
    BY <1>3, <2>1, <2>3, <2>4 DEF Lifecycle
<1>4. ASSUME NEW x \in Shelves, Desk(x) PROVE UNCHANGED item
  BY <1>4 DEF Desk, UpdateCapacity, SetLocationStatus, garmentVars
<1>5. ASSUME NEW t \in Txs, Transaction(t) PROVE shelf[s].open
  <2>1. CASE Place(t)
    <3>1. g \in tx[t].of /\ tx[t].to = s
      BY <1>1, <2>1 DEF Place, PlacedBy
    <3>2. holder[s] = t
      BY <1>1, <2>1, <3>1 DEF Place
    <3> QED
      BY <2>1, <3>1, <3>2 DEF Place, IInv, TxInv, PlaceInv
  <2>2. CASE Picked(t)
    BY <1>1, <2>2 DEF Picked, IInv, TypeOK, Item
  <2>3. CASE Cancel(t)
    <3>1. item'[g].at = None \/ item'[g].at = item[g].at
      BY <2>3 DEF Cancel, NoItem, IInv, TypeOK, Item
    <3> QED
      BY <1>1, <3>1, ShelvesAssumption
  <2>4. CASE Restore(t)
    <3>1. g \in Of(t, "item") /\ s = item[g].freed
      BY <1>1, <2>4 DEF Restore, IInv, TypeOK, Item
    <3> QED
      BY <2>4, <3>1 DEF Restore, IInv, TxInv, RestoreInv
  <2>5. CASE \/ Lock(t) \/ Count(t) \/ Complete(t) \/ Abort(t) \/ BeginCancel(t)
    BY <1>2, <2>5 DEF Lock, Count, Complete, Abort, BeginCancel, garmentVars
  <2>6. ASSUME NEW x \in Shelves,
               PlanAssign(t, x) \/ PlanMove(t, x) \/ \E h \in Garments : MoveOne(t, h, x)
        PROVE  UNCHANGED item
    BY <2>6 DEF PlanAssign, PlanMove, MoveOne, garmentVars
  <2>7. ASSUME NEW h \in Garments, Pick(t, h) \/ BeginRestore(t, h) PROVE UNCHANGED item
    BY <2>7 DEF Pick, BeginRestore, garmentVars
  <2> QED
    BY <1>2, <1>5, <2>1, <2>2, <2>3, <2>4, <2>5, <2>6, <2>7 DEF Transaction, Placement
<1>6. CASE UNCHANGED vars
  BY <1>2, <1>6 DEF vars, garmentVars
<1> QED
  BY <1>2, <1>3, <1>4, <1>5, <1>6 DEF Next

\* A placement that holds its locks, a restore and a restock put a garment only
\* on a shelf that is in use at the moment they write.
THEOREM NothingOntoClosed == Spec => NothingOntoAClosedShelf
<1>1. IInv /\ [Next]_vars =>
        [\A g \in Garments, s \in Shelves : PutOn(g, s) => shelf[s].open]_vars
  BY OntoOpenShelves
<1> QED
  BY InvariantHolds, <1>1, PTL DEF Spec, NothingOntoAClosedShelf

-----------------------------------------------------------------------------

\* A product that was ever ordered stays: deleting a batch leaves it archived.
OrderedStay == \A g \in ordered : ~Has(g, "DELETED")

\* What a step may do to the product of a garment.
LEMMA SparedStep ==
  ASSUME IInv, OrderedStay, [Next]_vars, NEW g \in Garments
  PROVE  /\ Has(g, "LIVE") => product'[g].st \notin {"ARCHIVED", "DELETED"}
         /\ g \in ordered \cup ordered' => product'[g].st # "DELETED"
<1>1. /\ product[g].st = "LIVE" => product[g].st \notin {"ARCHIVED", "DELETED"}
      /\ g \in ordered => product[g].st # "DELETED"
  BY DEF OrderedStay, Has
<1>2. ASSUME UNCHANGED product, \A x \in ordered' : x \in ordered \/ Has(x, "LIVE")
      PROVE  /\ Has(g, "LIVE") => product'[g].st \notin {"ARCHIVED", "DELETED"}
             /\ g \in ordered \cup ordered' => product'[g].st # "DELETED"
  BY <1>1, <1>2 DEF Has
<1>3. ASSUME NEW x \in Garments, Lifecycle(x)
      PROVE  /\ Has(g, "LIVE") => product'[g].st \notin {"ARCHIVED", "DELETED"}
             /\ g \in ordered \cup ordered' => product'[g].st # "DELETED"
  <2>1. ASSUME NEW from \in {"EARLY", "READY"}, NEW to \in {"EARLY", "READY", "LIVE", "ARCHIVED"},
               Becomes(x, from, to)
        PROVE  /\ Has(g, "LIVE") => product'[g].st \notin {"ARCHIVED", "DELETED"}
               /\ g \in ordered \cup ordered' => product'[g].st # "DELETED"
    <3>1. ordered' = ordered /\ product'[x].st = to /\ product[x].st = from
      BY <2>1 DEF Becomes, Has, IInv, TypeOK
    <3>2. g # x => product'[g] = product[g]
      BY <2>1 DEF Becomes, IInv, TypeOK
    <3> QED
      BY <1>1, <3>1, <3>2 DEF Has
  <2>2. CASE \/ Barcode(x) \/ Rework(x) \/ Publish(x)
             \/ RejectAtReview(x) \/ RejectAtDisplayReview(x)
    BY <2>1, <2>2 DEF Barcode, Rework, Publish, RejectAtReview,
         RejectAtDisplayReview
  <2>3. CASE Reserve(x) \/ Pay(x) \/ Release(x) \/ WriteOff(x)
    BY <1>2, <2>3 DEF Reserve, Pay, Release, WriteOff, Stock
  <2>4. ASSUME NEW to \in Shelves, Restock(x, to)
        PROVE  /\ Has(g, "LIVE") => product'[g].st \notin {"ARCHIVED", "DELETED"}
               /\ g \in ordered \cup ordered' => product'[g].st # "DELETED"
    BY <1>1, <2>4 DEF Restock, IInv, TypeOK, Has
  <2> QED
    BY <1>3, <2>2, <2>3, <2>4 DEF Lifecycle
<1>4. ASSUME NEW x \in Shelves, Desk(x) PROVE UNCHANGED <<product, ordered>>
  BY <1>4 DEF Desk, UpdateCapacity, SetLocationStatus, garmentVars
<1>5. ASSUME NEW t \in Txs, Transaction(t)
      PROVE  /\ Has(g, "LIVE") => product'[g].st \notin {"ARCHIVED", "DELETED"}
             /\ g \in ordered \cup ordered' => product'[g].st # "DELETED"
  <2>1. CASE Cancel(t)
    <3>1. /\ Of(t, "product") \subseteq Unfinished
          /\ tx[t].del \subseteq Of(t, "product") \ ordered
      BY <2>1 DEF Cancel, IInv, TxInv, CancelInv
    <3>2. /\ ordered' = ordered
          /\ g \in tx[t].del => product'[g].st = "DELETED"
          /\ g \notin tx[t].del /\ g \in Of(t, "product") => product'[g].st = "ARCHIVED"
          /\ g \notin Of(t, "product") => product'[g] = product[g]
      BY <2>1, <3>1 DEF Cancel
    <3> QED
      BY <1>1, <3>1, <3>2 DEF Unfinished, Has
  <2>2. CASE Restore(t)
    <3>1. /\ ordered' = ordered
          /\ product'[g].st \in {"EARLY", "READY"} \/ product'[g] = product[g]
      BY <2>2 DEF Restore, IInv, TypeOK, Product
    <3> QED
      BY <1>1, <3>1 DEF Has
  <2>3. CASE \/ Lock(t) \/ Place(t) \/ Picked(t) \/ Count(t) \/ Complete(t) \/ Abort(t)
             \/ BeginCancel(t)
    BY <1>2, <2>3 DEF Lock, Place, Picked, Count, Complete, Abort, BeginCancel, garmentVars
  <2>4. ASSUME NEW s \in Shelves,
               PlanAssign(t, s) \/ PlanMove(t, s) \/ \E h \in Garments : MoveOne(t, h, s)
        PROVE  UNCHANGED <<product, ordered>>
    BY <2>4 DEF PlanAssign, PlanMove, MoveOne, garmentVars
  <2>5. ASSUME NEW h \in Garments, Pick(t, h) \/ BeginRestore(t, h)
        PROVE  UNCHANGED <<product, ordered>>
    BY <2>5 DEF Pick, BeginRestore, garmentVars
  <2> QED
    BY <1>2, <1>5, <2>1, <2>2, <2>3, <2>4, <2>5 DEF Transaction, Placement
<1>6. CASE UNCHANGED vars
  BY <1>2, <1>6 DEF vars, garmentVars
<1> QED
  BY <1>2, <1>3, <1>4, <1>5, <1>6 DEF Next

\* cancelBatch counts what never went live and deletes what nobody ordered, and
\* whatever is published, reserved or restored before it writes stays: the
\* cancellation fails instead.
THEOREM SalesAreSpared == Spec => CancellationSparesSales
<1>1. Init => OrderedStay
  BY DEF Init, OrderedStay
<1>2. IInv /\ IInv' /\ OrderedStay /\ [Next]_vars => OrderedStay'
  BY SparedStep DEF OrderedStay, Has, IInv, TypeOK
<1>3. IInv /\ OrderedStay /\ [Next]_vars =>
        [\A g \in Garments :
           /\ Has(g, "LIVE") => product'[g].st \notin {"ARCHIVED", "DELETED"}
           /\ g \in ordered => product'[g].st # "DELETED"]_vars
  <2>1. ASSUME IInv, OrderedStay, Next, NEW g \in Garments, g \in ordered
        PROVE  product'[g].st # "DELETED"
    BY SparedStep, <2>1
  <2> QED
    BY SparedStep, <2>1
<1> QED
  BY InvariantHolds, <1>1, <1>2, <1>3, PTL DEF Spec, CancellationSparesSales

=============================================================================
