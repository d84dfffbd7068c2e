------------------------------ MODULE Shelves -------------------------------
(***************************************************************************)
(* The warehouse shelves and one intake batch: garments get a place, move, *)
(* are sold, picked and come back, while the desk changes the shelves and  *)
(* cancels or restores the batch.                                          *)
(*                                                                         *)
(* Transactions run READ COMMITTED and lock the rows of the shelves they   *)
(* fill; those that cancel and restore run SERIALIZABLE without a lock.    *)
(* The first writer of a row wins: a serializable transaction that is to   *)
(* write a row another one has written can only fail, so it ends when that *)
(* happens.  Locks are taken all at once.                                  *)
(*                                                                         *)
(* EARLY stands for the steps before the barcode and REWORK_REQUIRED, READY*)
(* for BARCODE_ASSIGNED to READY_FOR_STORAGE, LIVE for PUBLISHED; STOCK for*)
(* PENDING_STOCK_IN and AVAILABLE, HELD for RESERVED and DEPOSIT_HELD, GONE*)
(* for PICKED to DELIVERED.  FULL is how an open shelf without room shows. *)
(* Every change of what is on a shelf also refreshes the shelf's row, which*)
(* is why it counts as written; only a pick's refresh, which holds no lock,*)
(* can write back a status it has read too early.                          *)
(***************************************************************************)
EXTENDS Integers, FiniteSets

CONSTANTS
  Garments,       \* the garments of the batch
  Bought,         \* bound: garments that customers order
  Shelves,        \* WarehouseLocation
  Txs,            \* transactions that may overlap
  MaxCapacity,    \* bound: capacity of a shelf
  MaxChanges,     \* bound: changes to the shelves by the desk
  None            \* no shelf; no transaction

ASSUME ShelvesAssumption ==
  /\ IsFiniteSet(Garments) /\ Bought \subseteq Garments
  /\ MaxCapacity \in Nat \ {0} /\ MaxChanges \in Nat
  /\ None \notin Shelves \cup Txs

VARIABLES
  product,        \* Product.status, and the status before the archive
  ordered,        \* garments on an OrderItem
  item,           \* InventoryItem: status, shelf, the shelf last taken off
  shelf,          \* WarehouseLocation: in use or not, capacity
  holder,         \* the transaction that has locked the shelf's row
  tx,             \* the transactions under way
  batch,          \* ProductBatch.status
  cancelled,      \* archivedProductIds of the last cancellation
  excused,        \* garments on a shelf although nobody held it for them
  changes         \* changes to the shelves so far

garmentVars == <<product, ordered, item>>
batchVars == <<batch, cancelled>>
vars == <<garmentVars, shelf, holder, tx, batchVars, excused, changes>>

-----------------------------------------------------------------------------
(* Garments and shelves.                                                   *)

Product == [st : {"EARLY", "READY", "LIVE", "ARCHIVED", "DELETED"},
            was : {"EARLY", "READY"}]
Item == [st : {"NONE", "STOCK", "HELD", "PAID", "GONE"},
         at : Shelves \cup {None}, freed : Shelves \cup {None}]
Shelf == [open : BOOLEAN, capacity : 1..MaxCapacity]

NoItem == [st |-> "NONE", at |-> None, freed |-> None]

Has(g, st) == product[g].st = st
Active == {g \in Garments : ~Has(g, "ARCHIVED") /\ ~Has(g, "DELETED")}
LiveToo == Active                            \* fault: keeps the archived only
Unfinished == {g \in Garments : Has(g, "EARLY") \/ Has(g, "READY")}

OCCUPYING == {"STOCK", "HELD", "PAID"}
MOVABLE == {"STOCK", "HELD"}

On(s) == {g \in Garments : item[g].at = s /\ item[g].st \in OCCUPYING}
Room(s) == IF shelf[s].open /\ Cardinality(On(s)) < shelf[s].capacity
           THEN shelf[s].capacity - Cardinality(On(s)) ELSE 0

FitsClosed(S, s) ==                          \* fault: in use or not
  Cardinality(S) <= shelf[s].capacity - Cardinality(On(s))
Fits(S, s) == shelf[s].open /\ Cardinality(S) <= Room(s)

-----------------------------------------------------------------------------
(* Transactions.                                                           *)

Rows == {"product", "item"} \X Garments \cup {"shelf"} \X Shelves
          \cup {<<"batch", None>>}
ProductRows(S) == {"product"} \X S
ItemRows(S) == {"item"} \X S
ShelfRows(S) == {"shelf"} \X S
BatchRow == <<"batch", None>>

\* WAIT_: it holds the locks and has read nothing else.  PLACE: it has found
\* room on `to` for the garments `of`, the `new` ones without a stock record,
\* the others now on `from`.
Waiting == [kind : {"WAIT_ASSIGN", "WAIT_MOVE"}, of : SUBSET Garments]
Placing == [kind : {"PLACE"}, of : SUBSET Garments, new : SUBSET Garments,
            to : Shelves, from : SUBSET Shelves]
\* PICK: the shelf as the refresh has read it.
Picking == [kind : {"PICK"}, of : Garments, at : Shelves, open : BOOLEAN]
\* rows: what it is to write; del: the products to delete.
Serial == [kind : {"CANCEL", "RESTORE"}, rows : SUBSET Rows,
           del : SUBSET Garments]
Completing == [kind : {"COMPLETE"}]
Tx == Waiting \cup Placing \cup Picking \cup Serial \cup Completing

ASSUME NoneIsNoTx == None \notin Tx

Doing(t, kind) == tx[t] # None /\ tx[t].kind = kind
Serializable(t) == Doing(t, "CANCEL") \/ Doing(t, "RESTORE")
Picks(t, g) == Doing(t, "PICK") /\ tx[t].of = g

InUse == {s \in Shelves : shelf[s].open}
Free(S) == \A s \in S : holder[s] = None
FreeOrMine(t, S) == \A s \in S : holder[s] \in {None, t}
Unlocked(t) == [s \in Shelves |-> IF holder[s] = t THEN None ELSE holder[s]]

\* Two serializable transactions of which one cancels the batch read what the
\* other writes: only the first commits.
LosesNever(u, W) == FALSE                   \* fault: READ COMMITTED
LosesUnlessShelf(u, W) ==                    \* fault: shelves are not written
  Serializable(u) /\ tx[u].rows \cap (W \ ShelfRows(Shelves)) # {}
Loses(u, W) == Serializable(u) /\ tx[u].rows \cap W # {}
Pivot(t, u) == /\ Serializable(t) /\ Serializable(u)
               /\ Doing(t, "CANCEL") \/ Doing(u, "CANCEL")

\* The rows W are written, by transaction t or by one of a single step.
Written(W) == tx' = [u \in Txs |-> IF Loses(u, W) THEN None ELSE tx[u]]
Commits(t, W) ==
  /\ tx' = [u \in Txs |-> IF u = t \/ Loses(u, W) \/ Pivot(t, u) THEN None
                          ELSE tx[u]]
  /\ holder' = Unlocked(t)

Begins(t, rec) == tx' = [tx EXCEPT ![t] = rec]

-----------------------------------------------------------------------------
Init ==
  /\ product = [g \in Garments |-> [st |-> "EARLY", was |-> "EARLY"]]
  /\ ordered = {} /\ item = [g \in Garments |-> NoItem]
  /\ shelf \in [Shelves -> Shelf]
  /\ holder = [s \in Shelves |-> None] /\ tx = [t \in Txs |-> None]
  /\ batch = "OPEN" /\ cancelled = {} /\ excused = {} /\ changes = 0

-----------------------------------------------------------------------------
(* Placing garments: lock the shelves, look for room, write.               *)

\* assignBatchLocations, moveProductsToShelf: the garments are listed before
\* the lock; only shelves in use are locked.
Lock(t) ==
  /\ tx[t] = None /\ Free(InUse)
  /\ \E rec \in Waiting :
       /\ rec.of \subseteq Active /\ rec.of # {}
       /\ rec.kind = "WAIT_MOVE" => rec.of = Active
       /\ Begins(t, rec)
  /\ holder' = [s \in Shelves |-> IF s \in InUse THEN t ELSE holder[s]]
  /\ UNCHANGED <<garmentVars, shelf, batchVars, excused, changes>>

\* Every garment must have a barcode and be on a step that may have a place;
\* those without a place get one, on the shelf chosen.
PlanAssign(t, to) ==
  LET without == {g \in tx[t].of : item[g].at = None}
  IN /\ Doing(t, "WAIT_ASSIGN")
     /\ \A g \in tx[t].of : Has(g, "READY") \/ Has(g, "LIVE")
     /\ without # {} /\ Fits(without, to)
     /\ Begins(t, [kind |-> "PLACE", of |-> without, to |-> to, from |-> {},
                   new |-> {g \in without : item[g].st = "NONE"}])
     /\ UNCHANGED <<garmentVars, shelf, holder, batchVars, excused, changes>>

Movable(g, to) == item[g].st \in MOVABLE /\ item[g].at # to

PlanMove(t, to) ==
  LET moving == {g \in tx[t].of : Movable(g, to) /\ item[g].at # None}
  IN /\ Doing(t, "WAIT_MOVE") /\ moving # {} /\ Fits(moving, to)
     /\ Begins(t, [kind |-> "PLACE", of |-> moving, new |-> {}, to |-> to,
                   from |-> {item[g].at : g \in moving}])
     /\ UNCHANGED <<garmentVars, shelf, holder, batchVars, excused, changes>>

\* moveInventoryItem locks every shelf before it reads anything.
MoveOne(t, g, to) ==
  /\ tx[t] = None /\ Free(Shelves)
  /\ Movable(g, to) /\ Fits({g}, to)
  /\ Begins(t, [kind |-> "PLACE", of |-> {g}, new |-> {}, to |-> to,
                from |-> {item[g].at} \ {None}])
  /\ holder' = [s \in Shelves |-> t]
  /\ UNCHANGED <<garmentVars, shelf, batchVars, excused, changes>>

\* A garment without a stock record gets one; of another only the place changes.
PlacedBy(p, g) ==
  [st |-> IF g \in p.new THEN "STOCK" ELSE item[g].st, at |-> p.to, freed |-> None]

\* The stock records are written by id, whatever became of the garments; one
\* that is gone, or there already, undoes the transaction.
Place(t) ==
  /\ Doing(t, "PLACE")
  /\ LET p == tx[t]
     IN /\ FreeOrMine(t, {p.to} \cup p.from)
        /\ \A g \in p.new : item[g].st = "NONE" /\ ~Has(g, "DELETED")
        /\ \A g \in p.of \ p.new : item[g].st # "NONE"
        /\ item' = [g \in Garments |->
             IF g \in p.of THEN PlacedBy(p, g) ELSE item[g]]
        /\ excused' = IF holder[p.to] = t THEN excused \ p.of
                      ELSE excused \cup p.of
        /\ Commits(t, ItemRows(p.of) \cup ShelfRows({p.to} \cup p.from))
  /\ UNCHANGED <<product, ordered, shelf, batchVars, changes>>

-----------------------------------------------------------------------------
(* The desk changes a shelf; a closed shelf keeps what is on it.           *)

UpdateCapacity(s, c) ==
  /\ Free({s}) /\ changes < MaxChanges
  /\ c \in 1..MaxCapacity /\ c # shelf[s].capacity /\ c >= Cardinality(On(s))
  /\ shelf' = [shelf EXCEPT ![s].capacity = c]
  /\ changes' = changes + 1
  /\ Written(ShelfRows({s}))
  /\ UNCHANGED <<garmentVars, holder, batchVars, excused>>

SetLocationStatus(s) ==
  /\ Free({s}) /\ changes < MaxChanges
  /\ shelf' = [shelf EXCEPT ![s].open = ~shelf[s].open]
  /\ changes' = changes + 1
  /\ Written(ShelfRows({s}))
  /\ UNCHANGED <<garmentVars, holder, batchVars, excused>>

-----------------------------------------------------------------------------
(* The life of a garment.                                                  *)

Becomes(g, from, to) ==
  /\ Has(g, from)
  /\ product' = [product EXCEPT ![g] =
       [st |-> to, was |-> IF to = "ARCHIVED" THEN from ELSE "EARLY"]]
  /\ Written(ProductRows({g}))
  /\ UNCHANGED <<ordered, item, shelf, holder, batchVars, excused, changes>>

Barcode(g) == Becomes(g, "EARLY", "READY")
Rework(g) == Becomes(g, "READY", "EARLY")
Publish(g) ==
  item[g].st = "STOCK" /\ item[g].at # None /\ Becomes(g, "READY", "LIVE")
RejectAtReview(g) == Becomes(g, "READY", "ARCHIVED")
RejectAtDisplayReview(g) == batch = "OPEN" /\ Becomes(g, "EARLY", "ARCHIVED")

Stock(g, from, to) ==
  /\ item[g].st \in from
  /\ item' = [item EXCEPT ![g].st = to]
  /\ Written(ItemRows({g}))
  /\ UNCHANGED <<product, shelf, holder, batchVars, changes>>

Reserve(g) ==
  /\ g \in Bought /\ Has(g, "LIVE") /\ Stock(g, {"STOCK"}, "HELD")
  /\ ordered' = ordered \cup {g} /\ UNCHANGED excused

Pay(g) == Stock(g, {"HELD"}, "PAID") /\ UNCHANGED <<ordered, excused>>

Release(g) ==
  /\ \A t \in Txs : ~Picks(t, g)
  /\ Stock(g, {"HELD", "PAID"}, "STOCK") /\ UNCHANGED <<ordered, excused>>

\* The order of a picked garment is closed: it goes back on sale, on the shelf
\* it came from, which nobody asks.
WriteOff(g) == /\ Stock(g, {"GONE"}, "STOCK")
               /\ excused' = excused \cup {g} /\ UNCHANGED ordered

\* The last scan of an order; its refresh reads the shelf, then writes it.
Pick(t, g) ==
  /\ tx[t] = None /\ item[g].st = "PAID" /\ item[g].at # None
  /\ \A u \in Txs : ~Picks(u, g)
  /\ Begins(t, [kind |-> "PICK", of |-> g, at |-> item[g].at,
                open |-> shelf[item[g].at].open])
  /\ UNCHANGED <<garmentVars, shelf, holder, batchVars, excused, changes>>

Picked(t) ==
  /\ Doing(t, "PICK")
  /\ LET g == tx[t].of  s == tx[t].at
     IN /\ Free({s})
        /\ item' = [item EXCEPT ![g].st = "GONE"]
        /\ shelf' = [shelf EXCEPT ![s].open = tx[t].open]
        /\ excused' = excused \ {g}
        /\ Commits(t, ItemRows({g}) \cup ShelfRows({s}))
  /\ UNCHANGED <<product, ordered, batchVars, changes>>

\* The after-sales desk puts a returned garment on a shelf, all of them locked,
\* and sends it through review again.
Restock(g, to) ==
  /\ Free(Shelves) /\ item[g].st = "GONE" /\ Fits({g}, to)
  /\ item' = [item EXCEPT ![g] = [st |-> "STOCK", at |-> to, freed |-> None]]
  /\ product' = [product EXCEPT ![g] = [st |-> "READY", was |-> "EARLY"]]
  /\ excused' = excused \ {g}
  /\ Written(ProductRows({g}) \cup ItemRows({g})
               \cup ShelfRows({item[g].at, to} \ {None}))
  /\ UNCHANGED <<ordered, shelf, holder, batchVars, changes>>

-----------------------------------------------------------------------------
(* completeBatchIfDone: counts, then writes, whatever the batch is by then.*)

Count(t) ==
  /\ tx[t] = None /\ Unfinished = {}
  /\ \E g \in Garments : ~Has(g, "DELETED")
  /\ Begins(t, [kind |-> "COMPLETE"])
  /\ UNCHANGED <<garmentVars, shelf, holder, batchVars, excused, changes>>

Complete(t) ==
  /\ Doing(t, "COMPLETE")
  /\ batch' = "COMPLETED"
  /\ Commits(t, {BatchRow})
  /\ UNCHANGED <<garmentVars, shelf, cancelled, excused, changes>>

-----------------------------------------------------------------------------
(* Cancelling the batch: what never went live is deleted, or archived if a *)
(* customer ever ordered it, and its place is free.                        *)

Untouched(g) == item[g].st \in {"NONE", "STOCK"}

ToDelete == Unfinished \ ordered

BeginCancel(t) ==
  LET shelved == {g \in Unfinished : item[g].at # None}
  IN /\ tx[t] = None /\ batch = "OPEN" /\ \A g \in Unfinished : Untouched(g)
     /\ Begins(t, [kind |-> "CANCEL", del |-> ToDelete,
                   rows |-> ProductRows(Unfinished)
                              \cup ItemRows(ToDelete \cup shelved)
                              \cup ShelfRows({item[g].at : g \in shelved})
                              \cup {BatchRow}])
     /\ UNCHANGED <<garmentVars, shelf, holder, batchVars, excused, changes>>

Of(t, table) == {r[2] : r \in {q \in tx[t].rows : q[1] = table}}

Cancel(t) ==
  /\ Doing(t, "CANCEL") /\ Free(Of(t, "shelf"))
  /\ product' = [g \in Garments |->
       IF g \in tx[t].del THEN [st |-> "DELETED", was |-> "EARLY"]
       ELSE IF g \in Of(t, "product")
            THEN [st |-> "ARCHIVED", was |-> product[g].st]
            ELSE product[g]]
  /\ item' = [g \in Garments |->
       IF g \in tx[t].del THEN NoItem
       ELSE IF g \in Of(t, "item")
            THEN [item[g] EXCEPT !.at = None, !.freed = item[g].at]
            ELSE item[g]]
  /\ batch' = "CANCELLED" /\ cancelled' = Of(t, "product") \ tx[t].del
  /\ excused' = excused \ Of(t, "item")
  /\ Commits(t, tx[t].rows)
  /\ UNCHANGED <<ordered, shelf, changes>>

-----------------------------------------------------------------------------
(* Restoring an archived garment, with those of the same cancellation: each*)
(* goes back to its step, and to its shelf if that has room.               *)

Together(g) ==
  IF batch = "CANCELLED" /\ g \in cancelled THEN cancelled ELSE {g}

Wanting(S) ==
  {g \in S : /\ item[g].st # "NONE" /\ item[g].at = None
             /\ item[g].freed # None /\ product[g].was = "READY"}

FromShelf(S, s) == {g \in S : item[g].freed = s}

BeginRestore(t, g) ==
  LET coming == {h \in Together(g) : Has(h, "ARCHIVED")}
  IN /\ tx[t] = None /\ g \in coming /\ \A h \in coming : Untouched(h)
     /\ \E back \in SUBSET Wanting(coming) :
          /\ \A s \in Shelves :
               /\ Cardinality(FromShelf(back, s)) <= Room(s)
               /\ \/ FromShelf(Wanting(coming), s) \subseteq back
                  \/ Cardinality(FromShelf(back, s)) = Room(s)
          /\ Begins(t, [kind |-> "RESTORE", del |-> {},
                        rows |-> ProductRows(coming) \cup ItemRows(back)
                          \cup ShelfRows({item[h].freed : h \in back})
                          \cup {r \in {BatchRow} : batch # "OPEN"}])
     /\ UNCHANGED <<garmentVars, shelf, holder, batchVars, excused, changes>>

\* archivedProductIds is read only while the batch is CANCELLED.
Restore(t) ==
  /\ Doing(t, "RESTORE") /\ Free(Of(t, "shelf"))
  /\ product' = [g \in Garments |->
       IF g \in Of(t, "product") THEN [st |-> product[g].was, was |-> "EARLY"]
       ELSE product[g]]
  /\ item' = [g \in Garments |->
       IF g \in Of(t, "item")
       THEN [item[g] EXCEPT !.at = item[g].freed, !.freed = None]
       ELSE item[g]]
  /\ IF BatchRow \in tx[t].rows THEN batch' = "OPEN" /\ cancelled' = {}
     ELSE UNCHANGED batchVars
  /\ excused' = excused \ Of(t, "item")
  /\ Commits(t, tx[t].rows)
  /\ UNCHANGED <<ordered, shelf, changes>>

\* A transaction that finds what it did not expect, or fails, is undone.
Abort(t) ==
  /\ tx[t] # None
  /\ Begins(t, None) /\ holder' = Unlocked(t)
  /\ UNCHANGED <<garmentVars, shelf, batchVars, excused, changes>>

-----------------------------------------------------------------------------
Lifecycle(g) ==
  \/ Barcode(g) \/ Rework(g) \/ Publish(g)
  \/ RejectAtReview(g) \/ RejectAtDisplayReview(g)
  \/ Reserve(g) \/ Pay(g) \/ Release(g) \/ WriteOff(g)
  \/ \E s \in Shelves : Restock(g, s)

Desk(s) == SetLocationStatus(s) \/ \E c \in 1..MaxCapacity : UpdateCapacity(s, c)

Placement(t) ==
  \/ Lock(t) \/ Place(t)
  \/ \E s \in Shelves :
       PlanAssign(t, s) \/ PlanMove(t, s) \/ \E g \in Garments : MoveOne(t, g, s)

Transaction(t) ==
  \/ Placement(t) \/ Picked(t) \/ Count(t) \/ Complete(t) \/ Abort(t)
  \/ BeginCancel(t) \/ Cancel(t) \/ Restore(t)
  \/ \E g \in Garments : Pick(t, g) \/ BeginRestore(t, g)

Next ==
  \/ \E g \in Garments : Lifecycle(g)
  \/ \E s \in Shelves : Desk(s)
  \/ \E t \in Txs : Transaction(t)

Spec == Init /\ [][Next]_vars

-----------------------------------------------------------------------------
(* Properties.                                                             *)

\* Every variable has the shape of its table.
TypeOK ==
  /\ product \in [Garments -> Product] /\ ordered \subseteq Garments
  /\ item \in [Garments -> Item] /\ shelf \in [Shelves -> Shelf]
  /\ holder \in [Shelves -> Txs \cup {None}]
  /\ tx \in [Txs -> Tx \cup {None}]
  /\ batch \in {"OPEN", "COMPLETED", "CANCELLED"}
  /\ cancelled \subseteq Garments /\ excused \subseteq Garments
  /\ changes \in 0..MaxChanges

\* A shelf never holds more than its capacity, whatever overlaps: placements
\* that count before they write, a capacity lowered in between, a restored batch
\* that takes its old place.  Left out are the garments of two paths that count
\* without the shelf's lock: a picked garment whose order is closed, and one put
\* on a shelf that was out of use when the placement took its locks.
OverfullIsExplained ==
  \A s \in Shelves : Cardinality(On(s) \ excused) <= shelf[s].capacity

PutOn(g, s) == /\ item[g].at # s /\ item'[g].at = s
               /\ item'[g].st \in OCCUPYING /\ g \notin excused'

\* Nothing is put on a shelf that is out of use, although the desk may take it
\* out of use after a placement or a restore has found it in use.
NothingOntoAClosedShelf ==
  [][\A g \in Garments, s \in Shelves : PutOn(g, s) => shelf[s].open]_vars

\* Cancelling a batch spares what has gone on sale meanwhile, and no garment
\* that a customer ever ordered is deleted.
CancellationSparesSales ==
  [][\A g \in Garments :
       /\ Has(g, "LIVE") => product'[g].st \notin {"ARCHIVED", "DELETED"}
       /\ g \in ordered => product'[g].st # "DELETED"]_vars

-----------------------------------------------------------------------------
(* What the repository says that does not hold.                            *)

\* "Do not bypass capacity validation" (docs): a shelf is never overfull.
NeverOverfull ==
  \A s \in Shelves : Cardinality(On(s)) <= shelf[s].capacity

\* A shelf out of use comes back into use by the desk's decision only, never
\* with a pick.
OutOfUseStays ==
  [][\A s \in Shelves : ~shelf[s].open /\ shelf'[s].open => UNCHANGED item]_vars

\* Paid items wait for picking where they are (a comment of the move).
PaidStaysPut ==
  [][\A g \in Garments : item[g].st = "PAID" => item'[g].at = item[g].at]_vars

\* Items from a cancelled batch come back together (a comment of the restore).
ComesBackWhole ==
  [][batch = "CANCELLED" /\ batch' # "CANCELLED" =>
       \A g \in cancelled : product'[g].st # "ARCHIVED"]_vars
=============================================================================
