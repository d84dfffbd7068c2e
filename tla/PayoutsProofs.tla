--------------------------- MODULE PayoutsProofs ----------------------------
(***************************************************************************)
(* Theorems about Payouts, for any items, payees, finance users, bulk      *)
(* files and receipts, however often the portal executes a line.           *)
(***************************************************************************)
EXTENDS Payouts, TLAPS

\* What an open transaction knows: whom or what it is for, one key per item of
\* the sheet it read, and, once it may record a payment by hand, a row to pay.
TransactionInv ==
  \A a \in Admins : tx[a] # None =>
    /\ tx[a].op = "MARK" =>
         /\ tx[a].payee \in Payees /\ tx[a].code \in Codes
         /\ tx[a].held => RowOf(tx[a].sheet, tx[a].payee) # {}
    /\ tx[a].op # "MARK" => tx[a].batch \in Batches
    /\ \A i \in Items, p, q \in Payees :
         <<i, p>> \in tx[a].sheet /\ <<i, q>> \in tx[a].sheet => p = q

\* A file that was never exported has no lines.
NewFileIsEmpty ==
  \A b \in Batches : batch[b] = "NONE" => \A p \in Payees : line[b][p] = None

\* There is one export at a time; its file is still new, and it knows of every
\* payee who waits in another.
ExportInv ==
  \A a \in Admins : Open(a, "EXPORT") =>
    /\ batch[tx[a].batch] = "NONE"
    /\ \A o \in Admins : Open(o, "EXPORT") => o = a
    /\ tx[a].held => Exported \subseteq tx[a].exported

-----------------------------------------------------------------------------
(* The kinds of steps.                                                     *)

\* A transaction opens, takes its locks, or ends without a trace.
QuietStep ==
  /\ UNCHANGED <<tables, portal>>
  /\ \E a \in Admins :
       \/ \E p \in Payees, c \in HandCodes \cup Receipts : MarkBegin(a, p, c)
       \/ MarkAcquire(a)
       \/ \E b \in Batches : ExportBegin(a, b)
       \/ ExportAcquire(a)
       \/ \E b \in Batches, report \in SUBSET Row : ReconcileBegin(a, b, report)
       \/ \E r \in Row : ReconcileRow(a, r)
       \/ ReconcileAcquire(a)
       \/ Abort(a)

\* Another desk changes one item that is not paid.
ItemStep ==
  \E i \in Items, row \in Item :
    /\ Change(i, row)
    /\ item[i].st # "PAID" \/ row.st = "PAID"
    /\ row.payout = item[i].payout

\* No table of the payout desk changes but the keys and what the portal did.
OutsideStep ==
  /\ UNCHANGED <<item, batch, line, payout, tx>>
  /\ \/ \E i \in Fees, p \in Payees : Rekey(i, p)
     \/ \E c \in PortalCodes, r \in {"PAID", "FAILED"} : Execute(c, r)

ReconcileStep == \E a \in Admins : ReconcileCommit(a)

LEMMA ItemStepKind ==
  ASSUME TypeOK, NEW i \in Items, ItemNext(i), ~ \E p \in Payees : Rekey(i, p)
  PROVE  ItemStep
<1>1. item[i] \in Item
  BY DEF TypeOK
<1>2. CASE Earn(i)
  BY <1>1, <1>2 DEF Earn, ItemStep, Item
<1>3. CASE Reject(i)
  <2> DEFINE row == [item[i] EXCEPT !.st = "REJECTED", !.hold = "FREEZE"]
  <2>1. row \in Item /\ row.payout = item[i].payout /\ item[i].st # "PAID"
    BY <1>1, <1>3 DEF Reject, Item
  <2>2. Change(i, row)
    BY <1>3 DEF Reject
  <2> HIDE DEF row
  <2> QED
    BY <2>1, <2>2 DEF ItemStep
<1>4. CASE PayAlone(i)
  BY <1>1, <1>4 DEF PayAlone, ItemStep, Item, Payable
<1>5. CASE OpenCase(i)
  BY <1>1, <1>5 DEF OpenCase, ItemStep, Item, Payable
<1>6. CASE CloseCase(i)
  BY <1>1, <1>6 DEF CloseCase, ItemStep, Item
<1>7. CASE Freeze(i)
  BY <1>1, <1>7 DEF Freeze, ItemStep, Item
<1> QED
  BY <1>2, <1>3, <1>4, <1>5, <1>6, <1>7 DEF ItemNext

LEMMA StepKinds ==
  ASSUME TypeOK, Next
  PROVE  \/ QuietStep \/ ItemStep \/ OutsideStep \/ ReconcileStep
         \/ \E a \in Admins : MarkCommit(a) \/ ExportCommit(a)
         \/ \E b \in Batches, pendingOnly \in BOOLEAN : Cancel(b, pendingOnly)
<1>1. ASSUME NEW a \in Admins, FinanceNext(a)
      PROVE  QuietStep \/ ReconcileStep \/ MarkCommit(a) \/ ExportCommit(a)
  BY <1>1 DEF FinanceNext, QuietStep, ReconcileStep, MarkBegin, MarkAcquire,
       ExportBegin, ExportAcquire, ReconcileBegin, ReconcileRow,
       ReconcileAcquire, Abort, Begin, Acquire, Reports, Row, Executed
<1>2. ASSUME NEW i \in Items, ItemNext(i)
      PROVE  ItemStep \/ OutsideStep
  <2>1. ASSUME NEW p \in Payees, Rekey(i, p) PROVE OutsideStep
    BY <2>1 DEF OutsideStep, Rekey
  <2> QED
    BY <1>2, <2>1, ItemStepKind
<1>3. ASSUME NEW c \in PortalCodes, NEW r \in {"PAID", "FAILED"}, Execute(c, r)
      PROVE  OutsideStep
  BY <1>3 DEF OutsideStep, Execute, tables
<1> QED
  BY <1>1, <1>2, <1>3 DEF Next

-----------------------------------------------------------------------------
(* Types.                                                                  *)

LEMMA SumsOfRows == ASSUME NEW I \in SUBSET Items, I # {} PROVE SumOf(I) \in Sums
  BY DEF Sums

LEMMA BlankIsTransaction ==
  ASSUME NEW op \in {"MARK", "EXPORT", "RECONCILE"}
  PROVE  Blank(op) \in Transaction
  BY DEF Blank, Transaction

LEMMA SheetType ==
  ASSUME TypeOK
  PROVE  /\ Sheet \subseteq Items \X Payees
         /\ \A i \in Items, p, q \in Payees :
              <<i, p>> \in Sheet /\ <<i, q>> \in Sheet => p = q
  BY DEF TypeOK, Sheet

LEMMA BeginKeepsTypes ==
  ASSUME TypeOK, TransactionInv, NEW a \in Admins, NEW t \in Transaction,
         Begin(a, t), ~t.held, t.sheet = {},
         t.op = "MARK" => t.payee \in Payees /\ t.code \in Codes,
         t.op # "MARK" => t.batch \in Batches
  PROVE  TypeOK' /\ TransactionInv'
<1>1. tx' = [tx EXCEPT ![a] = t]
  BY DEF Begin
<1>2. tx' \in [Admins -> Transaction \cup {None}]
  BY <1>1 DEF TypeOK
<1>3. TypeOK'
  BY <1>2 DEF Begin, TypeOK, tables
<1>4. ASSUME NEW o \in Admins PROVE tx'[o] = tx[o] \/ tx'[o] = t
  BY <1>1 DEF TypeOK
<1>5. TransactionInv'
  BY <1>4 DEF TransactionInv, RowOf
<1> QED
  BY <1>3, <1>5

LEMMA AcquireKeepsTypes ==
  ASSUME TypeOK, TransactionInv, NEW a \in Admins, Acquire(a), tx[a] # None,
         tx[a].op = "MARK" => RowOf(Sheet, tx[a].payee) # {}
  PROVE  TypeOK' /\ TransactionInv'
<1> DEFINE t == [tx[a] EXCEPT !.held = TRUE, !.sheet = Sheet, !.exported = Exported]
<1>1. tx[a] \in Transaction
  BY DEF TypeOK
<1>2. Sheet \in SUBSET (Items \X Payees) /\ Exported \in SUBSET Payees
  BY SheetType DEF Exported
<1>3. t \in Transaction
  BY <1>1, <1>2 DEF Transaction
<1>4. tx' = [tx EXCEPT ![a] = t]
  BY <1>1 DEF Acquire, Transaction, TypeOK
<1>5. TypeOK'
  BY <1>3, <1>4 DEF Acquire, TypeOK, tables
<1>6. /\ t.op = tx[a].op /\ t.payee = tx[a].payee /\ t.code = tx[a].code
      /\ t.batch = tx[a].batch /\ t.sheet = Sheet
  BY <1>1 DEF Transaction
<1>7. ASSUME NEW o \in Admins PROVE (o # a /\ tx'[o] = tx[o]) \/ (o = a /\ tx'[o] = t)
  BY <1>4 DEF TypeOK
<1> HIDE DEF t
<1>8. TransactionInv'
  BY <1>6, <1>7, SheetType DEF TransactionInv, RowOf
<1> QED
  BY <1>5, <1>8

LEMMA CommitKeepsTransactions ==
  ASSUME TypeOK, TransactionInv, NEW a \in Admins, Commit(a)
  PROVE  tx' \in [Admins -> Transaction \cup {None}] /\ TransactionInv'
<1>1. tx' = [tx EXCEPT ![a] = None]
  BY DEF Commit
<1>2. ASSUME NEW o \in Admins PROVE tx'[o] = tx[o] \/ tx'[o] = None
  BY <1>1 DEF TypeOK
<1>3. TransactionInv'
  BY <1>2 DEF TransactionInv, RowOf
<1> QED
  BY <1>1, <1>3 DEF TypeOK

LEMMA MarkBeginsTyped ==
  ASSUME TypeOK, TransactionInv, NEW a \in Admins, NEW p \in Payees,
         NEW c \in HandCodes \cup Receipts, MarkBegin(a, p, c)
  PROVE  TypeOK' /\ TransactionInv'
<1> DEFINE t == [Blank("MARK") EXCEPT !.payee = p, !.code = c,
                                      !.lock = RowOf(Sheet, p)]
<1>1. c \in Codes /\ RowOf(Sheet, p) \in SUBSET Items
  BY DEF Codes, Receipts, RowOf
<1>2. t \in Transaction /\ ~t.held /\ t.sheet = {} /\ t.op = "MARK"
        /\ t.payee \in Payees /\ t.code \in Codes
  BY <1>1 DEF Blank, Transaction
<1>3. Begin(a, t)
  BY DEF MarkBegin
<1> HIDE DEF t
<1> QED
  BY <1>2, <1>3, BeginKeepsTypes

LEMMA ExportBeginsTyped ==
  ASSUME TypeOK, TransactionInv, NEW a \in Admins, NEW b \in Batches,
         ExportBegin(a, b)
  PROVE  TypeOK' /\ TransactionInv'
<1> DEFINE t == [Blank("EXPORT") EXCEPT
                   !.batch = b, !.lock = {i \in Items : Payable(i)}]
<1>1. t \in Transaction /\ ~t.held /\ t.sheet = {} /\ t.op = "EXPORT"
        /\ t.batch \in Batches
  BY DEF Blank, Transaction
<1>2. Begin(a, t)
  BY DEF ExportBegin
<1> HIDE DEF t
<1> QED
  BY <1>1, <1>2, BeginKeepsTypes

LEMMA ReconcileBeginsTyped ==
  ASSUME TypeOK, TransactionInv, NEW a \in Admins, NEW b \in Batches,
         NEW report \in SUBSET Row, ReconcileBegin(a, b, report)
  PROVE  TypeOK' /\ TransactionInv'
<1> DEFINE t == [Blank("RECONCILE") EXCEPT !.batch = b, !.report = report]
<1>1. Begin(a, t)
  BY DEF ReconcileBegin
<1>2. t \in Transaction /\ ~t.held /\ t.sheet = {} /\ t.op = "RECONCILE"
        /\ t.batch \in Batches
  BY DEF Blank, Transaction
<1> HIDE DEF t
<1> QED
  BY <1>1, <1>2, BeginKeepsTypes

\* What a transaction that has matched one more row remembers.
AfterRow(a, r) ==
  IF Succeeded(r)
  THEN [tx[a] EXCEPT
          !.report = @ \ {r},
          !.claim = [p \in Payees |-> IF p \in ClaimedBy(a, r) THEN r.code
                                     ELSE tx[a].claim[p]],
          !.lock = @ \cup UNION {line[tx[a].batch][p].items :
            p \in {q \in ClaimedBy(a, r) : line[tx[a].batch][q].st # "PAID"}}]
  ELSE [tx[a] EXCEPT !.report = @ \ {r}, !.failed = @ \cup ClaimedBy(a, r)]

LEMMA RowIsMatched ==
  ASSUME TypeOK, TransactionInv, NEW a \in Admins, NEW r \in Row,
         ReconcileRow(a, r)
  PROVE  /\ AfterRow(a, r) \in Transaction
         /\ AfterRow(a, r).op = "RECONCILE"
         /\ AfterRow(a, r).batch = tx[a].batch
         /\ AfterRow(a, r).sheet = tx[a].sheet
         /\ AfterRow(a, r).claim =
              [p \in Payees |-> IF Succeeded(r) /\ p \in ClaimedBy(a, r)
                               THEN r.code ELSE tx[a].claim[p]]
         /\ tx' = [tx EXCEPT ![a] = AfterRow(a, r)]
         /\ UNCHANGED <<tables, portal>>
<1> DEFINE new == ClaimedBy(a, r)
           claim == [p \in Payees |-> IF p \in new THEN r.code
                                     ELSE tx[a].claim[p]]
           lock == tx[a].lock \cup UNION {line[tx[a].batch][p].items :
                     p \in {q \in new : line[tx[a].batch][q].st # "PAID"}}
<1>1. /\ tx[a] # None /\ tx[a] \in Transaction /\ tx[a].op = "RECONCILE"
      /\ tx[a].batch \in Batches
  BY DEF ReconcileRow, Waits, Open, TypeOK, TransactionInv
<1>2. ASSUME NEW p \in new
      PROVE  p \in Payees /\ line[tx[a].batch][p] \in Line
  <2>1. p \in Payees /\ p \in Candidates(a, r)
    BY <1>2 DEF ClaimedBy, Claims
  <2>2. HasLine(tx[a].batch, p)
    BY <2>1 DEF Candidates, Fitting
  <2> QED
    BY <1>1, <2>1, <2>2 DEF HasLine, TypeOK
<1>3. r.code \in PortalCodes
  BY DEF Row
<1>4. claim \in [Payees -> PortalCodes \cup {None}]
  BY <1>1, <1>3 DEF Transaction
<1>5. lock \in SUBSET Items
  BY <1>1, <1>2 DEF Transaction, Line
<1>6. new \in SUBSET Payees
  BY <1>2
<1>7. CASE Succeeded(r)
  <2>1. /\ AfterRow(a, r) = [tx[a] EXCEPT !.report = @ \ {r}, !.claim = claim,
                                         !.lock = lock]
        /\ tx' = [tx EXCEPT ![a].report = @ \ {r}, ![a].claim = claim,
                            ![a].lock = lock]
    BY <1>7 DEF AfterRow, ReconcileRow
  <2>2. \A p \in Payees : claim[p] = IF Succeeded(r) /\ p \in new THEN r.code
                                     ELSE tx[a].claim[p]
    BY <1>7
  <2>3. claim = [p \in Payees |-> IF Succeeded(r) /\ p \in new THEN r.code
                                 ELSE tx[a].claim[p]]
    BY <1>7
  <2>4. tx[a].report \ {r} \in SUBSET Row
    BY <1>1 DEF Transaction
  <2>5. AfterRow(a, r) = [tx[a] EXCEPT !.report = tx[a].report \ {r},
                                      !.claim = claim, !.lock = lock]
    BY <1>1, <2>1 DEF Transaction
  <2>6. /\ AfterRow(a, r) \in Transaction /\ AfterRow(a, r).op = "RECONCILE"
        /\ AfterRow(a, r).batch = tx[a].batch
        /\ AfterRow(a, r).sheet = tx[a].sheet /\ AfterRow(a, r).claim = claim
    <3> HIDE DEF claim, lock, new
    <3> QED
      BY <1>1, <1>4, <1>5, <2>4, <2>5 DEF Transaction
  <2>7. tx' = [tx EXCEPT ![a] = AfterRow(a, r)]
    <3> HIDE DEF claim, lock, new
    <3> QED
      BY <2>1 DEF TypeOK
  <2>8. UNCHANGED <<tables, portal>>
    BY DEF ReconcileRow
  <2> QED
    BY <2>3, <2>6, <2>7, <2>8
<1>8. CASE ~Succeeded(r)
  <2>1. /\ AfterRow(a, r) = [tx[a] EXCEPT !.report = @ \ {r},
                                         !.failed = @ \cup new]
        /\ tx' = [tx EXCEPT ![a].report = @ \ {r}, ![a].failed = @ \cup new]
    BY <1>8 DEF AfterRow, ReconcileRow
  <2>2. tx[a].claim = [p \in Payees |-> IF Succeeded(r) /\ p \in new THEN r.code
                                       ELSE tx[a].claim[p]]
    BY <1>1, <1>8 DEF Transaction
  <2>3. tx[a].report \ {r} \in SUBSET Row /\ tx[a].failed \cup new \in SUBSET Payees
    BY <1>1, <1>6 DEF Transaction
  <2>4. AfterRow(a, r) = [tx[a] EXCEPT !.report = tx[a].report \ {r},
                                      !.failed = tx[a].failed \cup new]
    BY <1>1, <2>1 DEF Transaction
  <2>5. /\ AfterRow(a, r) \in Transaction /\ AfterRow(a, r).op = "RECONCILE"
        /\ AfterRow(a, r).batch = tx[a].batch
        /\ AfterRow(a, r).sheet = tx[a].sheet
        /\ AfterRow(a, r).claim = tx[a].claim
    <3> HIDE DEF new
    <3> QED
      BY <1>1, <2>3, <2>4 DEF Transaction
  <2>6. tx' = [tx EXCEPT ![a] = AfterRow(a, r)]
    <3> HIDE DEF new
    <3> QED
      BY <2>1 DEF TypeOK
  <2>7. UNCHANGED <<tables, portal>>
    BY DEF ReconcileRow
  <2> QED
    BY <2>2, <2>5, <2>6, <2>7
<1> QED
  BY <1>7, <1>8

LEMMA RowKeepsTypes ==
  ASSUME TypeOK, TransactionInv, NEW a \in Admins, NEW r \in Row,
         ReconcileRow(a, r)
  PROVE  TypeOK' /\ TransactionInv'
<1>1. PICK t \in Transaction :
        /\ t.op = "RECONCILE" /\ t.batch = tx[a].batch /\ t.sheet = tx[a].sheet
        /\ tx' = [tx EXCEPT ![a] = t]
        /\ UNCHANGED <<tables, portal>>
  BY RowIsMatched
<1>2. TypeOK'
  BY <1>1 DEF TypeOK, tables
<1>3. tx[a] # None /\ tx[a].op = "RECONCILE"
  BY DEF ReconcileRow, Waits, Open
<1>4. ASSUME NEW o \in Admins PROVE (o # a /\ tx'[o] = tx[o]) \/ (o = a /\ tx'[o] = t)
  BY <1>1 DEF TypeOK
<1>5. TransactionInv'
  BY <1>1, <1>3, <1>4 DEF TransactionInv, RowOf
<1> QED
  BY <1>2, <1>5

LEMMA QuietStepsKeepTypes ==
  ASSUME TypeOK, TransactionInv, QuietStep
  PROVE  TypeOK' /\ TransactionInv'
<1>1. ASSUME NEW a \in Admins, MarkAcquire(a) PROVE TypeOK' /\ TransactionInv'
  BY <1>1, AcquireKeepsTypes DEF MarkAcquire, Waits, Open
<1>2. ASSUME NEW a \in Admins, ExportAcquire(a) PROVE TypeOK' /\ TransactionInv'
  BY <1>2, AcquireKeepsTypes DEF ExportAcquire, Waits, Open
<1>3. ASSUME NEW a \in Admins, ReconcileAcquire(a) PROVE TypeOK' /\ TransactionInv'
  BY <1>3, AcquireKeepsTypes DEF ReconcileAcquire, Waits, Open
<1>4. ASSUME NEW a \in Admins, Abort(a) PROVE TypeOK' /\ TransactionInv'
  BY <1>4, CommitKeepsTransactions DEF Abort, TypeOK, tables
<1> QED
  BY <1>1, <1>2, <1>3, <1>4, MarkBeginsTyped, ExportBeginsTyped,
     ReconcileBeginsTyped, RowKeepsTypes DEF QuietStep

\* Recording payouts that are rows, for items, keeps both tables typed.
LEMMA RecordKeepsTypes ==
  ASSUME TypeOK, NEW new \in SUBSET Codes, NEW row, Record(new, row),
         \A c \in new : row[c] \in Payout
  PROVE  item' \in [Items -> Item] /\ payout' \in [Codes -> Payout \cup {None}]
<1>1. payout' \in [Codes -> Payout \cup {None}]
  BY DEF Record, TypeOK
<1>2. ASSUME NEW i \in Items, NEW c \in new
      PROVE  [item[i] EXCEPT !.st = "PAID", !.payout = c] \in Item
  <2>1. item[i] \in Item /\ c \in Codes
    BY DEF TypeOK
  <2> HIDE DEF Codes
  <2> QED
    BY <2>1 DEF Item
<1>3. ASSUME NEW i \in Items, \E c \in new : i \in row[c].items
      PROVE  (CHOOSE c \in new : i \in row[c].items) \in new
  BY <1>3
<1> DEFINE paidBy(i) == CHOOSE c \in new : i \in row[c].items
           after(i) == IF \E c \in new : i \in row[c].items
                       THEN [item[i] EXCEPT !.st = "PAID", !.payout = paidBy(i)]
                       ELSE item[i]
<1>4. ASSUME NEW i \in Items PROVE after(i) \in Item
  <2> HIDE DEF paidBy
  <2>1. CASE \E c \in new : i \in row[c].items
    <3>1. paidBy(i) \in new
      BY <1>3, <2>1 DEF paidBy
    <3> QED
      BY <1>2, <2>1, <3>1
  <2> QED
    BY <2>1 DEF TypeOK
<1>5. item' = [i \in Items |-> after(i)]
  BY DEF Record
<1>6. item' \in [Items -> Item]
  <2> HIDE DEF after
  <2> QED
    BY <1>4, <1>5
<1> QED
  BY <1>1, <1>6

LEMMA MarkCommitKeepsTypes ==
  ASSUME TypeOK, TransactionInv, NEW a \in Admins, MarkCommit(a)
  PROVE  TypeOK' /\ TransactionInv'
<1> DEFINE p == tx[a].payee
           c == tx[a].code
           items == RowOf(tx[a].sheet, p)
           row == [d \in {c} |->
                     [payee |-> p, amount |-> SumOf(items), items |-> items,
                      by |-> a, batch |-> None]]
<1>1. p \in Payees /\ c \in Codes /\ items # {} /\ items \in SUBSET Items
  BY DEF MarkCommit, Holds, Open, TransactionInv, RowOf
<1>2. SumOf(items) \in Sums
  BY <1>1, SumsOfRows
<1>3. Record({c}, row)
  BY DEF MarkCommit
<1>4. row[c] \in Payout
  <2> DEFINE r == [payee |-> p, amount |-> SumOf(items), items |-> items,
                   by |-> a, batch |-> None]
  <2>1. row[c] = r
    <3> HIDE DEF items, p, c
    <3> QED
      OBVIOUS
  <2> HIDE DEF items, p, c, row
  <2>2. r \in Payout
    BY <1>1, <1>2 DEF Payout
  <2> QED
    BY <2>1, <2>2
<1>5. item' \in [Items -> Item] /\ payout' \in [Codes -> Payout \cup {None}]
  <2> HIDE DEF row, c, p, items
  <2>1. {c} \in SUBSET Codes /\ \A d \in {c} : row[d] \in Payout
    BY <1>1, <1>4
  <2> QED
    BY <2>1, <1>3, RecordKeepsTypes
<1>6. tx' \in [Admins -> Transaction \cup {None}] /\ TransactionInv'
  BY CommitKeepsTransactions DEF MarkCommit
<1> QED
  BY <1>5, <1>6 DEF MarkCommit, TypeOK

LEMMA ExportCommitKeepsTypes ==
  ASSUME TypeOK, TransactionInv, NEW a \in Admins, ExportCommit(a)
  PROVE  TypeOK' /\ TransactionInv'
<1> DEFINE b == tx[a].batch
           sheet == tx[a].sheet
           lines == [p \in Payees |->
             IF InFile(a, p)
             THEN [st |-> "PENDING", amount |-> SumOf(RowOf(sheet, p)),
                   items |-> RowOf(sheet, p), code |-> None]
             ELSE None]
<1>1. b \in Batches
  BY DEF ExportCommit, Holds, Open, TransactionInv
<1>2. ASSUME NEW p \in Payees, InFile(a, p)
      PROVE  [st |-> "PENDING", amount |-> SumOf(RowOf(sheet, p)),
              items |-> RowOf(sheet, p), code |-> None] \in Line
  <2>1. RowOf(sheet, p) \in SUBSET Items /\ RowOf(sheet, p) # {}
    BY <1>2 DEF InFile, RowOf
  <2>2. SumOf(RowOf(sheet, p)) \in Sums
    BY <2>1, SumsOfRows
  <2> QED
    BY <2>1, <2>2 DEF Line
<1>3. lines \in [Payees -> Line \cup {None}]
  BY <1>2
<1>4. line' = [line EXCEPT ![b] = lines]
  BY DEF ExportCommit
<1>5. line' \in [Batches -> [Payees -> Line \cup {None}]]
  <2> HIDE DEF lines
  <2> QED
    BY <1>3, <1>4 DEF TypeOK
<1>6. batch' \in [Batches -> {"NONE", "OPEN", "RECONCILED", "CANCELLED"}]
  <2>1. batch' = [batch EXCEPT ![b] = "OPEN"]
    BY DEF ExportCommit
  <2> QED
    BY <2>1 DEF TypeOK
<1>7. tx' \in [Admins -> Transaction \cup {None}] /\ TransactionInv'
  BY CommitKeepsTransactions DEF ExportCommit
<1> QED
  BY <1>5, <1>6, <1>7 DEF ExportCommit, TypeOK

LEMMA CancelKeepsTypes ==
  ASSUME TypeOK, TransactionInv, NEW b \in Batches, NEW pendingOnly \in BOOLEAN,
         Cancel(b, pendingOnly)
  PROVE  TypeOK' /\ TransactionInv'
<1> DEFINE lines == [p \in Payees |->
              IF Pending(b, p) THEN [line[b][p] EXCEPT !.st = "CANCELLED"]
              ELSE line[b][p]]
<1>1. ASSUME NEW p \in Payees, Pending(b, p)
      PROVE  [line[b][p] EXCEPT !.st = "CANCELLED"] \in Line
  <2>1. line[b][p] \in Line
    BY <1>1 DEF Pending, HasLine, TypeOK
  <2> QED
    BY <2>1 DEF Line
<1>2. lines \in [Payees -> Line \cup {None}]
  BY <1>1 DEF TypeOK
<1>3. line' = [line EXCEPT ![b] = lines]
  BY DEF Cancel
<1>4. line' \in [Batches -> [Payees -> Line \cup {None}]]
  <2> HIDE DEF lines
  <2> QED
    BY <1>2, <1>3 DEF TypeOK
<1>5. batch' \in [Batches -> {"NONE", "OPEN", "RECONCILED", "CANCELLED"}]
  BY DEF Cancel, TypeOK
<1>6. TransactionInv'
  BY DEF Cancel, TransactionInv, RowOf
<1> QED
  BY <1>4, <1>5, <1>6 DEF Cancel, TypeOK

-----------------------------------------------------------------------------
(* What a report settles.                                                  *)

\* A report settles lines of its file that wait or had failed, each with the
\* receipt that it was claimed by.
LEMMA SettledAreClaimed ==
  ASSUME TypeOK, NEW a \in Admins, ReconcileCommit(a), NEW p \in Settled(a)
  PROVE  /\ p \in Payees /\ tx[a].claim[p] \in PortalCodes
         /\ tx[a].claim[p] \in Codes
         /\ HasLine(tx[a].batch, p)
         /\ line[tx[a].batch][p].st \in {"PENDING", "FAILED"}
<1>1. tx[a] \in Transaction
  BY DEF ReconcileCommit, Holds, Open, TypeOK
<1>2. p \in ToPay(a)
  BY DEF Settled
<1> QED
  BY <1>1, <1>2 DEF ToPay, Transaction, Codes

LEMMA FailedWait ==
  ASSUME TypeOK, NEW a \in Admins, ReconcileCommit(a), NEW p \in ToFail(a)
  PROVE  /\ p \in Payees /\ Pending(tx[a].batch, p) /\ HasLine(tx[a].batch, p)
         /\ line[tx[a].batch][p].st = "PENDING"
  BY DEF ToFail, Pending, ReconcileCommit, Holds, Open, TypeOK, Transaction

\* The receipts under which a report records payouts.
PaidCodes(a) == {tx[a].claim[p] : p \in Settled(a)}

LEMMA ReconcileRecords ==
  ASSUME NEW a, ReconcileCommit(a)
  PROVE  Record(PaidCodes(a), [c \in PaidCodes(a) |-> PaidByReport(a, c)])
  BY DEF ReconcileCommit, PaidCodes

\* Each is for somebody in the file, and for items of that line.
LEMMA ReportPaysSomebody ==
  ASSUME TypeOK, TransactionInv, NEW a \in Admins, ReconcileCommit(a),
         NEW c \in PaidCodes(a)
  PROVE  \E p \in Settled(a) :
           /\ tx[a].claim[p] = c
           /\ PaidByReport(a, c) =
                [payee |-> p, amount |-> line[tx[a].batch][p].amount,
                 items |-> Kept(a, p), by |-> a, batch |-> tx[a].batch]
           /\ PaidByReport(a, c) \in Payout
           /\ PaidByReport(a, c).items = Kept(a, p)
<1> DEFINE p == CHOOSE q \in Settled(a) : tx[a].claim[q] = c
           r == [payee |-> p, amount |-> line[tx[a].batch][p].amount,
                 items |-> Kept(a, p), by |-> a, batch |-> tx[a].batch]
<1>1. p \in Settled(a) /\ tx[a].claim[p] = c
  BY DEF PaidCodes
<1>2. PaidByReport(a, c) = r
  BY DEF PaidByReport
<1> HIDE DEF p
<1>3. tx[a].batch \in Batches
  BY DEF ReconcileCommit, Holds, Open, TransactionInv
<1>4. p \in Payees /\ HasLine(tx[a].batch, p)
  BY <1>1, SettledAreClaimed
<1>5. line[tx[a].batch][p].amount \in Sums
  BY <1>3, <1>4 DEF HasLine, TypeOK, Line
<1>6. Kept(a, p) \in SUBSET Items
  BY DEF Kept, RowOf
<1>7. r \in Payout /\ r.items = Kept(a, p)
  BY <1>3, <1>4, <1>5, <1>6 DEF Payout
<1> QED
  BY <1>1, <1>2, <1>7

LEMMA ReconcileKeepsTypes ==
  ASSUME TypeOK, TransactionInv, NEW a \in Admins, ReconcileCommit(a)
  PROVE  TypeOK' /\ TransactionInv'
<1> DEFINE b == tx[a].batch
           new == PaidCodes(a)
           row == [c \in new |-> PaidByReport(a, c)]
           lines == Settle(a)
<1>1. b \in Batches
  BY DEF ReconcileCommit, Holds, Open, TransactionInv
<1>2. \A p \in Settled(a) : p \in Payees /\ HasLine(b, p) /\ tx[a].claim[p] \in Codes
  BY SettledAreClaimed
<1>3. ASSUME NEW p \in Payees, HasLine(b, p) PROVE line[b][p] \in Line
  BY <1>1, <1>3 DEF HasLine, TypeOK
<1>4. \A c \in new : PaidByReport(a, c) \in Payout
  BY ReportPaysSomebody
<1>5. new \in SUBSET Codes /\ \A c \in new : row[c] \in Payout
  BY <1>2, <1>4 DEF PaidCodes
<1>6. item' \in [Items -> Item] /\ payout' \in [Codes -> Payout \cup {None}]
  <2>1. Record(new, row)
    BY ReconcileRecords
  <2> HIDE DEF new, row
  <2> QED
    BY <1>5, <2>1, RecordKeepsTypes
<1>7. ASSUME NEW p \in Payees PROVE lines[p] \in Line \cup {None}
  <2>1. CASE p \in Settled(a)
    <3>1. line[b][p] \in Line /\ tx[a].claim[p] \in Codes
      BY <1>2, <1>3, <2>1
    <3>2. [line[b][p] EXCEPT !.st = "PAID", !.code = tx[a].claim[p]] \in Line
      BY <3>1 DEF Line
    <3> QED
      BY <2>1, <3>2 DEF Settle
  <2>2. CASE p \notin Settled(a) /\ p \in ToFail(a)
    <3>1. line[b][p] \in Line
      BY <1>3, <2>2, FailedWait
    <3>2. [line[b][p] EXCEPT !.st = "FAILED"] \in Line
      BY <3>1 DEF Line
    <3> QED
      BY <2>2, <3>2 DEF Settle
  <2> QED
    BY <1>1, <2>1, <2>2 DEF Settle, TypeOK
<1>8. lines \in [Payees -> Line \cup {None}]
  BY <1>7 DEF Settle
<1>9. line' \in [Batches -> [Payees -> Line \cup {None}]]
  <2>1. line' = [line EXCEPT ![b] = lines]
    BY DEF ReconcileCommit
  <2> HIDE DEF lines
  <2> QED
    BY <1>8, <2>1 DEF TypeOK
<1>10. batch' \in [Batches -> {"NONE", "OPEN", "RECONCILED", "CANCELLED"}]
  <2>1. batch' = [batch EXCEPT ![b] = Closing(b, lines)]
    BY DEF ReconcileCommit
  <2>2. Closing(b, lines) \in {"NONE", "OPEN", "RECONCILED", "CANCELLED"}
    BY <1>1 DEF Closing, TypeOK
  <2> QED
    BY <2>1, <2>2 DEF TypeOK
<1>11. tx' \in [Admins -> Transaction \cup {None}] /\ TransactionInv'
  BY CommitKeepsTransactions DEF ReconcileCommit
<1> QED
  BY <1>6, <1>9, <1>10, <1>11 DEF ReconcileCommit, TypeOK

LEMMA InitTypes == Init => TypeOK /\ TransactionInv
<1> SUFFICES ASSUME Init PROVE TypeOK /\ TransactionInv
  OBVIOUS
<1>1. item \in [Items -> Item]
  BY DEF Init, Item
<1> QED
  BY <1>1 DEF Init, TypeOK, TransactionInv

LEMMA StepsKeepTypes ==
  ASSUME TypeOK, TransactionInv, [Next]_vars
  PROVE  TypeOK' /\ TransactionInv'
<1>1. CASE ItemStep
  <2>1. item' \in [Items -> Item]
    BY <1>1 DEF ItemStep, Change, TypeOK
  <2> QED
    BY <1>1, <2>1 DEF ItemStep, Change, TypeOK, TransactionInv, RowOf
<1>2. CASE OutsideStep
  <2>1. key' \in [Items -> Payees] /\ portal' \in [PortalCodes -> {"NO", "PAID", "FAILED"}]
    BY <1>2 DEF OutsideStep, Rekey, Execute, tables, TypeOK, Items
  <2> QED
    BY <1>2, <2>1 DEF OutsideStep, TypeOK, TransactionInv, RowOf
<1>3. CASE UNCHANGED vars
  BY <1>3 DEF vars, TypeOK, TransactionInv, RowOf
<1>4. CASE ReconcileStep
  BY <1>4, ReconcileKeepsTypes DEF ReconcileStep
<1> QED
  BY <1>1, <1>2, <1>3, <1>4, StepKinds, QuietStepsKeepTypes, MarkCommitKeepsTypes,
     ExportCommitKeepsTypes, CancelKeepsTypes

\* Every row the payout desk writes has its type; no payout and no line of a
\* bulk file is for nothing.
THEOREM TypesAreKept == Spec => [](TypeOK /\ TransactionInv)
  BY InitTypes, StepsKeepTypes, PTL DEF Spec

-----------------------------------------------------------------------------
(* One pending line for each payee.                                        *)

FilesInv == NewFileIsEmpty /\ ExportInv /\ OnePendingLine /\ OpenFileWaits

\* Where the files stay as they are and nobody comes closer to exporting one,
\* everything that is known of them stays true.
LEMMA FilesUntouched ==
  ASSUME FilesInv, UNCHANGED <<batch, line>>,
         \A o \in Admins : Open(o, "EXPORT")' => tx'[o] = tx[o]
  PROVE  FilesInv'
<1>1. \A b \in Batches, p \in Payees : Pending(b, p)' <=> Pending(b, p)
  BY DEF Pending, HasLine
<1>2. Exported' = Exported
  BY <1>1 DEF Exported
<1>3. ExportInv'
  BY <1>2 DEF FilesInv, ExportInv, Open
<1> QED
  BY <1>1, <1>3 DEF FilesInv, NewFileIsEmpty, OnePendingLine, OpenFileWaits

\* The export lock is taken.
LEMMA ExportBeginKeepsFiles ==
  ASSUME TypeOK, FilesInv, NEW a \in Admins, NEW b \in Batches, ExportBegin(a, b)
  PROVE  FilesInv'
<1> DEFINE t == [Blank("EXPORT") EXCEPT
                   !.batch = b, !.lock = {i \in Items : Payable(i)}]
<1>1. tx' = [tx EXCEPT ![a] = t] /\ UNCHANGED <<batch, line>>
  BY DEF ExportBegin, Begin, tables
<1>2. t.batch = b /\ ~t.held /\ batch[b] = "NONE"
  BY DEF Blank, ExportBegin
<1>3. \A o \in Admins : o # a => tx'[o] = tx[o] /\ ~Open(o, "EXPORT")
  BY <1>1 DEF ExportBegin, OneExport, TypeOK
<1>4. tx'[a] = t
  BY <1>1 DEF TypeOK
<1> HIDE DEF t
<1>5. ExportInv'
  BY <1>1, <1>2, <1>3, <1>4 DEF ExportInv, Open
<1>6. \A c \in Batches, p \in Payees : Pending(c, p)' <=> Pending(c, p)
  BY <1>1 DEF Pending, HasLine
<1> QED
  BY <1>1, <1>5, <1>6 DEF FilesInv, NewFileIsEmpty, OnePendingLine, OpenFileWaits

\* The export reads, under its lock, who waits.
LEMMA ExportAcquireKeepsFiles ==
  ASSUME TypeOK, FilesInv, NEW a \in Admins, ExportAcquire(a)
  PROVE  FilesInv'
<1>1. /\ UNCHANGED <<batch, line>>
      /\ tx[a] # None /\ tx[a] \in Transaction /\ Open(a, "EXPORT")
      /\ tx' = [tx EXCEPT ![a].held = TRUE, ![a].sheet = Sheet,
                          ![a].exported = Exported]
  BY DEF ExportAcquire, Acquire, tables, Waits, Open, TypeOK
<1>2. /\ tx'[a].batch = tx[a].batch /\ tx'[a].exported = Exported
      /\ tx'[a].op = "EXPORT"
      /\ \A o \in Admins : o # a => tx'[o] = tx[o]
  BY <1>1 DEF TypeOK, Transaction, Open
<1>3. \A c \in Batches, p \in Payees : Pending(c, p)' <=> Pending(c, p)
  BY <1>1 DEF Pending, HasLine
<1>4. Exported' = Exported
  BY <1>1, <1>3 DEF Exported
<1>5. ExportInv'
  BY <1>1, <1>2, <1>4 DEF FilesInv, ExportInv, Open
<1> QED
  BY <1>1, <1>3, <1>5 DEF FilesInv, NewFileIsEmpty, OnePendingLine, OpenFileWaits

\* A step that begins or goes on with another transaction opens no export.
LEMMA OtherQuietKeepsFiles ==
  ASSUME TypeOK, FilesInv, UNCHANGED <<batch, line>>, NEW a \in Admins,
         \A o \in Admins : o # a => tx'[o] = tx[o],
         tx'[a] # None => tx'[a].op # "EXPORT"
  PROVE  FilesInv'
  BY FilesUntouched DEF Open

LEMMA QuietStepsKeepFiles ==
  ASSUME TypeOK, TransactionInv, FilesInv, QuietStep
  PROVE  FilesInv'
<1>1. UNCHANGED <<batch, line>>
  BY DEF QuietStep, tables
<1>2. ASSUME NEW a \in Admins, NEW p \in Payees, NEW c \in HandCodes \cup Receipts,
             MarkBegin(a, p, c)
      PROVE  FilesInv'
  <2>1. /\ \A o \in Admins : o # a => tx'[o] = tx[o]
        /\ tx'[a].op = "MARK"
    BY <1>2 DEF MarkBegin, Begin, Blank, TypeOK
  <2> QED
    BY <1>1, <2>1, OtherQuietKeepsFiles
<1>3. ASSUME NEW a \in Admins, NEW b \in Batches, NEW report \in SUBSET Row,
             ReconcileBegin(a, b, report)
      PROVE  FilesInv'
  <2>1. /\ \A o \in Admins : o # a => tx'[o] = tx[o]
        /\ tx'[a].op = "RECONCILE"
    BY <1>3 DEF ReconcileBegin, Begin, Blank, TypeOK
  <2> QED
    BY <1>1, <2>1, OtherQuietKeepsFiles
<1>4. ASSUME NEW a \in Admins, NEW r \in Row, ReconcileRow(a, r)
      PROVE  FilesInv'
  <2>1. PICK t \in Transaction : t.op = "RECONCILE" /\ tx' = [tx EXCEPT ![a] = t]
    BY <1>4, RowIsMatched
  <2>2. /\ \A o \in Admins : o # a => tx'[o] = tx[o]
        /\ tx'[a].op = "RECONCILE"
    BY <2>1 DEF TypeOK
  <2> QED
    BY <1>1, <2>2, OtherQuietKeepsFiles
<1>5. ASSUME NEW a \in Admins, MarkAcquire(a) \/ ReconcileAcquire(a)
      PROVE  FilesInv'
  <2>1. tx[a] # None /\ tx[a] \in Transaction /\ tx[a].op # "EXPORT"
    BY <1>5 DEF MarkAcquire, ReconcileAcquire, Waits, Open, TypeOK
  <2>2. tx' = [tx EXCEPT ![a].held = TRUE, ![a].sheet = Sheet,
                         ![a].exported = Exported]
    BY <1>5 DEF MarkAcquire, ReconcileAcquire, Acquire
  <2>3. /\ \A o \in Admins : o # a => tx'[o] = tx[o]
        /\ tx'[a].op # "EXPORT"
    BY <2>1, <2>2 DEF TypeOK, Transaction
  <2> QED
    BY <1>1, <2>3, OtherQuietKeepsFiles
<1>6. ASSUME NEW a \in Admins, Abort(a) PROVE FilesInv'
  <2>1. tx'[a] = None /\ \A o \in Admins : o # a => tx'[o] = tx[o]
    BY <1>6 DEF Abort, Commit, TypeOK
  <2> QED
    BY <1>1, <2>1, OtherQuietKeepsFiles
<1> QED
  BY <1>2, <1>3, <1>4, <1>5, <1>6, ExportBeginKeepsFiles, ExportAcquireKeepsFiles
     DEF QuietStep

\* The new file is the only one that was not exported before, and leaves out
\* whoever waits in another.
LEMMA ExportCommitKeepsFiles ==
  ASSUME TypeOK, TransactionInv, FilesInv, NEW a \in Admins, ExportCommit(a)
  PROVE  FilesInv'
<1>0. PICK b \in Batches : b = tx[a].batch
  BY DEF ExportCommit, Holds, Open, TransactionInv
<1>1. batch[b] = "NONE" /\ Exported \subseteq tx[a].exported
  BY <1>0 DEF ExportCommit, Holds, FilesInv, ExportInv
<1>2. \A p \in Payees : line[b][p] = None
  BY <1>1 DEF FilesInv, NewFileIsEmpty
<1>3. /\ batch' = [batch EXCEPT ![b] = "OPEN"]
      /\ tx' = [tx EXCEPT ![a] = None]
  BY <1>0 DEF ExportCommit, Commit
<1>4. /\ batch'[b] = "OPEN"
      /\ \A c \in Batches \ {b} : batch'[c] = batch[c] /\ line'[c] = line[c]
  BY <1>0, <1>3 DEF ExportCommit, TypeOK
<1>5. \A p \in Payees : line'[b][p] =
        IF InFile(a, p)
        THEN [st |-> "PENDING", amount |-> SumOf(RowOf(tx[a].sheet, p)),
              items |-> RowOf(tx[a].sheet, p), code |-> None]
        ELSE None
  BY <1>0 DEF ExportCommit, TypeOK
<1>6. ASSUME NEW p \in Payees PROVE Pending(b, p)' <=> InFile(a, p)
  <2>1. CASE InFile(a, p)
    <3> DEFINE r == [st |-> "PENDING", amount |-> SumOf(RowOf(tx[a].sheet, p)),
                     items |-> RowOf(tx[a].sheet, p), code |-> None]
    <3>1. RowOf(tx[a].sheet, p) \in SUBSET Items /\ RowOf(tx[a].sheet, p) # {}
      BY <2>1 DEF InFile, RowOf
    <3>2. SumOf(RowOf(tx[a].sheet, p)) \in Sums
      BY <3>1, SumsOfRows
    <3>3. r \in Line /\ r.st = "PENDING"
      BY <3>1, <3>2 DEF Line
    <3> HIDE DEF r
    <3>4. r # None
      BY <3>3, NoneIsNoRow
    <3>5. line'[b][p] = r
      BY <1>5, <2>1 DEF r
    <3> QED
      BY <2>1, <3>3, <3>4, <3>5 DEF Pending, HasLine
  <2> QED
    BY <1>5, <2>1 DEF Pending, HasLine
<1>7. \A c \in Batches \ {b}, p \in Payees : Pending(c, p)' <=> Pending(c, p)
  BY <1>4 DEF Pending, HasLine
<1>8. ASSUME NEW p \in Payees, InFile(a, p), NEW c \in Batches, batch[c] = "OPEN"
      PROVE  ~Pending(c, p)
  BY <1>1, <1>8 DEF InFile, Exported
<1>9. OnePendingLine'
  BY <1>1, <1>4, <1>6, <1>7, <1>8 DEF FilesInv, OnePendingLine
<1>10. OpenFileWaits'
  BY <1>4, <1>6, <1>7 DEF FilesInv, OpenFileWaits, ExportCommit
<1>11. NewFileIsEmpty'
  BY <1>4 DEF FilesInv, NewFileIsEmpty
<1>12. \A o \in Admins : ~Open(o, "EXPORT")'
  <2>1. \A o \in Admins \ {a} : ~Open(o, "EXPORT")
    BY DEF ExportCommit, Holds, FilesInv, ExportInv
  <2> QED
    BY <1>3, <2>1 DEF Open, TypeOK
<1>13. ExportInv'
  BY <1>12 DEF ExportInv
<1> QED
  BY <1>9, <1>10, <1>11, <1>13 DEF FilesInv

\* A step that settles lines of one exported file, puts no line back to waiting
\* and closes the file with its last line.
LEMMA SettlingKeepsFiles ==
  ASSUME TypeOK, TransactionInv, FilesInv, NEW b \in Batches, batch[b] # "NONE",
         \A c \in Batches \ {b} : batch'[c] = batch[c] /\ line'[c] = line[c],
         \A p \in Payees : Pending(b, p)' => Pending(b, p),
         batch'[b] # "NONE",
         batch'[b] = "OPEN" => batch[b] = "OPEN",
         batch'[b] = "OPEN" <=> \E p \in Payees : Pending(b, p)',
         \A o \in Admins : Open(o, "EXPORT")' => tx'[o] = tx[o]
  PROVE  FilesInv'
<1>1. \A c \in Batches, p \in Payees : Pending(c, p)' => Pending(c, p)
  BY DEF Pending, HasLine
<1>2. \A c \in Batches : batch'[c] = "OPEN" => batch[c] = "OPEN"
  OBVIOUS
<1>3. Exported' \subseteq Exported
  BY <1>1, <1>2 DEF Exported
<1>4. ExportInv'
  <2> SUFFICES ASSUME NEW o \in Admins, Open(o, "EXPORT")'
               PROVE  /\ batch'[tx'[o].batch] = "NONE"
                      /\ \A q \in Admins : Open(q, "EXPORT")' => q = o
                      /\ tx'[o].held => Exported' \subseteq tx'[o].exported
    BY DEF ExportInv
  <2>1. tx'[o] = tx[o] /\ Open(o, "EXPORT") /\ batch[tx[o].batch] = "NONE"
    BY DEF Open, FilesInv, ExportInv
  <2>2. tx[o].batch \in Batches \ {b}
    BY <2>1 DEF TransactionInv, Open
  <2>3. batch'[tx[o].batch] = "NONE"
    BY <2>1, <2>2
  <2>4. ASSUME NEW q \in Admins, Open(q, "EXPORT")' PROVE q = o
    BY <2>1, <2>4 DEF Open, FilesInv, ExportInv
  <2> QED
    BY <1>3, <2>1, <2>3, <2>4 DEF FilesInv, ExportInv
<1>5. OpenFileWaits'
  <2>1. \A c \in Batches \ {b}, p \in Payees : Pending(c, p)' <=> Pending(c, p)
    BY DEF Pending, HasLine
  <2> QED
    BY <2>1 DEF FilesInv, OpenFileWaits
<1> QED
  BY <1>1, <1>2, <1>4, <1>5 DEF FilesInv, NewFileIsEmpty, OnePendingLine

LEMMA CancelKeepsFiles ==
  ASSUME TypeOK, TransactionInv, FilesInv, NEW b \in Batches, NEW pendingOnly \in BOOLEAN,
         Cancel(b, pendingOnly)
  PROVE  FilesInv'
<1>1. /\ batch[b] = "OPEN" /\ UNCHANGED tx
      /\ batch'[b] \in {"RECONCILED", "CANCELLED"}
      /\ \A c \in Batches \ {b} : batch'[c] = batch[c] /\ line'[c] = line[c]
  BY DEF Cancel, TypeOK
<1>2. ASSUME NEW p \in Payees PROVE ~Pending(b, p)'
  <2>1. line'[b][p] = IF Pending(b, p) THEN [line[b][p] EXCEPT !.st = "CANCELLED"]
                      ELSE line[b][p]
    BY DEF Cancel, TypeOK
  <2>2. CASE Pending(b, p)
    <3>1. line[b][p] \in Line
      BY <2>2 DEF Pending, HasLine, TypeOK
    <3>2. line'[b][p].st = "CANCELLED"
      BY <2>1, <2>2, <3>1 DEF Line
    <3> QED
      BY <3>2 DEF Pending
  <2> QED
    BY <2>1, <2>2 DEF Pending, HasLine
<1> QED
  BY <1>1, <1>2, SettlingKeepsFiles DEF Open

PaidLine(l, c) == [l EXCEPT !.st = "PAID", !.code = c]
FailedLine(l) == [l EXCEPT !.st = "FAILED"]

\* What a report makes of the lines of its file.
LEMMA SettledLines ==
  ASSUME TypeOK, TransactionInv, NEW a \in Admins, NEW b \in Batches, b = tx[a].batch,
         ReconcileCommit(a)
  PROVE  /\ \A c \in Batches \ {b} : batch'[c] = batch[c] /\ line'[c] = line[c]
         /\ batch'[b] = Closing(b, line'[b])
         /\ \A p \in Settled(a) :
              line'[b][p] = PaidLine(line[b][p], tx[a].claim[p])
         /\ \A p \in ToFail(a) \ Settled(a) :
              line'[b][p] = FailedLine(line[b][p])
         /\ \A p \in Payees \ (Settled(a) \cup ToFail(a)) :
              line'[b][p] = line[b][p]
         /\ \A o \in Admins : o # a => tx'[o] = tx[o]
         /\ tx'[a] = None
<1> DEFINE lines == Settle(a)
<1>1. /\ line' = [line EXCEPT ![b] = lines]
      /\ batch' = [batch EXCEPT ![b] = Closing(b, lines)]
      /\ tx' = [tx EXCEPT ![a] = None]
  BY DEF ReconcileCommit, Commit
<1>2. line'[b] = lines
  BY <1>1 DEF TypeOK
<1>3. Settled(a) \subseteq Payees /\ ToFail(a) \subseteq Payees
  BY SettledAreClaimed, FailedWait
<1>4. /\ \A p \in Settled(a) :
           lines[p] = PaidLine(line[b][p], tx[a].claim[p])
      /\ \A p \in ToFail(a) \ Settled(a) :
           lines[p] = FailedLine(line[b][p])
      /\ \A p \in Payees \ (Settled(a) \cup ToFail(a)) :
           lines[p] = line[b][p]
  BY <1>3 DEF Settle, PaidLine, FailedLine
<1> HIDE DEF lines
<1> QED
  BY <1>1, <1>2, <1>4 DEF TypeOK

LEMMA ReconcileKeepsFiles ==
  ASSUME TypeOK, TransactionInv, FilesInv, TypeOK',
         NEW a \in Admins, NEW b \in Batches, b = tx[a].batch,
         ReconcileCommit(a)
  PROVE  FilesInv'
<1> DEFINE paid == Settled(a)
           failed == ToFail(a)
<1>3. /\ \A c \in Batches \ {b} : batch'[c] = batch[c] /\ line'[c] = line[c]
      /\ batch'[b] = Closing(b, line'[b])
      /\ \A p \in paid :
           line'[b][p] = PaidLine(line[b][p], tx[a].claim[p])
      /\ \A p \in failed \ paid : line'[b][p] = FailedLine(line[b][p])
      /\ \A p \in Payees \ (paid \cup failed) : line'[b][p] = line[b][p]
      /\ \A o \in Admins : o # a => tx'[o] = tx[o]
      /\ tx'[a] = None
  BY SettledLines
<1>4. \A o \in Admins : Open(o, "EXPORT")' => tx'[o] = tx[o]
  BY <1>3 DEF Open
<1>5. \A p \in paid \cup failed : p \in Payees /\ HasLine(b, p) /\ line[b][p] \in Line
  BY SettledAreClaimed, FailedWait DEF HasLine, TypeOK
<1>6. ASSUME NEW p \in Payees, Pending(b, p)' PROVE Pending(b, p)
  <2>1. CASE p \in paid
    <3>1. line'[b][p].st = "PAID"
      BY <1>3, <1>5, <2>1 DEF Line, PaidLine, FailedLine
    <3> QED
      BY <1>6, <3>1 DEF Pending
  <2>2. CASE p \in failed \ paid
    <3>1. line'[b][p].st = "FAILED"
      BY <1>3, <1>5, <2>2 DEF Line, PaidLine, FailedLine
    <3> QED
      BY <1>6, <3>1 DEF Pending
  <2>3. CASE p \notin paid \cup failed
    BY <1>3, <1>6, <2>3 DEF Pending, HasLine
  <2> QED
    BY <2>1, <2>2, <2>3
<1>7. batch'[b] = IF batch[b] = "OPEN" /\ ~ \E p \in Payees : Pending(b, p)'
                  THEN "RECONCILED" ELSE batch[b]
  BY <1>3 DEF Closing, Pending, HasLine
<1>8. CASE batch[b] = "NONE"
  <2>1. \A p \in Payees : line[b][p] = None
    BY <1>8 DEF FilesInv, NewFileIsEmpty
  <2>2. \A p \in Payees : line'[b][p] = line[b][p]
    BY <1>3, <1>5, <2>1 DEF HasLine
  <2>3. batch'[b] = batch[b]
    BY <1>7, <1>8
  <2>4. line'[b] = line[b]
    BY <2>2 DEF TypeOK
  <2>5. \A c \in Batches : batch'[c] = batch[c] /\ line'[c] = line[c]
    BY <1>3, <2>3, <2>4
  <2>6. batch' = batch
    BY <2>5 DEF TypeOK
  <2>7. line' = line
    BY <2>5 DEF TypeOK
  <2> QED
    BY <1>4, <2>6, <2>7, FilesUntouched
<1>9. CASE batch[b] # "NONE"
  <2>1. batch'[b] = "OPEN" <=> \E p \in Payees : Pending(b, p)'
    BY <1>6, <1>7 DEF FilesInv, OpenFileWaits
  <2> QED
    BY <1>3, <1>4, <1>6, <1>7, <1>9, <2>1, SettlingKeepsFiles
<1> QED
  BY <1>8, <1>9

LEMMA StepsKeepFiles ==
  ASSUME TypeOK, TransactionInv, FilesInv, [Next]_vars
  PROVE  FilesInv'
<1>1. CASE ItemStep
  BY <1>1, FilesUntouched DEF ItemStep, Change
<1>2. CASE OutsideStep
  BY <1>2, FilesUntouched DEF OutsideStep
<1>3. CASE UNCHANGED vars
  BY <1>3, FilesUntouched DEF vars
<1>4. ASSUME NEW a \in Admins, MarkCommit(a) PROVE FilesInv'
  <2>1. /\ UNCHANGED <<batch, line>> /\ tx'[a] = None
        /\ \A o \in Admins : o # a => tx'[o] = tx[o]
    BY <1>4 DEF MarkCommit, Commit, TypeOK
  <2> QED
    BY <2>1, OtherQuietKeepsFiles
<1>5. CASE ReconcileStep
  <2>1. PICK a \in Admins : ReconcileCommit(a)
    BY <1>5 DEF ReconcileStep
  <2>2. PICK b \in Batches : b = tx[a].batch
    BY <2>1 DEF ReconcileCommit, Holds, Open, TransactionInv
  <2> QED
    BY <2>1, <2>2, ReconcileKeepsFiles, StepsKeepTypes
<1> QED
  BY <1>1, <1>2, <1>3, <1>4, <1>5, StepKinds, QuietStepsKeepFiles,
     ExportCommitKeepsFiles, CancelKeepsFiles

LEMMA InitFiles == Init => FilesInv
  BY DEF Init, FilesInv, NewFileIsEmpty, ExportInv, OnePendingLine, OpenFileWaits,
         Open, Pending, HasLine

\* No payee ever waits in two open bulk files, whoever exports at the same time.
THEOREM NobodyWaitsTwice == Spec => []OnePendingLine
<1>1. TypeOK /\ TransactionInv /\ FilesInv /\ [Next]_vars => FilesInv'
  BY StepsKeepFiles
<1>2. FilesInv => OnePendingLine
  BY DEF FilesInv
<1> QED
  BY <1>1, <1>2, InitFiles, TypesAreKept, PTL DEF Spec

\* A bulk file is open exactly as long as somebody in it waits for a result.
THEOREM FilesCloseWithTheirLastLine == Spec => []OpenFileWaits
<1>1. TypeOK /\ TransactionInv /\ FilesInv /\ [Next]_vars => FilesInv'
  BY StepsKeepFiles
<1>2. FilesInv => OpenFileWaits
  BY DEF FilesInv
<1> QED
  BY <1>1, <1>2, InitFiles, TypesAreKept, PTL DEF Spec

-----------------------------------------------------------------------------
(* What is recorded under a receipt is what the items point back to.       *)

Disjoint(new, row) ==
  \A c, d \in new, i \in Items : i \in row[c].items /\ i \in row[d].items => c = d

\* Recording keeps the items and the payouts together: the receipts are new, so
\* nothing points to them yet, and a payable item points nowhere.
LEMMA RecordKeepsOwners ==
  ASSUME TypeOK, PayoutsOwnTheirItems, NEW new \in SUBSET Codes, NEW row,
         \A c \in new : row[c] \in Payout, Disjoint(new, row), Record(new, row)
  PROVE  PayoutsOwnTheirItems'
<1>1. ASSUME NEW i \in Items
      PROVE  /\ \A c \in new : i \in row[c].items =>
                  item'[i].st = "PAID" /\ item'[i].payout = c
                  /\ item[i].payout = None
             /\ (\A c \in new : i \notin row[c].items) => item'[i] = item[i]
  <2>1. item[i] \in Item
    BY DEF TypeOK
  <2>2. ASSUME NEW c \in new, i \in row[c].items
        PROVE  /\ item'[i].st = "PAID" /\ item'[i].payout = c
               /\ item[i].payout = None
    <3>1. (CHOOSE d \in new : i \in row[d].items) = c
      BY <2>2 DEF Disjoint
    <3>2. item'[i] = [item[i] EXCEPT !.st = "PAID",
                         !.payout = CHOOSE d \in new : i \in row[d].items]
      BY <2>2 DEF Record
    <3>3. item'[i] = [item[i] EXCEPT !.st = "PAID", !.payout = c]
      BY <3>1, <3>2
    <3>4. item'[i].st = "PAID" /\ item'[i].payout = c
      BY <2>1, <3>3 DEF Item
    <3>5. item[i].st = "CONFIRMED"
      BY <2>2 DEF Record, Recordable
    <3> QED
      BY <3>4, <3>5 DEF PayoutsOwnTheirItems
  <2>3. ASSUME \A c \in new : i \notin row[c].items PROVE item'[i] = item[i]
    BY <2>3 DEF Record
  <2> QED
    BY <2>2, <2>3
<1>2. \A c \in Codes : /\ c \in new => payout[c] = None /\ payout'[c] = row[c]
                       /\ c \notin new => payout'[c] = payout[c]
  BY DEF Record
<1>3. ASSUME NEW c \in Codes, payout'[c] # None
      PROVE  payout'[c].items = {i \in Items : item'[i].payout = c}
  <2>1. CASE c \in new
    <3>1. row[c].items \subseteq Items
      BY <2>1 DEF Payout
    <3>2. \A i \in Items : item[i].payout # c
      BY <1>2, <2>1, PayoutsAssumption DEF PayoutsOwnTheirItems
    <3>3. \A i \in Items : item'[i].payout = c <=> i \in row[c].items
      BY <1>1, <2>1, <3>2
    <3> QED
      BY <1>2, <2>1, <3>1, <3>3
  <2>2. CASE c \notin new
    <3>1. payout[c].items = {i \in Items : item[i].payout = c}
      BY <1>2, <1>3, <2>2 DEF PayoutsOwnTheirItems
    <3>2. c # None
      BY PayoutsAssumption
    <3>3. \A i \in Items : item'[i].payout = c <=> item[i].payout = c
      BY <1>1, <2>2, <3>2
    <3> QED
      BY <1>2, <2>2, <3>1, <3>3
  <2> QED
    BY <2>1, <2>2
<1>4. ASSUME NEW i \in Items, item'[i].payout # None
      PROVE  item'[i].st = "PAID" /\ payout'[item'[i].payout] # None
  <2>1. CASE \E c \in new : i \in row[c].items
    <3>1. PICK c \in new : i \in row[c].items
      BY <2>1
    <3>2. row[c] # None
      BY NoneIsNoRow
    <3> QED
      BY <1>1, <1>2, <3>1, <3>2
  <2>2. CASE \A c \in new : i \notin row[c].items
    <3>1. item'[i] = item[i]
      BY <1>1, <2>2
    <3>2. item[i].payout \in Codes
      BY <1>4, <3>1 DEF TypeOK, Item
    <3>3. item[i].st = "PAID" /\ payout[item[i].payout] # None
      BY <1>4, <3>1 DEF PayoutsOwnTheirItems
    <3> QED
      BY <1>2, <3>1, <3>2, <3>3
  <2> QED
    BY <2>1, <2>2
<1> QED
  BY <1>3, <1>4 DEF PayoutsOwnTheirItems

\* Both ways to record: rows of their type, none of which pays for the same item.
RecordStep ==
  \E new \in SUBSET Codes : \E row \in [new -> Payout] :
    Disjoint(new, row) /\ Record(new, row)

LEMMA MarkIsRecord ==
  ASSUME TypeOK, TransactionInv, NEW a \in Admins, MarkCommit(a)
  PROVE  RecordStep
<1> DEFINE p == tx[a].payee
           c == tx[a].code
           items == RowOf(tx[a].sheet, p)
           r == [payee |-> p, amount |-> SumOf(items), items |-> items,
                 by |-> a, batch |-> None]
           row == [d \in {c} |-> r]
<1>1. p \in Payees /\ c \in Codes /\ items # {} /\ items \in SUBSET Items
  BY DEF MarkCommit, Holds, Open, TransactionInv, RowOf
<1>2. Record({c}, row)
  BY DEF MarkCommit
<1>3. r \in Payout
  <2>1. SumOf(items) \in Sums
    BY <1>1, SumsOfRows
  <2> HIDE DEF items, p, c
  <2> QED
    BY <1>1, <2>1 DEF Payout
<1>4. row \in [{c} -> Payout]
  <2> HIDE DEF r, c
  <2> QED
    BY <1>3
<1>5. {c} \in SUBSET Codes /\ Disjoint({c}, row)
  BY <1>1 DEF Disjoint
<1> HIDE DEF row, c
<1> QED
  BY <1>2, <1>4, <1>5 DEF RecordStep

LEMMA ReconcileIsRecord ==
  ASSUME TypeOK, TransactionInv, NEW a \in Admins, ReconcileCommit(a)
  PROVE  RecordStep
<1> DEFINE new == PaidCodes(a)
           row == [c \in new |-> PaidByReport(a, c)]
<1>1. Record(new, row)
  BY ReconcileRecords
<1>2. new \in SUBSET Codes
  BY SettledAreClaimed DEF PaidCodes
<1>3. row \in [new -> Payout]
  BY ReportPaysSomebody
<1>4. ASSUME NEW c \in new, NEW d \in new, NEW i \in Items,
             i \in PaidByReport(a, c).items, i \in PaidByReport(a, d).items
      PROVE  c = d
  <2>1. PICK p \in Settled(a) :
          tx[a].claim[p] = c /\ PaidByReport(a, c).items = Kept(a, p)
    BY ReportPaysSomebody
  <2>2. PICK q \in Settled(a) :
          tx[a].claim[q] = d /\ PaidByReport(a, d).items = Kept(a, q)
    BY ReportPaysSomebody
  <2>3. p \in Payees /\ q \in Payees
    BY SettledAreClaimed
  <2>4. <<i, p>> \in tx[a].sheet /\ <<i, q>> \in tx[a].sheet
    BY <1>4, <2>1, <2>2 DEF Kept, RowOf
  <2>5. tx[a] # None
    BY DEF ReconcileCommit, Holds, Open
  <2> QED
    BY <2>1, <2>2, <2>3, <2>4, <2>5 DEF TransactionInv
<1>5. Disjoint(new, row)
  BY <1>4 DEF Disjoint
<1> HIDE DEF new, row
<1> QED
  BY <1>1, <1>2, <1>3, <1>5 DEF RecordStep

\* Everything but recording leaves payouts alone, and items that are paid.
LEMMA PayoutKinds ==
  ASSUME TypeOK, TransactionInv, [Next]_vars
  PROVE  RecordStep \/ UNCHANGED <<item, payout>> \/ (ItemStep /\ UNCHANGED payout)
<1>1. CASE ReconcileStep
  <2>1. PICK a \in Admins : ReconcileCommit(a)
    BY <1>1 DEF ReconcileStep
  <2>2. PICK b \in Batches : b = tx[a].batch
    BY <2>1 DEF ReconcileCommit, Holds, Open, TransactionInv
  <2> QED
    BY <2>1, ReconcileIsRecord
<1>2. ASSUME NEW a \in Admins, ExportCommit(a) PROVE UNCHANGED <<item, payout>>
  BY <1>2 DEF ExportCommit
<1>3. ASSUME NEW b \in Batches, NEW pendingOnly, Cancel(b, pendingOnly)
      PROVE  UNCHANGED <<item, payout>>
  BY <1>3 DEF Cancel
<1>4. CASE QuietStep
  BY <1>4 DEF QuietStep, tables
<1>5. CASE ItemStep
  BY <1>5 DEF ItemStep, Change
<1>6. CASE OutsideStep
  BY <1>6 DEF OutsideStep
<1>7. CASE UNCHANGED vars
  BY <1>7 DEF vars
<1> QED
  BY <1>1, <1>2, <1>3, <1>4, <1>5, <1>6, <1>7, StepKinds, MarkIsRecord

LEMMA StepsKeepOwners ==
  ASSUME TypeOK, TransactionInv, PayoutsOwnTheirItems, [Next]_vars
  PROVE  PayoutsOwnTheirItems'
<1>1. CASE RecordStep
  <2>1. PICK new \in SUBSET Codes :
          \E row \in [new -> Payout] : Disjoint(new, row) /\ Record(new, row)
    BY <1>1 DEF RecordStep
  <2>2. PICK row \in [new -> Payout] : Disjoint(new, row) /\ Record(new, row)
    BY <2>1
  <2> QED
    BY <2>2, RecordKeepsOwners
<1>2. CASE UNCHANGED <<item, payout>>
  BY <1>2 DEF PayoutsOwnTheirItems
<1>3. CASE ItemStep /\ UNCHANGED payout
  <2>1. \A i \in Items : item'[i].payout = item[i].payout
                         /\ (item[i].st = "PAID" => item'[i].st = "PAID")
    BY <1>3 DEF ItemStep, Change, TypeOK
  <2> QED
    BY <1>3, <2>1 DEF PayoutsOwnTheirItems
<1> QED
  BY <1>1, <1>2, <1>3, PayoutKinds

LEMMA InitOwners == Init => PayoutsOwnTheirItems
  BY DEF Init, PayoutsOwnTheirItems

\* The items of a payout are exactly those that name its receipt, whatever was
\* confirmed, frozen or paid elsewhere between the export and the report.
THEOREM PayoutsOwnWhatTheyPay == Spec => []PayoutsOwnTheirItems
  BY InitOwners, StepsKeepOwners, TypesAreKept, PTL DEF Spec

-----------------------------------------------------------------------------
(* The desk implements the ledger.                                         *)

\* How the ledger sees an item.
Seen(i) == IF item[i].st = "PAID" /\ item[i].payout = None THEN Alone
           ELSE item[i].payout

LEMMA RecordIsLedgerStep ==
  ASSUME TypeOK, PayoutsOwnTheirItems, NEW new \in SUBSET Codes,
         NEW row \in [new -> Payout], Disjoint(new, row), Record(new, row)
  PROVE  Ledger!Record(new)
<1> DEFINE mark == [i \in Items |->
             IF \E c \in new : i \in row[c].items THEN item'[i].payout ELSE None]
<1>1. \A c \in Codes : /\ c \in new => payout[c] = None /\ payout'[c] # None
                       /\ c \notin new => payout'[c] = payout[c]
  <2>1. \A c \in new : row[c] # None
    BY NoneIsNoRow
  <2> QED
    BY <2>1 DEF Record
<1>2. ASSUME NEW i \in Items, NEW c \in new, i \in row[c].items
      PROVE  Seen(i) = None /\ item'[i].payout = c /\ Seen(i)' = c
  <2>1. item[i] \in Item /\ item[i].st = "CONFIRMED"
    BY <1>2 DEF Record, Recordable, TypeOK
  <2>2. item[i].payout = None
    BY <2>1 DEF PayoutsOwnTheirItems
  <2>3. (CHOOSE d \in new : i \in row[d].items) = c
    BY <1>2 DEF Disjoint
  <2>4. item'[i] = [item[i] EXCEPT !.st = "PAID",
                       !.payout = CHOOSE d \in new : i \in row[d].items]
    BY <1>2 DEF Record
  <2>5. item'[i] = [item[i] EXCEPT !.st = "PAID", !.payout = c]
    BY <2>3, <2>4
  <2>6. item'[i].payout = c
    BY <2>1, <2>5 DEF Item
  <2>7. c # None
    BY PayoutsAssumption
  <2> QED
    BY <2>1, <2>2, <2>6, <2>7 DEF Seen
<1>3. ASSUME NEW i \in Items, \A c \in new : i \notin row[c].items
      PROVE  Seen(i)' = Seen(i)
  <2>1. item'[i] = item[i]
    BY <1>3 DEF Record
  <2> QED
    BY <2>1 DEF Seen
<1>4. mark \in [Items -> new \cup {None}]
  BY <1>2
<1>5. \A i \in Items : Seen(i)' = IF Seen(i) = None THEN mark[i] ELSE Seen(i)
  BY <1>2, <1>3
<1> HIDE DEF mark
<1>6. [i \in Items |-> Seen(i)'] =
        [i \in Items |-> IF Seen(i) = None THEN mark[i] ELSE Seen(i)]
  BY <1>5
<1>7. \E m \in [Items -> new \cup {None}] :
        [i \in Items |-> Seen(i)'] =
          [i \in Items |-> IF Seen(i) = None THEN m[i] ELSE Seen(i)]
  BY <1>4, <1>6
<1>8. /\ new \cap {c \in Codes : payout[c] # None} = {}
      /\ {c \in Codes : payout'[c] # None} = {c \in Codes : payout[c] # None} \cup new
  BY <1>1
<1> QED
  BY <1>7, <1>8 DEF Ledger!Record, Seen

\* Another desk pays an item without a payout, or changes nothing the ledger sees.
LEMMA ItemStepIsLedgerStep ==
  ASSUME TypeOK, PayoutsOwnTheirItems, ItemStep, UNCHANGED payout
  PROVE  (\E i \in Items : Ledger!PayAlone(i)) \/ UNCHANGED Ledger!vars
<1>1. PICK i \in Items, r \in Item :
        /\ item' = [item EXCEPT ![i] = r]
        /\ item[i].st # "PAID" \/ r.st = "PAID"
        /\ r.payout = item[i].payout
  BY DEF ItemStep, Change
<1>2. \A j \in Items \ {i} : item'[j] = item[j]
  BY <1>1 DEF TypeOK
<1>3. item'[i] = r
  BY <1>1 DEF TypeOK
<1>4. {c \in Codes : payout'[c] # None} = {c \in Codes : payout[c] # None}
  OBVIOUS
<1>5. \A j \in Items \ {i} : Seen(j)' = Seen(j)
  BY <1>2 DEF Seen
<1>6. CASE item[i].st # "PAID" /\ r.st = "PAID"
  <2>1. item[i].payout = None
    BY <1>6 DEF PayoutsOwnTheirItems
  <2>2. Seen(i) = None /\ Seen(i)' = Alone
    BY <1>1, <1>3, <1>6, <2>1 DEF Seen
  <2>3. [j \in Items |-> Seen(j)'] = [[j \in Items |-> Seen(j)] EXCEPT ![i] = Alone]
    BY <1>5, <2>2
  <2>4. Ledger!PayAlone(i)
    BY <1>4, <2>2, <2>3 DEF Ledger!PayAlone, Seen
  <2> QED
    BY <2>4
<1>7. CASE ~(item[i].st # "PAID" /\ r.st = "PAID")
  <2>1. Seen(i)' = Seen(i)
    BY <1>1, <1>3, <1>7 DEF Seen
  <2>2. [j \in Items |-> Seen(j)'] = [j \in Items |-> Seen(j)]
    BY <1>5, <2>1
  <2> QED
    BY <1>4, <2>2 DEF Ledger!vars, Seen
<1> QED
  BY <1>6, <1>7

LEMMA StepsAreLedgerSteps ==
  ASSUME TypeOK, TransactionInv, PayoutsOwnTheirItems, [Next]_vars
  PROVE  [Ledger!Next]_Ledger!vars
<1>1. CASE RecordStep
  <2>1. PICK new \in SUBSET Codes :
          \E row \in [new -> Payout] : Disjoint(new, row) /\ Record(new, row)
    BY <1>1 DEF RecordStep
  <2>2. PICK row \in [new -> Payout] : Disjoint(new, row) /\ Record(new, row)
    BY <2>1
  <2>3. Ledger!Record(new)
    BY <2>2, RecordIsLedgerStep
  <2> QED
    BY <2>3 DEF Ledger!Next
<1>2. CASE UNCHANGED <<item, payout>>
  BY <1>2 DEF Ledger!vars
<1>3. CASE ItemStep /\ UNCHANGED payout
  BY <1>3, ItemStepIsLedgerStep DEF Ledger!Next
<1> QED
  BY <1>1, <1>2, <1>3, PayoutKinds

LEMMA InitIsLedgerInit == Init => Ledger!Init
<1> SUFFICES ASSUME Init PROVE Ledger!Init
  OBVIOUS
<1>1. \A i \in Items : Seen(i) = None
  BY DEF Init, Seen
<1>2. [i \in Items |-> Seen(i)] = [i \in Items |-> None]
  BY <1>1
<1>3. {c \in Codes : payout[c] # None} = {}
  BY DEF Init
<1> QED
  BY <1>2, <1>3 DEF Ledger!Init, Seen

\* The payout desk keeps the ledger's promise: no item is recorded as paid
\* twice and no M-Pesa receipt accounts for two payouts.
THEOREM DeskPaysOnce == Spec => PaysOnce
<1>1. Init => Ledger!Init
  BY InitIsLedgerInit
<1>2. TypeOK /\ TransactionInv /\ PayoutsOwnTheirItems /\ [Next]_vars
        => [Ledger!Next]_Ledger!vars
  BY StepsAreLedgerSteps
<1> QED
  BY <1>1, <1>2, TypesAreKept, PayoutsOwnWhatTheyPay, PTL
     DEF Spec, PaysOnce, Ledger!Spec

-----------------------------------------------------------------------------
(* Results stand.                                                          *)

\* What may become of a line, and that only a report makes it a paid one.
LineStands(l, m) ==
  /\ m \in Line /\ m.amount = l.amount
  /\ l.st \in {"PAID", "CANCELLED"} => m = l
  /\ l.st = "FAILED" => m.st \in {"FAILED", "PAID"}

LEMMA SameLineStands == ASSUME NEW l \in Line PROVE LineStands(l, l)
  BY DEF LineStands

LEMMA ExportKeepsLines ==
  ASSUME TypeOK, TransactionInv, FilesInv, NEW a \in Admins, ExportCommit(a),
         NEW c \in Batches, NEW p \in Payees
  PROVE  /\ HasLine(c, p) => line'[c][p] = line[c][p]
         /\ ~HasLine(c, p) => line'[c][p] = None \/ line'[c][p].st = "PENDING"
<1>0. PICK b \in Batches : b = tx[a].batch
  BY DEF ExportCommit, Holds, Open, TransactionInv
<1>1. batch[b] = "NONE"
  BY <1>0 DEF ExportCommit, Holds, FilesInv, ExportInv
<1>2. \A q \in Payees : line[b][q] = None
  BY <1>1 DEF FilesInv, NewFileIsEmpty
<1>3. CASE c # b
  <2>1. line'[c] = line[c]
    BY <1>0, <1>3 DEF ExportCommit, TypeOK
  <2> QED
    BY <2>1 DEF HasLine
<1>4. CASE c = b
  <2>1. line'[b][p] =
          IF InFile(a, p)
          THEN [st |-> "PENDING", amount |-> SumOf(RowOf(tx[a].sheet, p)),
                items |-> RowOf(tx[a].sheet, p), code |-> None]
          ELSE None
    BY <1>0 DEF ExportCommit, TypeOK
  <2> QED
    BY <1>2, <1>4, <2>1 DEF HasLine
<1> QED
  BY <1>3, <1>4

LEMMA CancelKeepsLines ==
  ASSUME TypeOK, NEW b \in Batches, NEW pendingOnly \in BOOLEAN,
         Cancel(b, pendingOnly), NEW c \in Batches, NEW p \in Payees
  PROVE  /\ ~HasLine(c, p) => line'[c][p] = None
         /\ HasLine(c, p) => /\ LineStands(line[c][p], line'[c][p])
                             /\ line'[c][p].st = "PAID" => line'[c][p] = line[c][p]
<1>1. line'[c][p] = IF c = b /\ Pending(b, p)
                    THEN [line[b][p] EXCEPT !.st = "CANCELLED"] ELSE line[c][p]
  BY DEF Cancel, TypeOK
<1>2. CASE c = b /\ Pending(b, p)
  <2>1. line[b][p] \in Line /\ line[b][p].st = "PENDING"
    BY <1>2 DEF Pending, HasLine, TypeOK
  <2>2. /\ line'[b][p] \in Line /\ line'[b][p].st = "CANCELLED"
        /\ line'[b][p].amount = line[b][p].amount
    BY <1>1, <1>2, <2>1 DEF Line
  <2> QED
    BY <1>2, <2>1, <2>2 DEF LineStands, Pending
<1>3. CASE ~(c = b /\ Pending(b, p))
  BY <1>1, <1>3, SameLineStands DEF HasLine, TypeOK
<1> QED
  BY <1>2, <1>3

\* A report settles lines of its own file that were waiting or had failed.
LEMMA ReconcileKeepsLines ==
  ASSUME TypeOK, TransactionInv, NEW a \in Admins, NEW b \in Batches, b = tx[a].batch,
         ReconcileCommit(a), NEW c \in Batches, NEW p \in Payees
  PROVE  /\ ~HasLine(c, p) => line'[c][p] = None
         /\ HasLine(c, p) =>
              /\ LineStands(line[c][p], line'[c][p])
              /\ line'[c][p].st = "PAID" =>
                   \/ line'[c][p] = line[c][p]
                   \/ c = b /\ p \in Settled(a) /\ line'[c][p].code = tx[a].claim[p]
<1>0. /\ \A d \in Batches \ {b} : batch'[d] = batch[d] /\ line'[d] = line[d]
      /\ \A q \in Settled(a) : line'[b][q] = PaidLine(line[b][q], tx[a].claim[q])
      /\ \A q \in ToFail(a) \ Settled(a) :
           line'[b][q] = FailedLine(line[b][q])
      /\ \A q \in Payees \ (Settled(a) \cup ToFail(a)) :
           line'[b][q] = line[b][q]
  BY SettledLines
<1>1. CASE c = b /\ p \in Settled(a)
  <2>1. /\ line[b][p] \in Line /\ line[b][p].st \in {"PENDING", "FAILED"}
        /\ tx[a].claim[p] \in Codes
    BY <1>1, SettledAreClaimed DEF HasLine, TypeOK, Codes
  <2>2. line'[b][p] = [line[b][p] EXCEPT !.st = "PAID", !.code = tx[a].claim[p]]
    BY <1>0, <1>1 DEF PaidLine
  <2>3. /\ line'[b][p] \in Line /\ line'[b][p].st = "PAID"
        /\ line'[b][p].code = tx[a].claim[p]
        /\ line'[b][p].amount = line[b][p].amount
    BY <2>1, <2>2 DEF Line
  <2> QED
    BY <1>1, <2>1, <2>3, SettledAreClaimed DEF LineStands
<1>2. CASE c = b /\ p \in ToFail(a) \ Settled(a)
  <2>1. HasLine(b, p) /\ line[b][p] \in Line /\ line[b][p].st = "PENDING"
    BY <1>2, FailedWait DEF HasLine, TypeOK
  <2>2. line'[b][p] = [line[b][p] EXCEPT !.st = "FAILED"]
    BY <1>0, <1>2 DEF FailedLine
  <2>3. /\ line'[b][p] \in Line /\ line'[b][p].st = "FAILED"
        /\ line'[b][p].amount = line[b][p].amount
    BY <2>1, <2>2 DEF Line
  <2> QED
    BY <1>2, <2>1, <2>3 DEF LineStands
<1>3. CASE c # b \/ p \notin Settled(a) \cup ToFail(a)
  <2>1. line'[c][p] = line[c][p]
    BY <1>0, <1>3
  <2> QED
    BY <2>1, SameLineStands DEF HasLine, TypeOK
<1> QED
  BY <1>1, <1>2, <1>3

LinesStand == \A c \in Batches, p \in Payees :
  HasLine(c, p) => LineStands(line[c][p], line'[c][p])

LEMMA StepsKeepLines ==
  ASSUME TypeOK, TransactionInv, FilesInv, [Next]_vars
  PROVE  LinesStand
<1>1. ASSUME UNCHANGED line PROVE LinesStand
  BY <1>1, SameLineStands DEF LinesStand, HasLine, TypeOK
<1>2. CASE QuietStep \/ ItemStep \/ OutsideStep \/ UNCHANGED vars
  BY <1>1, <1>2 DEF QuietStep, tables, ItemStep, Change, OutsideStep, vars
<1>3. ASSUME NEW a \in Admins, MarkCommit(a) PROVE LinesStand
  BY <1>1, <1>3 DEF MarkCommit
<1>4. ASSUME NEW a \in Admins, ExportCommit(a) PROVE LinesStand
  BY <1>4, ExportKeepsLines, SameLineStands DEF LinesStand, HasLine, TypeOK
<1>5. ASSUME NEW b \in Batches, NEW pendingOnly \in BOOLEAN, Cancel(b, pendingOnly)
      PROVE  LinesStand
  BY <1>5, CancelKeepsLines DEF LinesStand
<1>6. CASE ReconcileStep
  <2>1. PICK a \in Admins : ReconcileCommit(a)
    BY <1>6 DEF ReconcileStep
  <2>2. PICK b \in Batches : b = tx[a].batch
    BY <2>1 DEF ReconcileCommit, Holds, Open, TransactionInv
  <2> QED
    BY <2>1, <2>2, ReconcileKeepsLines DEF LinesStand
<1> QED
  BY <1>2, <1>3, <1>4, <1>5, <1>6, StepKinds

\* No step takes a result back, whichever report or cancellation comes late.
THEOREM ResultsAreFinal == Spec => ResultsStand
<1> DEFINE Stands == \A b \in Batches, p \in Payees : HasLine(b, p) =>
       /\ line'[b][p] # None
       /\ line[b][p].st \in {"PAID", "CANCELLED"} => line'[b][p] = line[b][p]
       /\ line[b][p].st = "FAILED" => line'[b][p].st \in {"FAILED", "PAID"}
<1>1. TypeOK /\ TransactionInv /\ FilesInv /\ [Next]_vars => FilesInv'
  BY StepsKeepFiles
<1>2. TypeOK /\ TransactionInv /\ FilesInv /\ [Next]_vars => [Stands]_vars
  <2> SUFFICES ASSUME TypeOK, TransactionInv, FilesInv, [Next]_vars PROVE Stands
    OBVIOUS
  <2>1. LinesStand
    BY StepsKeepLines
  <2> QED
    BY <2>1, NoneIsNoRow DEF LinesStand, LineStands
<1> QED
  BY <1>1, <1>2, InitFiles, TypesAreKept, PTL DEF Spec, ResultsStand

-----------------------------------------------------------------------------
(* Receipts and the lines they settle.                                     *)

\* The portal executes only what a file says.
ExecutedLines == \A c \in PortalCodes : portal[c] # "NO" => HasLine(c[1], c[2])

\* What nobody takes back: what the portal did and what was recorded.
RecordsStand ==
  /\ \A c \in PortalCodes : portal[c] # "NO" => portal'[c] = portal[c]
  /\ \A c \in Codes : payout[c] # None => payout'[c] = payout[c]

LEMMA StepsKeepRecords ==
  ASSUME TypeOK, TransactionInv, [Next]_vars
  PROVE  RecordsStand
<1>1. \A c \in Codes : payout[c] # None => payout'[c] = payout[c]
  <2>1. CASE RecordStep
    <3>1. PICK new \in SUBSET Codes :
            \E row \in [new -> Payout] : Disjoint(new, row) /\ Record(new, row)
      BY <2>1 DEF RecordStep
    <3>2. PICK row \in [new -> Payout] : Disjoint(new, row) /\ Record(new, row)
      BY <3>1
    <3> QED
      BY <3>2 DEF Record
  <2> QED
    BY <2>1, PayoutKinds
<1>2. \A c \in PortalCodes : portal[c] # "NO" => portal'[c] = portal[c]
  <2>1. ASSUME NEW c \in PortalCodes, NEW r, Execute(c, r)
        PROVE  \A d \in PortalCodes : portal[d] # "NO" => portal'[d] = portal[d]
    BY <2>1 DEF Execute, TypeOK
  <2>2. OutsideStep => UNCHANGED portal \/ \E c \in PortalCodes, r \in {"PAID", "FAILED"} :
                                             Execute(c, r)
    BY DEF OutsideStep, Rekey
  <2> QED
    BY <2>1, <2>2, StepKinds DEF QuietStep, ItemStep, Change, ReconcileStep,
       ReconcileCommit, MarkCommit, ExportCommit, Cancel, vars
<1> QED
  BY <1>1, <1>2 DEF RecordsStand

\* A line that is paid was paid before, or is settled by a report just now.
LEMMA PaidLinesArise ==
  ASSUME TypeOK, TransactionInv, FilesInv, [Next]_vars,
         NEW b \in Batches, NEW p \in Payees,
         line'[b][p] # None, line'[b][p].st = "PAID"
  PROVE  \/ HasLine(b, p) /\ line'[b][p] = line[b][p]
         \/ \E a \in Admins :
              /\ b = tx[a].batch
              /\ ReconcileCommit(a)
              /\ p \in Settled(a) /\ line'[b][p].code = tx[a].claim[p]
<1>1. CASE UNCHANGED line
  BY <1>1 DEF HasLine
<1>2. CASE QuietStep \/ ItemStep \/ OutsideStep \/ UNCHANGED vars
  BY <1>1, <1>2 DEF QuietStep, tables, ItemStep, Change, OutsideStep, vars
<1>3. ASSUME NEW a \in Admins, MarkCommit(a) PROVE UNCHANGED line
  BY <1>3 DEF MarkCommit
<1>4. ASSUME NEW a \in Admins, ExportCommit(a)
      PROVE  HasLine(b, p) /\ line'[b][p] = line[b][p]
  BY <1>4, ExportKeepsLines
<1>5. ASSUME NEW c \in Batches, NEW pendingOnly \in BOOLEAN, Cancel(c, pendingOnly)
      PROVE  HasLine(b, p) /\ line'[b][p] = line[b][p]
  BY <1>5, CancelKeepsLines
<1>6. CASE ReconcileStep
  <2>1. PICK a \in Admins : ReconcileCommit(a)
    BY <1>6 DEF ReconcileStep
  <2>2. PICK c \in Batches : c = tx[a].batch
    BY <2>1 DEF ReconcileCommit, Holds, Open, TransactionInv
  <2>4. HasLine(b, p) /\ (\/ line'[b][p] = line[b][p]
                          \/ b = c /\ p \in Settled(a)
                             /\ line'[b][p].code = tx[a].claim[p])
    BY <2>1, <2>2, ReconcileKeepsLines
  <2> QED
    BY <2>1, <2>2, <2>4
<1> QED
  BY <1>1, <1>2, <1>3, <1>4, <1>5, <1>6, StepKinds

-----------------------------------------------------------------------------
(* What a report has claimed.                                              *)

\* What a receipt and the line it settles have in common, as far as the rows
\* of the reports tell.
Fits(b, c, p) ==
  /\ Shown[c[2]] = Shown[p]
  /\ "MASKED" \notin Printed => Phone[c[2]] = Phone[p]
  /\ Printed \subseteq {"REFERENCE"} => c[1] = b /\ c[2] = p

Tied(b, c, p) ==
  /\ c \in Receipts /\ HasLine(b, p) /\ Fits(b, c, p)
  /\ line[c[1]][c[2]].amount = line[b][p].amount

\* A line of an open report is claimed by a receipt that fits it, and two lines
\* by the same receipt only if one of them was paid before.
ClaimsInv ==
  \A a \in Admins, b \in Batches : Open(a, "RECONCILE") /\ tx[a].batch = b =>
    /\ \A p \in Payees, c \in PortalCodes : tx[a].claim[p] = c => Tied(b, c, p)
    /\ \A p, q \in Payees, c \in PortalCodes :
         p # q /\ tx[a].claim[p] = c /\ tx[a].claim[q] = c
           => line[b][p].st = "PAID" \/ line[b][q].st = "PAID"

\* A row claims a line that it fits.
LEMMA ClaimIsTied ==
  ASSUME TypeOK, NEW a \in Admins, NEW b \in Batches, tx[a].batch = b,
         NEW r \in Row, Succeeded(r), NEW p \in ClaimedBy(a, r)
  PROVE  p \in Payees /\ Tied(b, r.code, p)
<1>1. p \in Payees /\ Claims(a, r, p) /\ p \in Candidates(a, r)
  BY DEF ClaimedBy, Claims
<1>2. r.code \in Receipts /\ r.by \in Printed
  BY DEF Succeeded, Receipts, Row
<1>3. line[r.code[1]][r.code[2]].amount = line[b][p].amount
  BY <1>1 DEF Claims, RowAmount
<1>4. CASE r.by = "REFERENCE"
  <2>1. HasLine(b, p) /\ r.code[1] = b /\ r.code[2] = p
    BY <1>1, <1>4 DEF Candidates
  <2> QED
    BY <1>1, <1>2, <1>3, <2>1 DEF Tied, Fits
<1>5. CASE r.by # "REFERENCE"
  <2>1. HasLine(b, p) /\ PhoneFits(r, p)
    BY <1>1, <1>5 DEF Candidates, Fitting
  <2>2. /\ Shown[r.code[2]] = Shown[p]
        /\ r.by = "NUMBER" => Phone[r.code[2]] = Phone[p]
    BY <2>1 DEF PhoneFits
  <2>3. r.by \in {"NUMBER", "MASKED"}
    BY <1>2, <1>5, PayoutsAssumption
  <2>4. Fits(b, r.code, p)
    BY <1>2, <1>5, <2>2, <2>3 DEF Fits
  <2> QED
    BY <1>1, <1>2, <1>3, <2>1, <2>4 DEF Tied
<1> QED
  BY <1>4, <1>5

\* Claims are made row by row, and forgotten with the transaction.
LEMMA ClaimsArise ==
  ASSUME TypeOK, TransactionInv, [Next]_vars, NEW a \in Admins,
         Open(a, "RECONCILE")'
  PROVE  \/ /\ Open(a, "RECONCILE") /\ tx'[a].batch = tx[a].batch
            /\ tx'[a].claim = tx[a].claim
         \/ \A p \in Payees : tx'[a].claim[p] = None
         \/ \E r \in Row : ReconcileRow(a, r)
<1> DEFINE Same == /\ Open(a, "RECONCILE") /\ tx'[a].batch = tx[a].batch
                   /\ tx'[a].claim = tx[a].claim
<1>1. ASSUME tx'[a] = tx[a] PROVE Same
  BY <1>1 DEF Open
<1>2. CASE ItemStep \/ OutsideStep \/ UNCHANGED vars
  BY <1>1, <1>2 DEF ItemStep, Change, OutsideStep, vars
<1>3. ASSUME NEW b \in Batches, NEW pendingOnly, Cancel(b, pendingOnly) PROVE Same
  BY <1>1, <1>3 DEF Cancel
<1>4. ASSUME NEW o \in Admins, Commit(o) PROVE Same
  <2>1. o # a
    BY <1>4 DEF Commit, Open, TypeOK
  <2> QED
    BY <1>1, <1>4, <2>1 DEF Commit, TypeOK
<1>5. ASSUME NEW o \in Admins, NEW t, Begin(o, t),
             o = a => t.op # "RECONCILE" \/ \A p \in Payees : t.claim[p] = None
      PROVE  Same \/ \A p \in Payees : tx'[a].claim[p] = None
  <2>1. CASE o # a
    BY <1>1, <1>5, <2>1 DEF Begin, TypeOK
  <2>2. CASE o = a
    <3>1. tx'[a] = t
      BY <1>5, <2>2 DEF Begin, TypeOK
    <3> QED
      BY <1>5, <2>2, <3>1 DEF Open
  <2> QED
    BY <2>1, <2>2
<1>6. ASSUME NEW o \in Admins, Acquire(o), tx[o] # None PROVE Same
  <2>1. CASE o # a
    BY <1>1, <1>6, <2>1 DEF Acquire, TypeOK
  <2>2. CASE o = a
    <3>1. tx[a] \in Transaction
      BY <1>6, <2>2 DEF TypeOK
    <3>2. /\ tx'[a].op = tx[a].op /\ tx'[a].batch = tx[a].batch
          /\ tx'[a].claim = tx[a].claim
      BY <1>6, <2>2, <3>1 DEF Acquire, TypeOK, Transaction
    <3> QED
      BY <1>6, <2>2, <3>2 DEF Open
  <2> QED
    BY <2>1, <2>2
<1>7. ASSUME NEW o \in Admins, NEW r \in Row, ReconcileRow(o, r)
      PROVE  Same \/ \E s \in Row : ReconcileRow(a, s)
  <2>1. PICK t \in Transaction : tx' = [tx EXCEPT ![o] = t]
    BY <1>7, RowIsMatched
  <2>2. CASE o # a
    BY <1>1, <2>1, <2>2 DEF TypeOK
  <2> QED
    BY <1>7, <2>2
<1>8. ASSUME NEW o \in Admins, NEW p \in Payees, NEW c \in HandCodes \cup Receipts,
             MarkBegin(o, p, c)
      PROVE  Same \/ \A q \in Payees : tx'[a].claim[q] = None
  <2> DEFINE t == [Blank("MARK") EXCEPT !.payee = p, !.code = c,
                                        !.lock = RowOf(Sheet, p)]
  <2>1. Begin(o, t) /\ t.op = "MARK"
    BY <1>8 DEF MarkBegin, Blank
  <2> HIDE DEF t
  <2> QED
    BY <1>5, <2>1
<1>9. ASSUME NEW o \in Admins, NEW b \in Batches, ExportBegin(o, b)
      PROVE  Same \/ \A q \in Payees : tx'[a].claim[q] = None
  <2> DEFINE t == [Blank("EXPORT") EXCEPT
                     !.batch = b, !.lock = {i \in Items : Payable(i)}]
  <2>1. Begin(o, t) /\ t.op = "EXPORT"
    BY <1>9 DEF ExportBegin, Blank
  <2> HIDE DEF t
  <2> QED
    BY <1>5, <2>1
<1>10. ASSUME NEW o \in Admins, NEW b \in Batches, NEW report \in SUBSET Row,
              ReconcileBegin(o, b, report)
       PROVE  Same \/ \A q \in Payees : tx'[a].claim[q] = None
  <2> DEFINE t == [Blank("RECONCILE") EXCEPT !.batch = b, !.report = report]
  <2>1. Begin(o, t) /\ \A q \in Payees : t.claim[q] = None
    BY <1>10 DEF ReconcileBegin, Blank
  <2> HIDE DEF t
  <2> QED
    BY <1>5, <2>1
<1>11. ASSUME NEW o \in Admins, MarkAcquire(o) \/ ExportAcquire(o) \/ ReconcileAcquire(o)
       PROVE  Same
  BY <1>6, <1>11 DEF MarkAcquire, ExportAcquire, ReconcileAcquire, Waits, Open
<1>12. ASSUME NEW o \in Admins, MarkCommit(o) \/ ExportCommit(o) \/ Abort(o)
                                \/ ReconcileCommit(o)
       PROVE  Same
  BY <1>4, <1>12 DEF MarkCommit, ExportCommit, Abort, ReconcileCommit
<1> QED
  BY <1>2, <1>3, <1>7, <1>8, <1>9, <1>10, <1>11, <1>12, StepKinds
     DEF QuietStep, ReconcileStep

\* What fits stays so: the line stays, and what the portal did.
LEMMA TiedStaysTied ==
  ASSUME TypeOK, TransactionInv, FilesInv, ExecutedLines, [Next]_vars,
         NEW b \in Batches, NEW p \in Payees, NEW c \in PortalCodes, Tied(b, c, p)
  PROVE  Tied(b, c, p)'
<1>1. LinesStand /\ RecordsStand
  BY StepsKeepLines, StepsKeepRecords
<1>2. c[1] \in Batches /\ c[2] \in Payees /\ portal[c] = "PAID"
  BY DEF PortalCodes, Tied, Receipts
<1>3. HasLine(c[1], c[2])
  BY <1>2 DEF ExecutedLines
<1>4. /\ line'[b][p] # None /\ line'[b][p].amount = line[b][p].amount
      /\ line'[c[1]][c[2]].amount = line[c[1]][c[2]].amount
  BY <1>1, <1>2, <1>3, NoneIsNoRow DEF LinesStand, LineStands, Tied
<1>5. portal'[c] = "PAID"
  BY <1>1, <1>2 DEF RecordsStand
<1> QED
  BY <1>4, <1>5 DEF Tied, Receipts, HasLine, Fits

LEMMA RowKeepsClaims ==
  ASSUME TypeOK, TransactionInv, ClaimsInv,
         NEW a \in Admins, NEW b \in Batches, tx[a].batch = b,
         NEW r \in Row, ReconcileRow(a, r)
  PROVE  /\ \A p \in Payees, c \in PortalCodes : tx'[a].claim[p] = c => Tied(b, c, p)
         /\ \A p, q \in Payees, c \in PortalCodes :
              p # q /\ tx'[a].claim[p] = c /\ tx'[a].claim[q] = c
                => line[b][p].st = "PAID" \/ line[b][q].st = "PAID"
<1>1. Open(a, "RECONCILE")
  BY DEF ReconcileRow, Waits
<1>2. PICK t \in Transaction :
        /\ tx' = [tx EXCEPT ![a] = t]
        /\ t.claim = [p \in Payees |-> IF Succeeded(r) /\ p \in ClaimedBy(a, r)
                                      THEN r.code ELSE tx[a].claim[p]]
  BY RowIsMatched
<1>3. \A p \in Payees : tx'[a].claim[p] = IF Succeeded(r) /\ p \in ClaimedBy(a, r)
                                          THEN r.code ELSE tx[a].claim[p]
  BY <1>2 DEF TypeOK
<1>4. \A p \in Payees, c \in PortalCodes : tx[a].claim[p] = c => Tied(b, c, p)
  BY <1>1 DEF ClaimsInv
<1>5. ASSUME NEW p \in Payees, NEW c \in PortalCodes, tx'[a].claim[p] = c
      PROVE  Tied(b, c, p)
  BY <1>3, <1>4, <1>5, ClaimIsTied
<1>6. ASSUME NEW p \in Payees, NEW q \in Payees, p # q,
             Succeeded(r), p \in ClaimedBy(a, r), tx[a].claim[q] = r.code
      PROVE  line[b][p].st = "PAID" \/ line[b][q].st = "PAID"
  <2>1. Claims(a, r, p)
    BY <1>6 DEF ClaimedBy
  <2>2. r.code \in PortalCodes
    BY DEF Row
  <2>3. HasLine(b, q)
    BY <1>4, <1>6, <2>2 DEF Tied
  <2>4. line[b][p].st = "PAID" \/ Fresh(a, r, p)
    BY <1>6, <2>1 DEF Claims
  <2> QED
    BY <1>6, <2>3, <2>4 DEF Fresh
<1>7. ASSUME NEW p \in Payees, NEW q \in Payees, p \in ClaimedBy(a, r),
             q \in ClaimedBy(a, r)
      PROVE  p = q
  BY <1>7 DEF ClaimedBy, Claims
<1>8. ASSUME NEW p \in Payees, NEW q \in Payees, NEW c \in PortalCodes, p # q,
             tx'[a].claim[p] = c, tx'[a].claim[q] = c
      PROVE  line[b][p].st = "PAID" \/ line[b][q].st = "PAID"
  <2>1. CASE Succeeded(r) /\ p \in ClaimedBy(a, r)
    BY <1>3, <1>6, <1>7, <1>8, <2>1
  <2>2. CASE Succeeded(r) /\ q \in ClaimedBy(a, r)
    BY <1>3, <1>6, <1>7, <1>8, <2>2
  <2>3. CASE ~(Succeeded(r) /\ (p \in ClaimedBy(a, r) \/ q \in ClaimedBy(a, r)))
    <3>1. tx[a].claim[p] = c /\ tx[a].claim[q] = c
      BY <1>3, <1>8, <2>3
    <3> QED
      BY <1>1, <1>8, <3>1 DEF ClaimsInv
  <2> QED
    BY <2>1, <2>2, <2>3
<1> QED
  BY <1>5, <1>8

LEMMA StepsKeepClaims ==
  ASSUME TypeOK, TransactionInv, FilesInv, ExecutedLines, ClaimsInv, [Next]_vars
  PROVE  ClaimsInv'
<1> SUFFICES ASSUME NEW a \in Admins, NEW b \in Batches, Open(a, "RECONCILE")',
                    tx'[a].batch = b
             PROVE  /\ \A p \in Payees, c \in PortalCodes :
                         tx'[a].claim[p] = c => Tied(b, c, p)'
                    /\ \A p, q \in Payees, c \in PortalCodes :
                         p # q /\ tx'[a].claim[p] = c /\ tx'[a].claim[q] = c
                           => line'[b][p].st = "PAID" \/ line'[b][q].st = "PAID"
  BY DEF ClaimsInv
<1>1. LinesStand
  BY StepsKeepLines
<1>2. SUFFICES
        /\ \A p \in Payees, c \in PortalCodes : tx'[a].claim[p] = c => Tied(b, c, p)
        /\ \A p, q \in Payees, c \in PortalCodes :
             p # q /\ tx'[a].claim[p] = c /\ tx'[a].claim[q] = c
               => line[b][p].st = "PAID" \/ line[b][q].st = "PAID"
  <2>1. ASSUME NEW p \in Payees, HasLine(b, p), line[b][p].st = "PAID"
        PROVE  line'[b][p].st = "PAID"
    BY <1>1, <2>1 DEF LinesStand, LineStands
  <2>2. \A p \in Payees, c \in PortalCodes : Tied(b, c, p) => HasLine(b, p)
    BY DEF Tied
  <2>3. \A p \in Payees, c \in PortalCodes : Tied(b, c, p) => Tied(b, c, p)'
    BY TiedStaysTied
  <2> QED
    BY <1>2, <2>1, <2>2, <2>3
<1>3. CASE Open(a, "RECONCILE") /\ tx'[a].batch = tx[a].batch
           /\ tx'[a].claim = tx[a].claim
  BY <1>3 DEF ClaimsInv
<1>4. CASE \A p \in Payees : tx'[a].claim[p] = None
  BY <1>4, PayoutsAssumption DEF Codes
<1>5. ASSUME NEW r \in Row, ReconcileRow(a, r)
      PROVE  /\ \A p \in Payees, c \in PortalCodes :
                   tx'[a].claim[p] = c => Tied(b, c, p)
             /\ \A p, q \in Payees, c \in PortalCodes :
                  p # q /\ tx'[a].claim[p] = c /\ tx'[a].claim[q] = c
                    => line[b][p].st = "PAID" \/ line[b][q].st = "PAID"
  <2>1. PICK t \in Transaction :
          t.batch = tx[a].batch /\ tx' = [tx EXCEPT ![a] = t]
    BY <1>5, RowIsMatched
  <2>2. tx[a].batch = b
    BY <2>1 DEF TypeOK
  <2> QED
    BY <1>5, <2>2, RowKeepsClaims
<1> QED
  BY <1>3, <1>4, <1>5, ClaimsArise

\* A report pays no two payees with one receipt.
LEMMA OneLineEach ==
  ASSUME TypeOK, TransactionInv, ClaimsInv, NEW a \in Admins, ReconcileCommit(a),
         NEW p \in Settled(a), NEW q \in Settled(a),
         tx[a].claim[p] = tx[a].claim[q]
  PROVE  p = q
<1>1. Open(a, "RECONCILE") /\ tx[a].batch \in Batches
  BY DEF ReconcileCommit, Holds, Open, TransactionInv
<1>2. /\ p \in Payees /\ q \in Payees /\ tx[a].claim[p] \in PortalCodes
      /\ line[tx[a].batch][p].st # "PAID" /\ line[tx[a].batch][q].st # "PAID"
  BY SettledAreClaimed
<1> QED
  BY <1>1, <1>2 DEF ClaimsInv

\* The payout a report records for a line is that line's.
LEMMA SettledPayout ==
  ASSUME TypeOK, TransactionInv, ClaimsInv, NEW a \in Admins, ReconcileCommit(a),
         NEW p \in Settled(a), NEW c \in Codes, c = tx[a].claim[p]
  PROVE  /\ payout'[c] # None
         /\ payout'[c].batch = tx[a].batch /\ payout'[c].payee = p
         /\ payout'[c].amount = line[tx[a].batch][p].amount
<1> DEFINE row == [d \in PaidCodes(a) |-> PaidByReport(a, d)]
<1>1. Record(PaidCodes(a), row)
  BY ReconcileRecords
<1>2. c \in PaidCodes(a)
  BY DEF PaidCodes
<1>3. PICK q \in Settled(a) :
        /\ tx[a].claim[q] = c
        /\ PaidByReport(a, c) =
             [payee |-> q, amount |-> line[tx[a].batch][q].amount,
              items |-> Kept(a, q), by |-> a, batch |-> tx[a].batch]
        /\ PaidByReport(a, c) \in Payout
  BY <1>2, ReportPaysSomebody
<1>4. q = p
  BY <1>3, OneLineEach
<1>5. row[c] = PaidByReport(a, c)
  BY <1>2
<1> HIDE DEF row
<1>6. payout'[c] = PaidByReport(a, c)
  BY <1>1, <1>2, <1>5 DEF Record
<1> QED
  BY <1>3, <1>4, <1>6, NoneIsNoRow

-----------------------------------------------------------------------------
(* Paid lines.                                                             *)

ReceiptInv == ExecutedLines /\ ClaimsInv /\ PaidLineHasItsReceipt

LEMMA StepsKeepReceipts ==
  ASSUME TypeOK, TransactionInv, FilesInv, ReceiptInv, [Next]_vars
  PROVE  ReceiptInv'
<1>1. LinesStand /\ RecordsStand /\ TypeOK'
  BY StepsKeepLines, StepsKeepRecords, StepsKeepTypes
<1>2. ASSUME NEW b \in Batches, NEW p \in Payees, HasLine(b, p)
      PROVE  HasLine(b, p)' /\ line'[b][p].amount = line[b][p].amount
  BY <1>1, <1>2, NoneIsNoRow DEF LinesStand, LineStands, HasLine
<1>3. ExecutedLines'
  <2>1. ASSUME NEW c \in PortalCodes, portal'[c] # "NO"
        PROVE  HasLine(c[1], c[2])
    <3>1. CASE portal[c] # "NO"
      BY <3>1 DEF ReceiptInv, ExecutedLines
    <3>2. CASE portal[c] = "NO"
      <4>1. ASSUME NEW d \in PortalCodes, NEW r, Execute(d, r)
            PROVE  HasLine(c[1], c[2])
        BY <2>1, <3>2, <4>1 DEF Execute, TypeOK
      <4>2. OutsideStep => UNCHANGED portal \/ \E d \in PortalCodes, r \in {"PAID", "FAILED"} :
                                                 Execute(d, r)
        BY DEF OutsideStep, Rekey
      <4> QED
        BY <2>1, <3>2, <4>1, <4>2, StepKinds DEF QuietStep, ItemStep, Change,
           ReconcileStep, ReconcileCommit, MarkCommit, ExportCommit, Cancel, vars
    <3> QED
      BY <3>1, <3>2
  <2>2. \A c \in PortalCodes : c[1] \in Batches /\ c[2] \in Payees
    BY DEF PortalCodes
  <2> QED
    BY <1>2, <2>1, <2>2 DEF ExecutedLines
<1>4. ClaimsInv'
  BY StepsKeepClaims DEF ReceiptInv
<1>5. ASSUME NEW b \in Batches, NEW p \in Payees, HasLine(b, p)',
             line'[b][p].st = "PAID"
      PROVE  \E c \in PortalCodes :
               /\ c = line'[b][p].code /\ Tied(b, c, p)'
               /\ payout'[c] # None /\ payout'[c].batch = b /\ payout'[c].payee = p
               /\ payout'[c].amount = line'[b][p].amount
  <2>1. CASE HasLine(b, p) /\ line'[b][p] = line[b][p]
    <3>1. PICK c \in PortalCodes : c = line[b][p].code
      BY <1>5, <2>1 DEF ReceiptInv, PaidLineHasItsReceipt, Receipts
    <3>2. /\ Tied(b, c, p)
          /\ payout[c] # None /\ payout[c].batch = b /\ payout[c].payee = p
          /\ payout[c].amount = line[b][p].amount
      BY <1>5, <2>1, <3>1 DEF ReceiptInv, PaidLineHasItsReceipt, RowAmount, Tied, Fits
    <3>3. Tied(b, c, p)'
      BY <3>2, TiedStaysTied DEF ReceiptInv
    <3>4. payout'[c] = payout[c]
      BY <1>1, <3>2 DEF RecordsStand, Codes
    <3> QED
      BY <2>1, <3>1, <3>2, <3>3, <3>4
  <2>2. ASSUME NEW a \in Admins, b = tx[a].batch, ReconcileCommit(a),
               p \in Settled(a), line'[b][p].code = tx[a].claim[p]
        PROVE  \E c \in PortalCodes :
                 /\ c = line'[b][p].code /\ Tied(b, c, p)'
                 /\ payout'[c] # None /\ payout'[c].batch = b /\ payout'[c].payee = p
                 /\ payout'[c].amount = line'[b][p].amount
    <3>1. PICK c \in PortalCodes : c = tx[a].claim[p]
      BY <2>2, SettledAreClaimed
    <3>2. Open(a, "RECONCILE") /\ HasLine(b, p)
      BY <2>2, SettledAreClaimed DEF ReconcileCommit, Holds
    <3>3. Tied(b, c, p)
      BY <2>2, <3>1, <3>2 DEF ReceiptInv, ClaimsInv
    <3>4. Tied(b, c, p)'
      BY <3>3, TiedStaysTied DEF ReceiptInv
    <3>5. /\ payout'[c] # None /\ payout'[c].batch = b /\ payout'[c].payee = p
          /\ payout'[c].amount = line[b][p].amount
      BY <2>2, <3>1, SettledPayout DEF ReceiptInv, Codes
    <3>6. line'[b][p].amount = line[b][p].amount
      BY <1>2, <3>2
    <3> QED
      BY <2>2, <3>1, <3>4, <3>5, <3>6
  <2> QED
    BY <1>5, <2>1, <2>2, PaidLinesArise DEF HasLine
<1>6. PaidLineHasItsReceipt'
  <2>1. ASSUME NEW b \in Batches, NEW p \in Payees, HasLine(b, p)',
               line'[b][p].st = "PAID"
        PROVE  LET c == line'[b][p].code IN
                 /\ c \in PortalCodes /\ portal'[c] = "PAID" /\ Fits(b, c, p)
                 /\ line'[c[1]][c[2]].amount = line'[b][p].amount
                 /\ payout'[c] # None /\ payout'[c].batch = b
                 /\ payout'[c].payee = p
                 /\ payout'[c].amount = line'[b][p].amount
    <3>1. PICK c \in PortalCodes :
            /\ c = line'[b][p].code /\ Tied(b, c, p)'
            /\ payout'[c] # None /\ payout'[c].batch = b /\ payout'[c].payee = p
            /\ payout'[c].amount = line'[b][p].amount
      BY <1>5, <2>1
    <3>2. /\ portal'[c] = "PAID" /\ Fits(b, c, p)
          /\ line'[c[1]][c[2]].amount = line'[b][p].amount
      BY <3>1 DEF Tied, Receipts, Fits
    <3> QED
      BY <3>1, <3>2
  <2> QED
    BY <2>1 DEF PaidLineHasItsReceipt, Fits, Receipts, RowAmount, HasLine
<1> QED
  BY <1>3, <1>4, <1>6 DEF ReceiptInv

LEMMA InitReceipts == Init => ReceiptInv
  BY DEF Init, ReceiptInv, ExecutedLines, ClaimsInv, Open, PaidLineHasItsReceipt,
         HasLine

\* A line that counts as paid was settled by a receipt that the portal gave for
\* its amount and that fits the line as far as the reports name the payee: the
\* line itself where all rows carry our references, its number where none is
\* masked, the digits shown otherwise; and the payout of that receipt is its own.
THEOREM PaidLinesWerePaid == Spec => []PaidLineHasItsReceipt
<1>1. TypeOK /\ TransactionInv /\ FilesInv /\ [Next]_vars => FilesInv'
  BY StepsKeepFiles
<1>2. TypeOK /\ TransactionInv /\ FilesInv /\ ReceiptInv /\ [Next]_vars => ReceiptInv'
  BY StepsKeepReceipts
<1>3. ReceiptInv => PaidLineHasItsReceipt
  BY DEF ReceiptInv
<1> QED
  BY <1>1, <1>2, <1>3, InitFiles, InitReceipts, TypesAreKept, PTL DEF Spec

=============================================================================
