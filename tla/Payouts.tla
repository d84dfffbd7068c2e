------------------------------ MODULE Payouts -------------------------------
(***************************************************************************)
(* The weekly payout desk, for the items of one week: finance records a    *)
(* payment by hand, or exports a bulk file for the M-Pesa portal, uploads  *)
(* the portal's report, or cancels the file; meanwhile commissions are     *)
(* confirmed, held, rejected, or paid one by one at the affiliate desk.    *)
(*                                                                         *)
(* Three handlers read the sheet, lock the items they saw, and read it     *)
(* again: they are split at the lock and at the commit, since others may   *)
(* write in between.  Postgres commits or rolls back the whole of one.     *)
(* The report is matched to the lines of its file row by row, one step     *)
(* each, since what one row claims decides where the next may go.          *)
(***************************************************************************)
EXTENDS Integers, FiniteSets, Functions

CONSTANTS
  Commissions, Fees,    \* the two kinds of items
  Amount,         \* KSh of each item
  Payees,         \* the grouping keys of the sheet
  Keys,           \* the keys each item may come under: a walk-in rider's is
                  \* made of phone and name, which can be edited
  Phone,          \* each payee's M-Pesa number
  Shown,          \* the digits of it that are left when it is masked
  NoPhone,        \* the payees whose number is not a Kenyan mobile
  Admins,         \* finance users
  Self,           \* the payees each of them is
  Batches,        \* bulk files that may be exported
  Tries,          \* how often the portal may execute a line of a file
  HandCodes,      \* receipts of money sent by hand
  Printed,        \* how the rows of the portal's reports name the payee
  MaxRows,        \* bound: rows of one report
  None,           \* the value of a column that is not set
  Alone           \* in the ledger: paid without a payout

Items == Commissions \cup Fees
PortalCodes == Batches \X Payees \X Tries
Codes == HandCodes \cup PortalCodes

\* A row of a report: an execution, and our reference or a phone number.  One
\* that shows fewer than six digits of it fits no line, and is left out; so is
\* one without a receipt or with a status that is neither success nor failure.
Row == [code : PortalCodes, by : Printed]

ASSUME PayoutsAssumption ==
  /\ IsFiniteSet(Items) /\ Commissions \cap Fees = {}
  /\ Amount \in [Items -> Nat \ {0}]
  /\ Keys \in [Items -> (SUBSET Payees) \ {{}}]
  /\ Self \in [Admins -> SUBSET Payees]
  /\ Printed \subseteq {"REFERENCE", "NUMBER", "MASKED"}
  /\ \A p, q \in Payees : Phone[p] = Phone[q] => Shown[p] = Shown[q]
  /\ MaxRows \in Nat
  /\ HandCodes \cap PortalCodes = {}
  /\ None \notin Codes \cup Payees \cup Batches \cup {Alone}
  /\ Alone \notin Codes

VARIABLES
  item,           \* Commission or OrderFulfillment, as far as its pay goes
  key,            \* the key each item comes under
  batch,          \* PayoutBatch.status
  line,           \* PayoutBatchLine, by batch and payee
  payout,         \* Payout, by its unique mpesaCode
  portal,         \* what became of each line, each time it was executed
  tx              \* the transaction each finance user has open

vars == <<item, key, batch, line, payout, portal, tx>>
tables == <<item, key, batch, line, payout>>

-----------------------------------------------------------------------------
(* The rows.                                                               *)

\* A case is an open return or refund; a freeze sets Commission.holdReason.
Item == [st : {"PENDING", "CONFIRMED", "PAID", "REJECTED"},
         hold : {"NO", "CASE", "FREEZE"}, payout : Codes \cup {None}]

SumOf(I) == SumFunctionOnSet(Amount, I)
Sums == {SumOf(I) : I \in (SUBSET Items) \ {{}}}

Line == [st : {"PENDING", "PAID", "FAILED", "CANCELLED"}, amount : Sums,
         items : SUBSET Items, code : Codes \cup {None}]

Payout == [payee : Payees, amount : Sums, items : SUBSET Items, by : Admins,
           batch : Batches \cup {None}]

Transaction ==
  [op : {"MARK", "EXPORT", "RECONCILE"}, held : BOOLEAN,
   payee : Payees \cup {None}, code : Codes \cup {None},
   batch : Batches \cup {None}, report : SUBSET Row,
   claim : [Payees -> PortalCodes \cup {None}], failed : SUBSET Payees,
   lock : SUBSET Items, sheet : SUBSET (Items \X Payees),
   exported : SUBSET Payees]

ASSUME NoneIsNoRow == None \notin Line \cup Payout \cup Transaction

Blank(op) == [op |-> op, held |-> FALSE, payee |-> None, code |-> None,
              batch |-> None, report |-> {}, claim |-> [p \in Payees |-> None],
              failed |-> {}, lock |-> {}, sheet |-> {}, exported |-> {}]

-----------------------------------------------------------------------------
(* What the handlers read.                                                 *)

Payable(i) == item[i].st = "CONFIRMED" /\ item[i].hold = "NO"

RecordableAgain(I) ==                        \* fault: paid or not
  \A i \in I : item[i].hold # "FREEZE"
\* The where-clause of the update does not know of cases, only of freezes.
Recordable(I) ==
  \A i \in I : item[i].st = "CONFIRMED" /\ item[i].hold # "FREEZE"

Sheet == {<<i, key[i]>> : i \in {j \in Items : Payable(j)}}
RowOf(sheet, p) == {i \in Items : <<i, p>> \in sheet}

HasLine(b, p) == line[b][p] # None
Pending(b, p) == HasLine(b, p) /\ line[b][p].st = "PENDING"
Exported == {p \in Payees :
               \E b \in Batches : batch[b] = "OPEN" /\ Pending(b, p)}

Open(a, op) == tx[a] # None /\ tx[a].op = op
Waits(a, op) == Open(a, op) /\ ~tx[a].held
Holds(a, op) == Open(a, op) /\ tx[a].held

Locked(i) == \E a \in Admins : tx[a] # None /\ tx[a].held /\ i \in tx[a].lock
LocksFree(a) == \A i \in tx[a].lock : ~Locked(i)
BatchLocked(b) == \E a \in Admins : Open(a, "RECONCILE") /\ tx[a].batch = b
AnyExport == TRUE                            \* fault: no advisory lock
OneExport == \A a \in Admins : ~Open(a, "EXPORT")

Executed == {c \in PortalCodes : portal[c] # "NO"}
Receipts == {c \in PortalCodes : portal[c] = "PAID"}

-----------------------------------------------------------------------------
(* matchResults, for the report that the transaction of a is at.           *)

Succeeded(r) == portal[r.code] = "PAID"
RowAmount(c) == line[c[1]][c[2]].amount

PhoneFitsAnyone(r, p) == TRUE            \* fault: the digits are not compared
\* phoneMatches: a masked digit fits any.
PhoneFits(r, p) ==
  /\ Shown[p] = Shown[r.code[2]]
  /\ r.by = "NUMBER" => Phone[p] = Phone[r.code[2]]

Fitting(a, r) ==
  {p \in Payees : /\ HasLine(tx[a].batch, p) /\ PhoneFits(r, p)
                  /\ line[tx[a].batch][p].amount = RowAmount(r.code)}

\* The line was claimed by an earlier row: paid, or failed without a receipt.
Claimed(a, p) == tx[a].claim[p] # None \/ p \in tx[a].failed
SameReceipt(a, r, p) ==
  IF Succeeded(r) THEN tx[a].claim[p] = r.code ELSE tx[a].claim[p] = None
OpenTo(a, r) == {p \in Payees : Claimed(a, p) => SameReceipt(a, r, p)}

\* By our reference, if the row carries it; or else by phone and amount, first
\* among the lines that no other row has claimed.
Candidates(a, r) ==
  IF r.by = "REFERENCE"
  THEN {p \in Payees : /\ r.code[1] = tx[a].batch /\ r.code[2] = p
                       /\ HasLine(tx[a].batch, p)}
  ELSE IF Fitting(a, r) \cap OpenTo(a, r) # {}
       THEN Fitting(a, r) \cap OpenTo(a, r) ELSE Fitting(a, r)

\* No other line of the file is paid, or about to be, by this receipt.
Fresh(a, r, p) ==
  \A q \in Payees \ {p} : HasLine(tx[a].batch, q) =>
    /\ line[tx[a].batch][q].code # r.code
    /\ tx[a].claim[q] = r.code => line[tx[a].batch][q].st = "PAID"

\* The row is tied to one line, and says something new about it.
Claims(a, r, p) ==
  /\ Candidates(a, r) = {p} /\ ~Claimed(a, p)
  /\ LET l == line[tx[a].batch][p] IN
       IF Succeeded(r)
       THEN /\ l.amount = RowAmount(r.code)
            /\ \/ l.st = "PAID"
               \/ l.st \in {"PENDING", "FAILED"} /\ Fresh(a, r, p)
       ELSE l.st \in {"PENDING", "FAILED"}
ClaimedBy(a, r) == {p \in Payees : Claims(a, r, p)}

\* Fault: lines that were paid before as well.
ToPayAgain(a) == {p \in Payees : tx[a].claim[p] # None}
ToPay(a) ==
  {p \in Payees : /\ tx[a].claim[p] # None /\ HasLine(tx[a].batch, p)
                  /\ line[tx[a].batch][p].st \in {"PENDING", "FAILED"}}
ToFail(a) == {p \in tx[a].failed : Pending(tx[a].batch, p)}

-----------------------------------------------------------------------------
Init ==
  /\ item = [i \in Items |-> [st |-> "PENDING", hold |-> "NO", payout |-> None]]
  /\ key \in [Items -> Payees] /\ \A i \in Items : key[i] \in Keys[i]
  /\ batch = [b \in Batches |-> "NONE"]
  /\ line = [b \in Batches |-> [p \in Payees |-> None]]
  /\ payout = [c \in Codes |-> None]
  /\ portal = [c \in PortalCodes |-> "NO"]
  /\ tx = [a \in Admins |-> None]

-----------------------------------------------------------------------------
(* The steps of a transaction.                                             *)

Begin(a, t) ==
  /\ tx[a] = None
  /\ tx' = [tx EXCEPT ![a] = t]
  /\ UNCHANGED <<tables, portal>>

\* The row locks are granted and the sheet is read a second time.
Acquire(a) ==
  /\ LocksFree(a)
  /\ tx' = [tx EXCEPT ![a].held = TRUE, ![a].sheet = Sheet,
                      ![a].exported = Exported]
  /\ UNCHANGED <<tables, portal>>

Commit(a) == tx' = [tx EXCEPT ![a] = None]

\* A check that fails, a deadlock, a timeout or a crash: nothing is kept.
Abort(a) ==
  /\ tx[a] # None
  /\ Commit(a)
  /\ UNCHANGED <<tables, portal>>

-----------------------------------------------------------------------------
(* recordPayout: the payouts of some receipts, each for items of its own.  *)

Record(new, row) ==
  /\ \A c \in new : payout[c] = None /\ Recordable(row[c].items)
  /\ payout' = [c \in Codes |-> IF c \in new THEN row[c] ELSE payout[c]]
  /\ item' = [i \in Items |->
                IF \E c \in new : i \in row[c].items
                THEN [item[i] EXCEPT
                        !.st = "PAID",
                        !.payout = CHOOSE c \in new : i \in row[c].items]
                ELSE item[i]]

-----------------------------------------------------------------------------
(* markPaid.                                                               *)

MarkBegin(a, p, c) ==
  /\ payout[c] = None
  /\ RowOf(Sheet, p) # {}
  /\ Begin(a, [Blank("MARK") EXCEPT !.payee = p, !.code = c,
                                    !.lock = RowOf(Sheet, p)])

MarkAcquire(a) ==
  /\ Waits(a, "MARK")
  /\ LET p == tx[a].payee
         row == RowOf(Sheet, p) IN
       /\ row # {}
       /\ Cardinality(row) = Cardinality(tx[a].lock)
       /\ SumOf(row) = SumOf(tx[a].lock)
       /\ p \notin Self[a]
       /\ p \notin Exported
  /\ Acquire(a)

MarkCommit(a) ==
  /\ Holds(a, "MARK")
  /\ LET p == tx[a].payee
         row == RowOf(tx[a].sheet, p) IN
       Record({tx[a].code},
              [c \in {tx[a].code} |->
                 [payee |-> p, amount |-> SumOf(row), items |-> row,
                  by |-> a, batch |-> None]])
  /\ Commit(a)
  /\ UNCHANGED <<key, batch, line, portal>>

-----------------------------------------------------------------------------
(* exportBatch.                                                            *)

ExportBegin(a, b) ==
  /\ OneExport
  /\ batch[b] = "NONE"
  /\ Begin(a, [Blank("EXPORT") EXCEPT
                 !.batch = b, !.lock = {i \in Items : Payable(i)}])

ExportAcquire(a) == Waits(a, "EXPORT") /\ Acquire(a)

\* planBulkExport.
InFile(a, p) ==
  /\ RowOf(tx[a].sheet, p) # {}
  /\ p \notin tx[a].exported \cup Self[a] \cup NoPhone

ExportCommit(a) ==
  /\ Holds(a, "EXPORT")
  /\ \E p \in Payees : InFile(a, p)
  /\ batch' = [batch EXCEPT ![tx[a].batch] = "OPEN"]
  /\ line' = [line EXCEPT ![tx[a].batch] = [p \in Payees |->
       IF InFile(a, p)
       THEN LET row == RowOf(tx[a].sheet, p) IN
              [st |-> "PENDING", amount |-> SumOf(row), items |-> row,
               code |-> None]
       ELSE None]]
  /\ Commit(a)
  /\ UNCHANGED <<item, key, payout, portal>>

-----------------------------------------------------------------------------
(* cancelBatch.                                                            *)

Cancel(b, pendingOnly) ==
  LET settled == \E p \in Payees : HasLine(b, p) /\ ~Pending(b, p) IN
  /\ batch[b] = "OPEN" /\ ~BatchLocked(b)
  /\ settled => pendingOnly
  /\ line' = [line EXCEPT ![b] = [p \in Payees |->
       IF Pending(b, p) THEN [line[b][p] EXCEPT !.st = "CANCELLED"]
       ELSE line[b][p]]]
  /\ batch' = [batch EXCEPT ![b] = IF settled THEN "RECONCILED" ELSE "CANCELLED"]
  /\ UNCHANGED <<item, key, payout, portal, tx>>

-----------------------------------------------------------------------------
(* reconcile.                                                              *)

ReconcileBegin(a, b, report) ==
  /\ report # {} /\ \A r \in report : r.code \in Executed
  /\ batch[b] \in {"OPEN", "RECONCILED"} /\ ~BatchLocked(b)
  /\ Begin(a, [Blank("RECONCILE") EXCEPT !.batch = b, !.report = report])

\* The next row: the successes first, and each group in the order of the file.
\* The items of a line about to be paid are to be locked.
ReconcileRow(a, r) ==
  LET new == ClaimedBy(a, r) IN
  /\ Waits(a, "RECONCILE") /\ r \in tx[a].report
  /\ Succeeded(r) \/ \A s \in tx[a].report : ~Succeeded(s)
  /\ tx' = IF Succeeded(r)
           THEN [tx EXCEPT
                   ![a].report = @ \ {r},
                   ![a].claim = [p \in Payees |-> IF p \in new THEN r.code
                                                  ELSE tx[a].claim[p]],
                   ![a].lock = @ \cup UNION {line[tx[a].batch][p].items :
                     p \in {q \in new : line[tx[a].batch][q].st # "PAID"}}]
           ELSE [tx EXCEPT ![a].report = @ \ {r}, ![a].failed = @ \cup new]
  /\ UNCHANGED <<tables, portal>>

ReconcileAcquire(a) ==
  /\ Waits(a, "RECONCILE") /\ tx[a].report = {}
  /\ Acquire(a)

\* The guard against paying oneself needs the payee to be on the sheet.
PaysSelf(a, p) == p \in Self[a] /\ RowOf(tx[a].sheet, p) # {}

\* The exported items that are still to be paid; the rest is dropped.
Kept(a, p) == line[tx[a].batch][p].items \cap RowOf(tx[a].sheet, p)

Settled(a) ==
  {p \in ToPay(a) : payout[tx[a].claim[p]] = None /\ ~PaysSelf(a, p)}

\* The lines after a report that pays some payees and fails others.
Settle(a) == [p \in Payees |->
  LET l == line[tx[a].batch][p] IN
  IF p \in Settled(a) THEN [l EXCEPT !.st = "PAID", !.code = tx[a].claim[p]]
  ELSE IF p \in ToFail(a) THEN [l EXCEPT !.st = "FAILED"]
  ELSE l]

Closing(b, lines) ==
  IF batch[b] = "OPEN" /\ \A p \in Payees : lines[p] # None =>
                                              lines[p].st # "PENDING"
  THEN "RECONCILED" ELSE batch[b]

\* The payout of p's line, under the receipt that the line was claimed by.
PaidByReport(a, c) ==
  LET p == CHOOSE q \in Settled(a) : tx[a].claim[q] = c IN
    [payee |-> p, amount |-> line[tx[a].batch][p].amount, items |-> Kept(a, p),
     by |-> a, batch |-> tx[a].batch]

ReconcileCommit(a) ==
  LET b == tx[a].batch
      new == {tx[a].claim[p] : p \in Settled(a)} IN
  /\ Holds(a, "RECONCILE")
  /\ Record(new, [c \in new |-> PaidByReport(a, c)])
  /\ line' = [line EXCEPT ![b] = Settle(a)]
  /\ batch' = [batch EXCEPT ![b] = Closing(b, Settle(a))]
  /\ Commit(a)
  /\ UNCHANGED <<key, portal>>

-----------------------------------------------------------------------------
(* The portal, which is not ours: it executes the lines of a file that was *)
(* downloaded, cancelled since or not, and a line more than once if the    *)
(* file is sent again.                                                     *)

Execute(c, result) ==
  /\ HasLine(c[1], c[2])
  /\ portal[c] = "NO"
  /\ \A t \in Tries : t < c[3] => portal[<<c[1], c[2], t>>] # "NO"
  /\ portal' = [portal EXCEPT ![c] = result]
  /\ UNCHANGED <<tables, tx>>

-----------------------------------------------------------------------------
(* The rest of the back office, under the lock of the order.               *)

Change(i, row) ==
  /\ ~Locked(i)
  /\ item' = [item EXCEPT ![i] = row]
  /\ UNCHANGED <<key, batch, line, payout, portal, tx>>

\* A commission is confirmed, or a delivery is completed.
Earn(i) ==
  /\ item[i].st = "PENDING"
  /\ Change(i, [item[i] EXCEPT !.st = "CONFIRMED"])

Reject(i) ==
  /\ i \in Commissions /\ item[i].st \in {"PENDING", "CONFIRMED"}
  /\ Change(i, [item[i] EXCEPT !.st = "REJECTED", !.hold = "FREEZE"])

\* RECORD_PAYMENT at the affiliate desk: no payout, no look at the bulk files.
PayAlone(i) ==
  /\ i \in Commissions /\ Payable(i)
  /\ Change(i, [item[i] EXCEPT !.st = "PAID"])

OpenCase(i) ==
  /\ i \in Commissions /\ Payable(i)
  /\ Change(i, [item[i] EXCEPT !.hold = "CASE"])

CloseCase(i) ==
  /\ item[i].hold = "CASE"
  /\ Change(i, [item[i] EXCEPT !.hold = "NO"])

Freeze(i) ==
  /\ i \in Commissions /\ item[i].st = "CONFIRMED"
  /\ Change(i, [item[i] EXCEPT !.hold = "FREEZE"])

\* A walk-in rider's name, phone or login is edited: the fee changes its key.
Rekey(i, p) ==
  /\ i \in Fees /\ p \in Keys[i]
  /\ key' = [key EXCEPT ![i] = p]
  /\ UNCHANGED <<item, batch, line, payout, portal, tx>>

-----------------------------------------------------------------------------
Reports == {report \in SUBSET [code : Executed, by : Printed] :
              Cardinality(report) <= MaxRows}

FinanceNext(a) ==
  \/ \E p \in Payees, c \in HandCodes \cup Receipts : MarkBegin(a, p, c)
  \/ MarkAcquire(a) \/ MarkCommit(a)
  \/ \E b \in Batches : ExportBegin(a, b)
  \/ ExportAcquire(a) \/ ExportCommit(a)
  \/ \E b \in Batches, report \in Reports : ReconcileBegin(a, b, report)
  \/ \E r \in Row : ReconcileRow(a, r)
  \/ ReconcileAcquire(a) \/ ReconcileCommit(a)
  \/ Abort(a)

ItemNext(i) ==
  \/ Earn(i) \/ Reject(i) \/ PayAlone(i)
  \/ OpenCase(i) \/ CloseCase(i) \/ Freeze(i)
  \/ \E p \in Payees : Rekey(i, p)

Next ==
  \/ \E a \in Admins : FinanceNext(a)
  \/ \E b \in Batches, pendingOnly \in BOOLEAN : Cancel(b, pendingOnly)
  \/ \E c \in PortalCodes, result \in {"PAID", "FAILED"} : Execute(c, result)
  \/ \E i \in Items : ItemNext(i)

Spec == Init /\ [][Next]_vars

-----------------------------------------------------------------------------
(* Properties.                                                             *)

\* Every row has its type, and an open transaction is one of the three kinds.
TypeOK ==
  /\ item \in [Items -> Item]
  /\ key \in [Items -> Payees]
  /\ batch \in [Batches -> {"NONE", "OPEN", "RECONCILED", "CANCELLED"}]
  /\ line \in [Batches -> [Payees -> Line \cup {None}]]
  /\ payout \in [Codes -> Payout \cup {None}]
  /\ portal \in [PortalCodes -> {"NO", "PAID", "FAILED"}]
  /\ tx \in [Admins -> Transaction \cup {None}]

\* Nobody waits in two bulk files at once, however many users export at the
\* same time (operations-payout-batch.service.ts:37-38).
OnePendingLine ==
  \A b, c \in Batches, p \in Payees :
    batch[b] = "OPEN" /\ batch[c] = "OPEN" /\ Pending(b, p) /\ Pending(c, p)
      => b = c

\* A file is open exactly as long as somebody in it waits for a result: no
\* payee stays locked by a file that can no longer be settled or cancelled,
\* and no file is closed over one who waits.
OpenFileWaits ==
  \A b \in Batches : batch[b] = "OPEN" <=> \E p \in Payees : Pending(b, p)

\* The items a payout lists are exactly those that point back to it: what
\* was recorded as paid under a receipt was paid by no other, whatever other
\* desks did between the export and the report.
PayoutsOwnTheirItems ==
  /\ \A c \in Codes : payout[c] # None =>
       payout[c].items = {i \in Items : item[i].payout = c}
  /\ \A i \in Items : item[i].payout # None =>
       item[i].st = "PAID" /\ payout[item[i].payout] # None

\* A line counts as paid by a receipt of its own amount that fits it as the
\* reports print the payee, and the payout under that receipt is the line's
\* own, also when reports are repeated or are those of another file: the very
\* line, if all rows carry our references; its number, if none is masked; and
\* the digits shown, whatever the rows look like (mpesa-bulk-format.ts:354-367).
PaidLineHasItsReceipt ==
  \A b \in Batches, p \in Payees :
    HasLine(b, p) /\ line[b][p].st = "PAID" =>
      LET c == line[b][p].code IN
        /\ c \in Receipts /\ RowAmount(c) = line[b][p].amount
        /\ Shown[c[2]] = Shown[p]
        /\ "MASKED" \notin Printed => Phone[c[2]] = Phone[p]
        /\ Printed \subseteq {"REFERENCE"} => c[1] = b /\ c[2] = p
        /\ payout[c] # None /\ payout[c].batch = b /\ payout[c].payee = p
        /\ payout[c].amount = line[b][p].amount

\* A result is not taken back: a paid line keeps its receipt, a cancelled one
\* stays cancelled, a failed one may only turn out to have been paid.
ResultsStand ==
  [][\A b \in Batches, p \in Payees : HasLine(b, p) =>
       /\ line'[b][p] # None
       /\ line[b][p].st \in {"PAID", "CANCELLED"} => line'[b][p] = line[b][p]
       /\ line[b][p].st = "FAILED" => line'[b][p].st \in {"FAILED", "PAID"}]_vars

\* The desk keeps the ledger's promise: no item is recorded as paid twice and
\* no receipt is recorded for two payouts.
Ledger == INSTANCE PayLedger WITH
  Items <- Items, Codes <- Codes, Unpaid <- None, Alone <- Alone,
  paid <- [i \in Items |-> IF item[i].st = "PAID" /\ item[i].payout = None
                           THEN Alone ELSE item[i].payout],
  used <- {c \in Codes : payout[c] # None}
PaysOnce == Ledger!Spec

-----------------------------------------------------------------------------
(* What the documentation says and the code does not keep.                 *)

\* mvp-rules.md:183: "the paying admin cannot record a payout to themselves."
NobodyPaysThemselves ==
  \A c \in Codes : payout[c] # None => payout[c].payee \notin Self[payout[c].by]

\* schema.prisma:1807: while a line is PENDING "that person's week is locked
\* against a second export or a manual" payment, so no payment recorded by hand
\* pays for what is waiting in a file.
HandPaymentAvoidsFiles ==
  \A b \in Batches, p \in Payees, c \in Codes :
    batch[b] = "OPEN" /\ Pending(b, p) /\ payout[c] # None
      /\ payout[c].batch = None
      => payout[c].items \cap line[b][p].items = {}

\* The same sentence of a second export: no item waits in two files.
ItemWaitsInOneFile ==
  \A b, c \in Batches, p, q \in Payees :
    batch[b] = "OPEN" /\ batch[c] = "OPEN" /\ Pending(b, p) /\ Pending(c, q)
      /\ line[b][p].items \cap line[c][q].items # {}
      => b = c

\* mpesa-bulk-format.ts:428: what "could not be tied to one person safely" is
\* unmatched, so no line is paid by a receipt of somebody else in the file.
LineIsPaidByItsOwnReceipt ==
  \A b \in Batches, p \in Payees :
    HasLine(b, p) /\ line[b][p].st = "PAID" /\ line[b][p].code[1] = b
      => line[b][p].code[2] = p
=============================================================================
