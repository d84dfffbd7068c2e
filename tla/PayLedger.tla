----------------------------- MODULE PayLedger ------------------------------
(***************************************************************************)
(* What the payout desk promises, and nothing about weeks, files or locks: *)
(* what is owed is paid once, all at once or item by item, and an M-Pesa   *)
(* receipt accounts for one payout for good.                               *)
(***************************************************************************)
CONSTANTS
  Items,          \* commissions and rider fees
  Codes,          \* M-Pesa receipts
  Unpaid,         \* the mark of an item that is not paid
  Alone           \* the mark of one that was paid without a payout

VARIABLES
  paid,           \* how each item was paid
  used            \* the receipts that account for a payout

vars == <<paid, used>>

Init ==
  /\ paid = [i \in Items |-> Unpaid]
  /\ used = {}

\* Receipts new to the ledger are recorded together, each for items that were
\* not paid and that no other of them pays for.
Record(new) ==
  /\ new \cap used = {}
  /\ used' = used \cup new
  /\ \E mark \in [Items -> new \cup {Unpaid}] :
       paid' = [i \in Items |-> IF paid[i] = Unpaid THEN mark[i] ELSE paid[i]]

PayAlone(i) ==
  /\ paid[i] = Unpaid
  /\ paid' = [paid EXCEPT ![i] = Alone]
  /\ UNCHANGED used

Next ==
  \/ \E new \in SUBSET Codes : Record(new)
  \/ \E i \in Items : PayAlone(i)

Spec == Init /\ [][Next]_vars
=============================================================================
