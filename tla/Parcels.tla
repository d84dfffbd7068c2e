------------------------------ MODULE Parcels -------------------------------
(***************************************************************************)
(* What fulfilment promises about stock, and nothing about tasks, scans,   *)
(* labels or codes: the garments of an order are picked, packed and handed *)
(* over together, only for an order that is paid and is the only paid one  *)
(* to list them, and an order that is closed stays closed.                 *)
(***************************************************************************)
CONSTANTS
  Orders,
  Garments

VARIABLES
  order,          \* Order.status
  inv,            \* InventoryItem.status
  items           \* the garments of the order's items

vars == <<order, inv, items>>

Live(o) == order[o] \in {"PAID", "FULFILLING"}
Open(o) == order[o] \in {"AWAITING", "DEPOSIT_EXPIRED"}
Sharing(o) == {other \in Orders \ {o} : items[other] \cap items[o] # {}}

Init ==
  /\ order \in [Orders -> {"AWAITING", "DEPOSIT_EXPIRED", "PAID"}]
  /\ items \in [Orders -> SUBSET Garments \ {{}}]
  /\ inv \in [Garments -> {"AVAILABLE", "PAID"}]
  /\ \A o \in Orders : order[o] = "PAID" => \A g \in items[o] : inv[g] = "PAID"

Restocked(o, status) ==
  [g \in Garments |-> IF g \in items[o] THEN status ELSE inv[g]]

\* The whole parcel goes from one status to the next.
Moves(o, from, to) ==
  /\ Live(o)
  /\ \A other \in Sharing(o) : ~Live(other)
  /\ \A g \in items[o] : inv[g] = from
  /\ inv' = Restocked(o, to)
  /\ UNCHANGED items

Pay(o) ==
  /\ Open(o)
  /\ \E s \in {"AVAILABLE", "PAID"} : \A g \in items[o] : inv[g] = s
  /\ order' = [order EXCEPT ![o] = "PAID"]
  /\ inv' = Restocked(o, "PAID")
  /\ UNCHANGED items

Start(o) ==
  /\ order[o] = "PAID"
  /\ order' = [order EXCEPT ![o] = "FULFILLING"]
  /\ UNCHANGED <<inv, items>>

Pick(o) == Moves(o, "PAID", "PICKED") /\ UNCHANGED order
Pack(o) == Moves(o, "PICKED", "PACKED") /\ UNCHANGED order

Deliver(o) ==
  /\ Moves(o, "PACKED", "DELIVERED")
  /\ order' = [order EXCEPT ![o] = "COMPLETED"]

WriteOff(o, outcome) ==
  /\ Live(o) \/ order[o] = "DEPOSIT_EXPIRED"
  /\ order' = [order EXCEPT ![o] = "CANCELLED"]
  /\ inv' = [g \in Garments |->
               IF g \in items[o] /\ inv[g] \in {"PAID", "PICKED", "PACKED"}
               THEN outcome ELSE inv[g]]
  /\ UNCHANGED items

Refund(o) ==
  /\ order[o] \notin {"AWAITING", "REFUNDED"}
  /\ order' = [order EXCEPT ![o] = "REFUNDED"]
  /\ UNCHANGED <<inv, items>>

Next == \E o \in Orders :
  \/ Pay(o) \/ Start(o) \/ Pick(o) \/ Pack(o) \/ Deliver(o) \/ Refund(o)
  \/ \E outcome \in {"AVAILABLE", "LOST"} : WriteOff(o, outcome)

Spec == Init /\ [][Next]_vars
=============================================================================
