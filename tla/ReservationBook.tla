--------------------------- MODULE ReservationBook ---------------------------
(***************************************************************************)
(* What the checkout promises about one-of-one garments, with no payment,  *)
(* callback or clock in sight.  A reservation is the set of its            *)
(* <<order, garment>> entries.  It is opened whole, on garments that are   *)
(* on the shelf or that the same step takes back from reservations it      *)
(* ends; it is ended whole, every garment back on the shelf or every one   *)
(* of them off it.  Nothing else ever touches a reserved garment, and only *)
(* a reservation takes a garment off the shelf.                            *)
(***************************************************************************)
CONSTANTS Orders, Garments

VARIABLES
  held,     \* the entries of the open reservations
  shelf     \* the garments anyone may reserve

book == <<held, shelf>>

Entries(os) == {e \in held : e[1] \in os}
Holding == {e[1] : e \in held}
Reserved(os) == {g \in Garments : \E o \in os : <<o, g>> \in held}

Init == held = {} /\ shelf = Garments

\* A new reservation; those of the orders in given are ended by the same step.
Open(o, cart, given) ==
  /\ cart # {}
  /\ cart \subseteq shelf \cup Reserved(given)
  /\ held' = (held \ Entries(given)) \cup ({o} \X cart)
  /\ shelf' = (shelf \cup Reserved(given)) \ cart

Release(o) ==
  /\ Entries({o}) # {}
  /\ held' = held \ Entries({o})
  /\ shelf' = shelf \cup Reserved({o})

Convert(o) ==
  /\ Entries({o}) # {}
  /\ held' = held \ Entries({o})
  /\ UNCHANGED shelf

\* Sold or held stock comes back: a lapsed deposit, a write-off.
Reshelve(garments) ==
  /\ garments \cap (shelf \cup Reserved(Orders)) = {}
  /\ shelf' = shelf \cup garments
  /\ UNCHANGED held

Next ==
  \/ \E o \in Orders : Release(o) \/ Convert(o)
  \/ \E garments \in SUBSET (Garments \ shelf) : Reshelve(garments)
  \/ \E o \in Orders \ Holding, given \in SUBSET Holding, cart \in SUBSET Garments :
       Open(o, cart, given)

Spec == Init /\ [][Next]_book

\* The one-of-one rule: a garment is in one open reservation at most, and a
\* reserved garment is not on the shelf.
OneOfOne ==
  /\ \A a, b \in held : a[2] = b[2] => a = b
  /\ \A e \in held : e[2] \notin shelf
=============================================================================
