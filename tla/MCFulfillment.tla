--------------------------- MODULE MCFulfillment ---------------------------
(* Fulfillment on small instances: rows, staff and requests are alike.     *)
EXTENDS Fulfillment, TLC

Symmetry == Permutations(Orders) \cup Permutations(Garments)
              \cup Permutations(Calls)
RouteSymmetry == Symmetry \cup Permutations(Stores)
=============================================================================
