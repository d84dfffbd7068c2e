------------------------------- MODULE MCSale -------------------------------
(* Sale on small instances: the rows of each table are interchangeable.    *)
EXTENDS Sale, TLC

Symmetry == Permutations(Orders) \cup Permutations(Garments)
              \cup Permutations(Phones) \cup Permutations(Payments)
=============================================================================
