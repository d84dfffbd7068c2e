----------------------------- MODULE MCShelves ------------------------------
(* Shelves, two of each; garments and transactions are interchangeable.    *)
EXTENDS Shelves, TLC

Symmetry == Permutations(Garments) \cup Permutations(Shelves)
              \cup Permutations(Txs)
OrderedSymmetry == Permutations(Shelves) \cup Permutations(Txs)
=============================================================================
