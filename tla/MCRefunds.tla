----------------------------- MODULE MCRefunds ------------------------------
(* Refunds for an order of two items, at KSh 4 and KSh 2, in steps of KSh 2.*)
EXTENDS Refunds, TLC

FourTwo == (1 :> 4) @@ (2 :> 2)
Steps == {2, 4, 6}
NoneOrOne == {{}, {1}, {None}}      \* no case, that of a return, the one by hand
Symmetry == Permutations(Requests) \cup Permutations(Agents)
              \cup Permutations(Receipts)
=============================================================================
