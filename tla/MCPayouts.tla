----------------------------- MODULE MCPayouts ------------------------------
(* Payouts for an affiliate and a rider: KSh 1 for each item.              *)
EXTENDS Payouts, TLC

CONSTANTS affiliate, rider, renamed, ann, bob, own

One == [i \in Items |-> 1]
RiderKeys == {rider, renamed}
Everybody == RiderKeys \cup {affiliate}

\* All is the affiliate's.
Affiliated == [i \in Items |-> {affiliate}]
Renamable == [i \in Items |-> RiderKeys]
\* A walk-in rider's fee may come under any key; one is a colleague's own.
Walking == [i \in Items |-> IF i = own THEN {renamed} ELSE Payees]

OwnNumber == [p \in Payees |-> p]

\* The two riders' numbers look the same when they are masked.
Mask == [p \in Payees |-> IF p \in RiderKeys THEN RiderKeys ELSE {p}]

\* Ann is the affiliate.
AnnIsPaid == [a \in Admins |-> IF a = ann THEN {affiliate} ELSE {}]
NobodyIsPaid == [a \in Admins |-> {}]

Files == Permutations(Admins) \cup Permutations(Batches)
           \cup Permutations(Commissions) \cup Permutations(HandCodes)
=============================================================================
