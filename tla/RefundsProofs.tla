--------------------------- MODULE RefundsProofs ----------------------------
(***************************************************************************)
(* Theorems about Refunds, for any items, prices, windows, requests and    *)
(* receipts.                                                               *)
(***************************************************************************)
EXTENDS Refunds, PriceRulesProofs, FiniteSetTheorems, FunctionTheorems, TLAPS

\* The lapse is the first and only request that nobody raised.
LapseComesOnce ==
  order = "DEPOSIT_PAID" =>
    \A q \in Requests : request[q] # None => request[q].by # None

DesksInv == EachDeskWithinPaid /\ LapseComesOnce

\* Returns and the payment of the commission come after the completion, and the
\* payment not before the window has passed.
CompletionComesFirst ==
  /\ clock # None => order \in {"COMPLETED", "REFUNDED"}
  /\ \A i \in Items : return[i] # None => clock # None
  /\ commission # None /\ commission.st = "PAID" => clock # None /\ clock >= Window

\* A return that was closed has had its share taken off the commission.
ClosedIsAdjusted ==
  \A i \in Items :
    return[i] # None /\ return[i].st = "REFUND_RECORDED" /\ commission # None
      => return[i].adjusted # "NO"

WindowInv == CompletionComesFirst /\ ClosedIsAdjusted /\ PaidCommissionIsPastReturns

\* A closed return is paid back, and only a closed return is restocked.
ClosedIsPaidBack ==
  \A i \in Items : return[i] # None =>
    /\ return[i].st = "REFUND_RECORDED" => itemBack[i] >= LineTotal[i]
    /\ return[i].restocked => return[i].st = "REFUND_RECORDED"

\* What was taken off the commission and what is left of it are what it was.
CommissionIsConserved ==
  commission # None => commission.amount + commission.reversed = Commission

-----------------------------------------------------------------------------
(* Sums over finite sets.  SumFunctionOnSet takes one element after the    *)
(* other out of the set, in an order that CHOOSE fixes.  The induction is  *)
(* over the families of subsets for which a fact holds: a finite set has   *)
(* no least subset for which it fails.                                     *)

\* The element that is taken out first.
Pick(s) == CHOOSE x \in s : TRUE

\* g gives the sum of f over every subset of S.
Unfolds(g, f, S) ==
  g = [s \in SUBSET S |-> IF s = {} THEN 0 ELSE f[Pick(s)] + g[s \ {Pick(s)}]]

\* A sum is the value of a function that unfolds it, if there is one.
LEMMA SumIsUnfolded ==
  ASSUME NEW f, NEW S, NEW h, Unfolds(h, f, S)
  PROVE  \E g : Unfolds(g, f, S) /\ SumFunctionOnSet(f, S) = g[S]
BY Zenon DEF Unfolds, Pick, SumFunctionOnSet, FoldFunctionOnSet, MapThenFoldSet

\* Of some subsets of a finite set, one has none of the others within it.
LEMMA LeastSubset ==
  ASSUME NEW S, IsFiniteSet(S), NEW T \in SUBSET SUBSET S, T # {}
  PROVE  \E x \in T : \A y \in T : y \subseteq x => y = x
<1>1. IsWellFoundedOn(StrictSubsetOrdering(S), SUBSET S)
  BY FS_StrictSubsetOrderingWellFounded, FS_FiniteSubsetsOfFinite
<1>2. PICK x \in T : \A y \in T : <<y, x>> \notin StrictSubsetOrdering(S)
  BY <1>1, WFMin
<1>3. ASSUME NEW y \in T, y \subseteq x PROVE y = x
  <2>1. <<y, x>> \in (SUBSET S) \X (SUBSET S)
    OBVIOUS
  <2> QED BY <1>2, <1>3, <2>1 DEF StrictSubsetOrdering
<1> QED BY <1>3

\* Induction over the subsets of a finite set.
LEMMA SubsetInduction ==
  ASSUME NEW S, IsFiniteSet(S), NEW F,
         \A s \in SUBSET S : (\A t \in SUBSET s : t # s => t \in F) => s \in F
  PROVE  SUBSET S \subseteq F
<1> SUFFICES ASSUME (SUBSET S) \ F # {} PROVE FALSE
  OBVIOUS
<1>1. PICK x \in (SUBSET S) \ F : \A y \in (SUBSET S) \ F : y \subseteq x => y = x
  <2> DEFINE T == (SUBSET S) \ F
  <2>1. T \in SUBSET SUBSET S /\ T # {}
    OBVIOUS
  <2> HIDE DEF T
  <2>2. \E x \in T : \A y \in T : y \subseteq x => y = x
    BY <2>1, LeastSubset
  <2> QED BY <2>2 DEF T
<1>2. \A t \in SUBSET x : t # x => t \in F
  BY <1>1
<1> QED BY <1>1, <1>2

\* It is one of the elements.
LEMMA PickIsElement ==
  ASSUME NEW s, s # {} PROVE Pick(s) \in s
BY DEF Pick

\* There is at most one such function.
LEMMA UnfoldingIsUnique ==
  ASSUME NEW f, NEW S, IsFiniteSet(S), NEW g, NEW h, Unfolds(g, f, S), Unfolds(h, f, S)
  PROVE  g = h
<1> DEFINE F == {s \in SUBSET S : g[s] = h[s]}
<1>1. ASSUME NEW s \in SUBSET S, \A t \in SUBSET s : t # s => t \in F PROVE s \in F
  <2>1. CASE s = {}
    BY <2>1 DEF Unfolds
  <2>2. CASE s # {}
    <3>1. s \ {Pick(s)} \in F
      BY <1>1, <2>2, PickIsElement
    <3> QED BY <2>2, <3>1 DEF Unfolds
  <2> QED BY <2>1, <2>2
<1>2. SUBSET S \subseteq F
  <2> HIDE DEF F
  <2> QED BY <1>1, SubsetInduction
<1> QED BY <1>2 DEF Unfolds

\* It also unfolds the sums over smaller sets.
LEMMA UnfoldsBelow ==
  ASSUME NEW f, NEW S, NEW g, Unfolds(g, f, S), NEW T \in SUBSET S
  PROVE  Unfolds([s \in SUBSET T |-> g[s]], f, T)
<1> DEFINE h == [s \in SUBSET T |-> g[s]]
<1>1. ASSUME NEW s \in SUBSET T
      PROVE  h[s] = IF s = {} THEN 0 ELSE f[Pick(s)] + h[s \ {Pick(s)}]
  <2>1. s \in SUBSET S /\ s \ {Pick(s)} \in SUBSET T
    OBVIOUS
  <2> QED BY <2>1 DEF Unfolds
<1> QED BY <1>1 DEF Unfolds

\* So a sum is that of the rest, with the element that is taken out.
LEMMA UnfoldedSum ==
  ASSUME NEW f, NEW S, IsFiniteSet(S), NEW h, Unfolds(h, f, S)
  PROVE  /\ S = {} => SumFunctionOnSet(f, S) = 0
         /\ S # {} => SumFunctionOnSet(f, S)
                        = f[Pick(S)] + SumFunctionOnSet(f, S \ {Pick(S)})
<1>1. PICK g : Unfolds(g, f, S) /\ SumFunctionOnSet(f, S) = g[S]
  BY SumIsUnfolded
<1>2. CASE S = {}
  BY <1>1, <1>2 DEF Unfolds
<1>3. CASE S # {}
  <2> DEFINE T == S \ {Pick(S)}
             b == [s \in SUBSET T |-> g[s]]
  <2>1. IsFiniteSet(T) /\ T \in SUBSET S
    BY FS_RemoveElement
  <2>2. Unfolds(b, f, T)
    BY <1>1, <2>1, UnfoldsBelow
  <2>3. b[T] = g[T]
    OBVIOUS
  <2> HIDE DEF b
  <2>4. PICK c : Unfolds(c, f, T) /\ SumFunctionOnSet(f, T) = c[T]
    BY <2>2, SumIsUnfolded
  <2>5. c = b
    BY <2>1, <2>2, <2>4, UnfoldingIsUnique
  <2> QED BY <1>1, <1>3, <2>1, <2>3, <2>4, <2>5 DEF Unfolds
<1> QED BY <1>2, <1>3

\* There is one for every finite set.
LEMMA UnfoldingExists ==
  ASSUME NEW f, NEW S, IsFiniteSet(S) PROVE \E g : Unfolds(g, f, S)
<1> DEFINE F == {s \in SUBSET S : \E g : Unfolds(g, f, s)}
<1>1. ASSUME NEW s \in SUBSET S, \A t \in SUBSET s : t # s => t \in F PROVE s \in F
  <2> DEFINE top == IF s = {} THEN 0
                    ELSE f[Pick(s)] + SumFunctionOnSet(f, s \ {Pick(s)})
             g == [t \in SUBSET s |-> IF t = s THEN top ELSE SumFunctionOnSet(f, t)]
  <2>1. ASSUME NEW t \in SUBSET s
        PROVE  g[t] = IF t = {} THEN 0 ELSE f[Pick(t)] + g[t \ {Pick(t)}]
    <3>1. t # {} => t \ {Pick(t)} \in SUBSET s /\ t \ {Pick(t)} # s
      BY PickIsElement
    <3>2. CASE t = s
      BY <3>1, <3>2
    <3>3. CASE t # s
      <4>1. IsFiniteSet(t) /\ \E h : Unfolds(h, f, t)
        BY <1>1, <3>3, FS_Subset
      <4> QED BY <3>1, <3>3, <4>1, UnfoldedSum
    <3> QED BY <3>2, <3>3
  <2>2. Unfolds(g, f, s)
    <3> HIDE DEF top
    <3> QED BY <2>1 DEF Unfolds
  <2> HIDE DEF g
  <2> QED BY <2>2
<1>2. SUBSET S \subseteq F
  <2> HIDE DEF F
  <2> QED BY <1>1, SubsetInduction
<1> QED BY <1>2

\* A sum over a finite set, one element at a time.
LEMMA SumUnfolds ==
  ASSUME NEW f, NEW S, IsFiniteSet(S)
  PROVE  /\ S = {} => SumFunctionOnSet(f, S) = 0
         /\ S # {} => SumFunctionOnSet(f, S)
                        = f[Pick(S)] + SumFunctionOnSet(f, S \ {Pick(S)})
BY UnfoldingExists, UnfoldedSum

\* ... whichever one is taken out.
LEMMA SumWithout ==
  ASSUME NEW f, NEW S, IsFiniteSet(S), \A i \in S : f[i] \in Int
  PROVE  /\ SumFunctionOnSet(f, S) \in Int
         /\ \A x \in S : SumFunctionOnSet(f, S) = f[x] + SumFunctionOnSet(f, S \ {x})
<1> DEFINE Sum(s) == SumFunctionOnSet(f, s)
           F == {s \in SUBSET S : /\ Sum(s) \in Int
                                  /\ \A x \in s : Sum(s) = f[x] + Sum(s \ {x})}
<1>1. ASSUME NEW s \in SUBSET S, \A t \in SUBSET s : t # s => t \in F PROVE s \in F
  <2>1. IsFiniteSet(s)
    BY FS_Subset
  <2>2. CASE s = {}
    <3>1. Sum(s) = 0
      BY <2>1, <2>2, SumUnfolds
    <3> QED BY <2>2, <3>1
  <2>3. CASE s # {}
    <3> DEFINE p == Pick(s)
    <3>1. p \in s /\ f[p] \in Int
      BY <2>3, PickIsElement
    <3>2. Sum(s) = f[p] + Sum(s \ {p}) /\ Sum(s \ {p}) \in Int
      BY <1>1, <2>1, <2>3, <3>1, SumUnfolds
    <3>3. ASSUME NEW x \in s, x # p PROVE Sum(s) = f[x] + Sum(s \ {x})
      <4>1. /\ s \ {p} \in F /\ x \in s \ {p} /\ s \ {x} \in F /\ p \in s \ {x}
            /\ (s \ {p}) \ {x} = (s \ {x}) \ {p} /\ (s \ {p}) \ {x} \in F
        <5> HIDE DEF F
        <5> QED BY <1>1, <3>1, <3>3
      <4>2. f[x] \in Int /\ Sum((s \ {p}) \ {x}) \in Int
        BY <4>1
      <4>3. Sum(s \ {p}) = f[x] + Sum((s \ {p}) \ {x})
        BY <4>1
      <4>4. Sum(s \ {x}) = f[p] + Sum((s \ {p}) \ {x})
        BY <4>1
      <4> QED BY <3>1, <3>2, <4>2, <4>3, <4>4
    <3>4. \A x \in s : Sum(s) = f[x] + Sum(s \ {x})
      BY <3>2, <3>3
    <3>5. Sum(s) \in Int
      BY <3>1, <3>2
    <3> HIDE DEF Sum
    <3> QED BY <3>4, <3>5
  <2> QED BY <2>2, <2>3
<1>2. SUBSET S \subseteq F
  <2> HIDE DEF F
  <2> QED BY <1>1, SubsetInduction
<1> QED BY <1>2

\* Adding the elements of a finite set one by one.
LEMMA OneByOne ==
  ASSUME NEW S, IsFiniteSet(S), NEW F, {} \in F,
         \A s \in SUBSET S : \A x \in s : s \ {x} \in F => s \in F
  PROVE  S \in F
<1>1. ASSUME NEW s \in SUBSET S, \A t \in SUBSET s : t # s => t \in F PROVE s \in F
  <2>1. CASE s = {}
    BY <2>1
  <2>2. ASSUME NEW x \in s PROVE s \in F
    <3>1. s \ {x} \in SUBSET s /\ s \ {x} # s
      OBVIOUS
    <3> QED BY <1>1, <3>1
  <2> QED BY <2>1, <2>2
<1>2. SUBSET S \subseteq F
  BY <1>1, SubsetInduction
<1> QED BY <1>2

\* A linear equation of the terms holds of the sums.
LEMMA SumsAreLinear ==
  ASSUME NEW S, IsFiniteSet(S), NEW f, NEW g, NEW h, NEW a \in Int, NEW b \in Int,
         \A i \in S : f[i] \in Int /\ g[i] \in Int /\ h[i] \in Int
                      /\ a * f[i] = b * g[i] + h[i]
  PROVE  a * SumFunctionOnSet(f, S)
           = b * SumFunctionOnSet(g, S) + SumFunctionOnSet(h, S)
<1> DEFINE F == {s \in SUBSET S : a * SumFunctionOnSet(f, s)
                    = b * SumFunctionOnSet(g, s) + SumFunctionOnSet(h, s)}
<1>1. {} \in F
  <2>1. /\ SumFunctionOnSet(f, {}) = 0 /\ SumFunctionOnSet(g, {}) = 0
        /\ SumFunctionOnSet(h, {}) = 0
    BY SumUnfolds, FS_EmptySet
  <2> QED BY <2>1
<1>2. ASSUME NEW s \in SUBSET S, NEW x \in s, s \ {x} \in F PROVE s \in F
  <2>1. IsFiniteSet(s) /\ IsFiniteSet(s \ {x})
    BY FS_Subset
  <2>2. PICK v, w, u : /\ v = SumFunctionOnSet(f, s \ {x}) /\ w = SumFunctionOnSet(g, s \ {x})
                       /\ u = SumFunctionOnSet(h, s \ {x})
    OBVIOUS
  <2>3. v \in Int /\ w \in Int /\ u \in Int
    BY <2>1, <2>2, SumWithout
  <2>4. /\ SumFunctionOnSet(f, s) = f[x] + v /\ SumFunctionOnSet(g, s) = g[x] + w
        /\ SumFunctionOnSet(h, s) = h[x] + u
    BY <2>1, <2>2, SumWithout
  <2>5. a * v = b * w + u /\ a * f[x] = b * g[x] + h[x]
        /\ f[x] \in Int /\ g[x] \in Int /\ h[x] \in Int
    BY <1>2, <2>2
  <2>6. a * (f[x] + v) = a * f[x] + a * v /\ b * (g[x] + w) = b * g[x] + b * w
    BY <2>3, <2>5
  <2>7. a * f[x] \in Int /\ a * v \in Int /\ b * g[x] \in Int /\ b * w \in Int
    BY <2>3, <2>5
  <2>8. a * (f[x] + v) = b * (g[x] + w) + (h[x] + u)
    BY <2>3, <2>5, <2>6, <2>7
  <2> QED BY <2>4, <2>8
<1>3. S \in F
  <2> HIDE DEF F
  <2> QED BY <1>1, <1>2, OneByOne
<1> QED BY <1>3

\* A sum of terms between 0 and c.
LEMMA SumIsBounded ==
  ASSUME NEW S, IsFiniteSet(S), NEW f, NEW c \in Nat, \A i \in S : f[i] \in 0..c
  PROVE  SumFunctionOnSet(f, S) \in 0..(c * Cardinality(S))
<1> DEFINE F == {s \in SUBSET S : SumFunctionOnSet(f, s) \in 0..(c * Cardinality(s))}
<1>1. {} \in F
  <2>1. SumFunctionOnSet(f, {}) = 0 /\ Cardinality({}) = 0
    BY SumUnfolds, FS_EmptySet
  <2> QED BY <2>1
<1>2. ASSUME NEW s \in SUBSET S, NEW x \in s, s \ {x} \in F PROVE s \in F
  <2>1. IsFiniteSet(s) /\ IsFiniteSet(s \ {x})
    BY FS_Subset
  <2>2. PICK v, n : v = SumFunctionOnSet(f, s \ {x}) /\ n = Cardinality(s \ {x})
    OBVIOUS
  <2>3. Cardinality(s) = n + 1 /\ n \in Nat
    BY <2>1, <2>2, FS_RemoveElement, FS_CardinalityType
  <2>4. SumFunctionOnSet(f, s) = f[x] + v
    BY <2>1, <2>2, SumWithout
  <2>5. v \in 0..(c * n) /\ f[x] \in 0..c
    BY <1>2, <2>2
  <2>6. c * (n + 1) = c * n + c /\ c * n \in Nat
    BY <2>3
  <2>7. f[x] + v \in 0..(c * (n + 1))
    BY <2>5, <2>6
  <2> QED BY <2>3, <2>4, <2>7
<1>3. S \in F
  <2> HIDE DEF F
  <2> QED BY <1>1, <1>2, OneByOne
<1> QED BY <1>3

\* One more for each element of T.
LEMMA SumCounts ==
  ASSUME NEW S, IsFiniteSet(S), NEW T \in SUBSET S, NEW f, NEW g,
         \A i \in S : g[i] \in Int /\ f[i] = g[i] + (IF i \in T THEN 1 ELSE 0)
  PROVE  SumFunctionOnSet(f, S) = SumFunctionOnSet(g, S) + Cardinality(T)
<1> DEFINE F == {s \in SUBSET S : SumFunctionOnSet(f, s)
                                    = SumFunctionOnSet(g, s) + Cardinality(s \cap T)}
<1>1. {} \in F
  <2>1. /\ SumFunctionOnSet(f, {}) = 0 /\ SumFunctionOnSet(g, {}) = 0
        /\ Cardinality({}) = 0 /\ {} \cap T = {}
    BY SumUnfolds, FS_EmptySet
  <2> QED BY <2>1
<1>2. ASSUME NEW s \in SUBSET S, NEW x \in s, s \ {x} \in F PROVE s \in F
  <2>1. IsFiniteSet(s) /\ IsFiniteSet(s \ {x}) /\ IsFiniteSet((s \ {x}) \cap T)
    BY FS_Subset
  <2>2. PICK v, w, n : /\ v = SumFunctionOnSet(f, s \ {x})
                       /\ w = SumFunctionOnSet(g, s \ {x})
                       /\ n = Cardinality((s \ {x}) \cap T)
    OBVIOUS
  <2>3. \A i \in S : f[i] \in Int /\ g[i] \in Int
    OBVIOUS
  <2>4. SumFunctionOnSet(f, s) = f[x] + v /\ SumFunctionOnSet(g, s) = g[x] + w
        /\ v \in Int /\ w \in Int
    BY <2>1, <2>2, <2>3, SumWithout
  <2>5. Cardinality(s \cap T) = n + (IF x \in T THEN 1 ELSE 0) /\ n \in Nat
    <3>0. n \in Nat
      BY <2>1, <2>2, FS_CardinalityType
    <3>1. CASE x \in T
      <4>1. s \cap T = ((s \ {x}) \cap T) \cup {x} /\ x \notin (s \ {x}) \cap T
        BY <3>1
      <4> QED BY <2>1, <2>2, <3>0, <3>1, <4>1, FS_AddElement
    <3>2. CASE x \notin T
      <4>1. s \cap T = (s \ {x}) \cap T
        BY <3>2
      <4> QED BY <2>2, <3>0, <3>2, <4>1
    <3> QED BY <3>1, <3>2
  <2>6. v = w + n /\ f[x] = g[x] + (IF x \in T THEN 1 ELSE 0) /\ g[x] \in Int
    BY <1>2, <2>2
  <2>7. f[x] + v = (g[x] + w) + (n + (IF x \in T THEN 1 ELSE 0))
    BY <2>4, <2>5, <2>6
  <2> QED BY <2>4, <2>5, <2>7
<1>3. S \in F
  <2> HIDE DEF F
  <2> QED BY <1>1, <1>2, OneByOne
<1>4. S \cap T = T
  OBVIOUS
<1> QED BY <1>3, <1>4

-----------------------------------------------------------------------------
(* Amounts.                                                                *)

\* The sums of the order are natural numbers, and the deposit is part of the total.
LEMMA TotalIsNat ==
  /\ Total \in Nat \ {0} /\ Subtotal \in Nat \ {0}
  /\ Deposit \in 1..Total /\ LapseRefund \in Nat /\ Commission \in Nat
<1>1. Total \in Nat \ {0} /\ Subtotal \in Nat \ {0}
  BY RefundsAssumption DEF Total
<1>2. Deposit \in 1..Total
  BY <1>1, DepositIsPartOfTotal DEF Deposit
<1>3. LapseRefund \in Nat
  BY <1>1, <1>2, LapseStaysWithinDeposit DEF Deposit, LapseRefund
<1>4. Commission \in Nat
  BY <1>1, RefundsAssumption, CommissionIsBounded DEF Commission
<1> QED
  BY <1>1, <1>2, <1>3, <1>4

\* What a lapse gives back is no more than the plan says.
LEMMA LapseGivesBack ==
  ASSUME NEW collected \in Nat
  PROVE  /\ LapsedDeposit(Total, collected).refund \in Nat
         /\ LapsedDeposit(Total, collected).refund <= LapseRefund
<1>1. LapsedRefund(Total) \in Nat /\ LapseRefund = LapsedRefund(Total)
  BY TotalIsNat DEF LapseRefund
<1> QED
  BY <1>1 DEF LapsedDeposit

\* The share of an item is a natural number.
LEMMA ShareIsNat ==
  ASSUME NEW amount \in Nat, NEW i \in Items
  PROVE  Share(amount, i) \in Nat
<1>1. LineTotal[i] \in Nat
  BY RefundsAssumption
<1> DEFINE product == amount * LineTotal[i]
<1>2. product \in Nat
  BY <1>1
<1> HIDE DEF product
<1>3. product \div Subtotal \in Nat
  BY <1>2, TotalIsNat
<1>4. Floor(amount, i) \in Nat
  BY <1>3 DEF Floor, product
<1> QED
  BY <1>4 DEF Share

-----------------------------------------------------------------------------
(* Types.                                                                  *)

LEMMA NewCommissionIsRow == NewCommission \in CommissionRow
  BY TotalIsNat DEF NewCommission, CommissionRow

LEMMA InitTypes == Init => TypeOK
<1> SUFFICES ASSUME Init PROVE TypeOK
  OBVIOUS
<1> USE RefundsAssumption, TotalIsNat
<1>1. commission \in CommissionRow \cup {None}
  BY NewCommissionIsRow DEF Init
<1>2. case \in [Cases -> Case]
  BY DEF Init, Case, ClosedCase
<1>3. receipts \subseteq Receipts \X Spellings
  BY DEF Init
<1>4. order \in OrderStatus /\ paid \in {Deposit, Total}
  BY DEF Init, OrderStatus
<1>5. /\ request \in [Requests -> Request \cup {None}] /\ promised \in Int
      /\ return \in [Items -> Return \cup {None}]
      /\ booked \in [Desks -> Nat] /\ itemBack \in [Items -> Nat]
  BY DEF Init
<1>6. clock \in (0..Window + 1) \cup {None}
  BY DEF Init
<1> QED
  BY <1>1, <1>2, <1>3, <1>4, <1>5, <1>6 DEF TypeOK

\* Taking a share off the commission, and reversing it, leave a commission.
LEMMA AdjustKeepsTypes ==
  ASSUME TypeOK, NEW i \in Items, commission # None, Adjust(i)
  PROVE  commission' \in CommissionRow
<1>1. commission \in CommissionRow /\ Original \in Nat
  BY DEF TypeOK, CommissionRow, Original
<1>2. Share(Original, i) \in Nat
  BY <1>1, ShareIsNat
<1> DEFINE less == commission.amount - Share(Original, i)
           more == commission.reversed + Share(Original, i)
           row == [commission EXCEPT !.amount = less, !.reversed = more,
                     !.st = IF less = 0 THEN "REJECTED" ELSE @,
                     !.hold = @ \/ less = 0]
<1>3. commission.st # "PAID" => less \in Nat /\ commission' = row
  BY <1>1, <1>2 DEF Adjust, CommissionRow
<1>4. more \in Nat
  BY <1>1, <1>2 DEF CommissionRow
<1>5. less \in Nat => row \in CommissionRow
  <2> HIDE DEF less, more
  <2> QED
    BY <1>1, <1>4 DEF CommissionRow
<1>6. CASE commission.st = "PAID"
  BY <1>1, <1>6 DEF Adjust
<1> QED
  BY <1>3, <1>5, <1>6

LEMMA ReversalKeepsTypes ==
  ASSUME TypeOK, ReverseCommission
  PROVE  commission' \in CommissionRow \cup {None}
  BY DEF TypeOK, ReverseCommission, CommissionRow

LEMMA RequestStepsKeepTypes ==
  ASSUME TypeOK, RequestSteps PROVE TypeOK'
<1> USE RefundsAssumption, TotalIsNat
<1>1. ASSUME NEW q \in Requests, NEW by \in Agents, NEW amount \in Amounts,
             NEW i \in Items \cup {None}, NEW named \in Named,
             CreateRequest(q, by, amount, i, named)
      PROVE  TypeOK'
  <2>1. [st |-> "PENDING_APPROVAL", amount |-> amount, item |-> i, cases |-> named,
         by |-> by] \in Request
    BY <1>1 DEF Request, LiveRequest
  <2>2. case' \in [Cases -> Case]
    <3>1. \A c \in Cases : case[c] \in Case /\ Asking(case[c]) \in Case
      BY DEF TypeOK, Asking, Case
    <3>2. case' = [c \in Cases |-> IF c \in named THEN Asking(case[c]) ELSE case[c]]
      BY <1>1 DEF CreateRequest
    <3> QED
      BY <3>1, <3>2
  <2>3. promised' \in Int
    BY <1>1 DEF CreateRequest, TypeOK
  <2> QED
    BY <1>1, <2>1, <2>2, <2>3 DEF CreateRequest, TypeOK, moneyVars
<1>2. ASSUME NEW q \in Requests, NEW by \in Agents, NEW approved \in BOOLEAN,
             ReviewRequest(q, by, approved)
      PROVE  TypeOK'
  <2>1. request[q] \in Request
    BY <1>2 DEF ReviewRequest, TypeOK
  <2>2. request' \in [Requests -> Request \cup {None}] /\ promised' \in Int
    BY <1>2, <2>1 DEF ReviewRequest, Ends, TypeOK, Request, LiveRequest
  <2> QED
    BY <1>2, <2>2 DEF ReviewRequest, TypeOK, moneyVars
<1>3. ASSUME NEW q \in Requests, CancelRequest(q)
      PROVE  TypeOK'
  <2>1. request[q] \in Request
    BY <1>3 DEF CancelRequest, TypeOK
  <2>2. request' \in [Requests -> Request \cup {None}] /\ promised' \in Int
    BY <1>3, <2>1 DEF CancelRequest, Ends, TypeOK, Request, LiveRequest
  <2> QED
    BY <1>3, <2>2 DEF CancelRequest, TypeOK, moneyVars
<1>4. ASSUME NEW q \in Requests, NEW ref \in Receipts, CompleteRequest(q, ref)
      PROVE  TypeOK'
  <2> DEFINE i == request[q].item
  <2>1. request[q] \in Request
    BY <1>4 DEF CompleteRequest, TypeOK
  <2>0. /\ Ends(q, "REFUNDED")
        /\ Books(IF i = None THEN "REQUEST" ELSE "REQUEST_FOR_RETURN",
                 request[q].amount, ref, "UPPER")
        /\ itemBack' = IF i = None THEN itemBack
                       ELSE [itemBack EXCEPT ![i] = @ + request[q].amount]
        /\ case' = [c \in Cases |-> IF c \in request[q].cases THEN PaidOut(case[c]) ELSE case[c]]
        /\ UNCHANGED <<order, paid, return, commission, clock>>
    BY <1>4 DEF CompleteRequest
  <2>2. request' \in [Requests -> Request \cup {None}] /\ promised' \in Int
    BY <2>0, <2>1 DEF Ends, TypeOK, Request, LiveRequest
  <2>3. case' \in [Cases -> Case]
    <3>1. \A c \in Cases : case[c] \in Case /\ PaidOut(case[c]) \in Case
      BY DEF TypeOK, PaidOut, Case
    <3> QED
      BY <2>0, <3>1
  <2>4. booked' \in [Desks -> Nat] /\ receipts' \subseteq Receipts \X Spellings
    BY <2>0, <2>1 DEF Books, TypeOK, Desks, Request
  <2>5. itemBack' \in [Items -> Nat]
    <3>1. itemBack \in [Items -> Nat]
      BY DEF TypeOK
    <3>2. request[q].amount \in Nat /\ i \in Items \cup {None}
      BY <2>1 DEF Request
    <3>3. itemBack' = IF i = None THEN itemBack
                      ELSE [itemBack EXCEPT ![i] = @ + request[q].amount]
      BY <2>0
    <3> HIDE DEF i
    <3>4. CASE i = None
      BY <3>1, <3>3, <3>4
    <3>5. CASE i # None
      BY <3>1, <3>2, <3>3, <3>5
    <3> QED
      BY <3>4, <3>5
  <2> QED
    BY <2>0, <2>2, <2>3, <2>4, <2>5 DEF TypeOK
<1> QED
  BY <1>1, <1>2, <1>3, <1>4 DEF RequestSteps

LEMMA ReturnStepsKeepTypes ==
  ASSUME TypeOK, ReturnSteps PROVE TypeOK'
<1> USE RefundsAssumption, TotalIsNat
<1> SUFFICES ASSUME NEW i \in Items,
                    \/ RequestReturn(i)
                    \/ \E approved \in BOOLEAN : DecideReturn(i, approved)
                    \/ \E fit \in BOOLEAN : ReceiveReturn(i, fit)
                    \/ \E amount \in Amounts, ref \in Receipts :
                         RefundReturn(i, amount, ref)
                    \/ Restock(i)
             PROVE  TypeOK'
  BY DEF ReturnSteps
<1>1. ASSUME RequestReturn(i) PROVE TypeOK'
  <2>1. return' \in [Items -> Return \cup {None}]
    BY <1>1 DEF RequestReturn, TypeOK, Return, OpenReturn
  <2>2. case' \in [Cases -> Case]
    BY <1>1 DEF RequestReturn, TypeOK, Case
  <2> QED
    BY <1>1, <2>1, <2>2 DEF RequestReturn, TypeOK, moneyVars, requestVars
<1>2. ASSUME NEW approved \in BOOLEAN, DecideReturn(i, approved) PROVE TypeOK'
  <2>1. return[i] \in Return
    BY <1>2 DEF DecideReturn, TypeOK
  <2>2. return' \in [Items -> Return \cup {None}]
    BY <1>2, <2>1 DEF DecideReturn, TypeOK, Return, OpenReturn
  <2>3. case' \in [Cases -> Case]
    BY <1>2 DEF DecideReturn, TypeOK, Case, ClosedCase
  <2> QED
    BY <1>2, <2>2, <2>3 DEF DecideReturn, TypeOK, moneyVars, requestVars
<1>3. ASSUME NEW fit \in BOOLEAN, ReceiveReturn(i, fit) PROVE TypeOK'
  <2>1. return[i] \in Return
    BY <1>3 DEF ReceiveReturn, TypeOK
  <2>2. return' \in [Items -> Return \cup {None}]
    BY <1>3, <2>1 DEF ReceiveReturn, TypeOK, Return, OpenReturn
  <2> QED
    BY <1>3, <2>2 DEF ReceiveReturn, TypeOK, moneyVars, requestVars
<1>4. ASSUME NEW amount \in Amounts, NEW ref \in Receipts, RefundReturn(i, amount, ref)
      PROVE  TypeOK'
  <2>1. return[i] \in Return
    BY <1>4 DEF RefundReturn, TypeOK
  <2>2. return' \in [Items -> Return \cup {None}]
    BY <1>4, <2>1 DEF RefundReturn, TypeOK, Return, OpenReturn
  <2>3. case' \in [Cases -> Case]
    BY <1>4 DEF RefundReturn, TypeOK, Case, ClosedCase
  <2>4. booked' \in [Desks -> Nat] /\ receipts' \subseteq Receipts \X Spellings
    <3>1. Books("RETURN", amount, ref, "UPPER")
      BY <1>4 DEF RefundReturn
    <3> QED
      BY <3>1 DEF Books, TypeOK, Desks
  <2>5. itemBack' \in [Items -> Nat]
    <3>1. itemBack' = [itemBack EXCEPT ![i] = @ + amount] /\ amount \in Nat
      BY <1>4 DEF RefundReturn
    <3> QED
      BY <3>1 DEF TypeOK
  <2>6. commission' \in CommissionRow \cup {None}
    BY <1>4, AdjustKeepsTypes DEF RefundReturn, TypeOK
  <2>7. order' \in OrderStatus
    BY <1>4 DEF RefundReturn, TypeOK, OrderStatus
  <2> QED
    BY <1>4, <2>2, <2>3, <2>4, <2>5, <2>6, <2>7 DEF RefundReturn, TypeOK, requestVars
<1>5. ASSUME Restock(i) PROVE TypeOK'
  <2>1. return[i] \in Return
    BY <1>5 DEF Restock, TypeOK
  <2>2. return' \in [Items -> Return \cup {None}]
    BY <1>5, <2>1 DEF Restock, TypeOK, Return, OpenReturn
  <2> QED
    BY <1>5, <2>2 DEF Restock, TypeOK, moneyVars, requestVars
<1> QED
  BY <1>1, <1>2, <1>3, <1>4, <1>5

LEMMA OrderStepsKeepTypes ==
  ASSUME TypeOK, OrderSteps PROVE TypeOK'
<1> USE RefundsAssumption, TotalIsNat
<1>1. ASSUME NEW amount \in Amounts, NEW ref \in Receipts, NEW spelling \in Spellings,
             RecordRefund(amount, ref, spelling)
      PROVE  TypeOK'
  <2>1. booked' \in [Desks -> Nat] /\ receipts' \subseteq Receipts \X Spellings
    BY <1>1 DEF RecordRefund, Books, TypeOK, Desks
  <2>2. commission' \in CommissionRow \cup {None} /\ order' \in OrderStatus
    BY <1>1, ReversalKeepsTypes DEF RecordRefund, TypeOK, OrderStatus
  <2> QED
    BY <1>1, <2>1, <2>2 DEF RecordRefund, TypeOK, requestVars
<1>2. ASSUME NEW wanted \in BOOLEAN, EditCase(wanted) PROVE TypeOK'
  <2>1. case' \in [Cases -> Case]
    BY <1>2 DEF EditCase, TypeOK, Case
  <2> QED
    BY <1>2, <2>1 DEF EditCase, TypeOK, moneyVars, requestVars
<1>3. ASSUME SettleBalance PROVE TypeOK'
  <2>1. NewCommission \in CommissionRow
    BY DEF NewCommission, CommissionRow
  <2> QED
    BY <1>3, <2>1 DEF SettleBalance, TypeOK, OrderStatus, requestVars
<1>4. ASSUME NEW q \in Requests, LapseDeposit(q) PROVE TypeOK'
  <2>1. LapsedDeposit(Total, paid).refund \in Nat
    BY LapseGivesBack DEF TypeOK
  <2>2. request' \in [Requests -> Request \cup {None}] /\ promised' \in Int
    <3> DEFINE back == LapsedDeposit(Total, paid).refund
               row == [st |-> "PENDING_APPROVAL", amount |-> back, item |-> None,
                       cases |-> {}, by |-> None]
    <3>1. row \in Request
      BY <2>1 DEF Request, LiveRequest
    <3>2. \/ UNCHANGED requestVars
          \/ request' = [request EXCEPT ![q] = row] /\ promised' = promised + back
      BY <1>4 DEF LapseDeposit
    <3> HIDE DEF row, back
    <3> QED
      BY <2>1, <3>1, <3>2 DEF TypeOK, requestVars, back
  <2> QED
    BY <1>4, <2>2 DEF LapseDeposit, TypeOK, OrderStatus, moneyVars
<1>5. ASSUME CompleteOrder PROVE TypeOK'
  BY <1>5 DEF CompleteOrder, TypeOK, OrderStatus, moneyVars, requestVars
<1>6. ASSUME WriteOff PROVE TypeOK'
  <2>1. commission' \in CommissionRow \cup {None}
    BY <1>6, ReversalKeepsTypes DEF WriteOff
  <2> QED
    BY <1>6, <2>1 DEF WriteOff, TypeOK, OrderStatus, moneyVars, requestVars
<1>7. ASSUME Tick PROVE TypeOK'
  BY <1>7 DEF Tick, TypeOK, moneyVars, requestVars
<1> QED
  BY <1>1, <1>2, <1>3, <1>4, <1>5, <1>6, <1>7 DEF OrderSteps

LEMMA CommissionStepsKeepTypes ==
  ASSUME TypeOK, CommissionSteps PROVE TypeOK'
<1>1. ASSUME NEW st \in {"CONFIRMED", "PAID", "REJECTED"}, commission # None, Moves(st)
      PROVE  TypeOK'
  <2>1. commission \in CommissionRow
    BY <1>1 DEF TypeOK
  <2>2. commission' \in CommissionRow
    BY <1>1, <2>1 DEF Moves, CommissionRow
  <2> QED
    BY <1>1, <2>2 DEF Moves, TypeOK, moneyVars, requestVars
<1> QED
  BY <1>1 DEF CommissionSteps, ConfirmCommission, RecordPayment, RejectCommission

\* THEOREM: the rows hold what their columns can hold.
THEOREM TypesAreKept == Spec => []TypeOK
<1>1. TypeOK /\ [Next]_vars => TypeOK'
  <2> SUFFICES ASSUME TypeOK, [Next]_vars PROVE TypeOK'
    OBVIOUS
  <2>1. CASE UNCHANGED vars
    BY <2>1 DEF vars, moneyVars, requestVars, TypeOK
  <2> QED
    BY <2>1, RequestStepsKeepTypes, ReturnStepsKeepTypes, OrderStepsKeepTypes,
       CommissionStepsKeepTypes DEF Next
<1> QED
  BY InitTypes, <1>1, PTL DEF Spec

-----------------------------------------------------------------------------
(* The ceilings.  A step that books nothing, promises nothing and touches  *)
(* no request keeps them, whatever becomes of the order after the lapse.   *)

LEMMA OthersKeepDesks ==
  ASSUME TypeOK, DesksInv, UNCHANGED <<booked, requestVars>>, paid' >= paid,
         paid' \in Nat, order' = "DEPOSIT_PAID" => order = "DEPOSIT_PAID"
  PROVE  DesksInv'
<1>1. booked["ORDER"] \in Nat /\ booked["RETURN"] \in Nat
      /\ booked["REQUEST"] \in Nat /\ booked["REQUEST_FOR_RETURN"] \in Nat
      /\ promised \in Int /\ paid \in Nat
  BY RefundsAssumption, TotalIsNat DEF TypeOK, Desks
<1>2. LapseRefund \in Nat
  BY TotalIsNat
<1>3. UNCHANGED <<booked, request, promised>>
  BY DEF requestVars
<1>4. EachDeskWithinPaid'
  BY <1>1, <1>2, <1>3 DEF DesksInv, EachDeskWithinPaid, ReturnsRefunded
<1>5. LapseComesOnce'
  BY <1>3 DEF DesksInv, LapseComesOnce
<1> QED
  BY <1>4, <1>5 DEF DesksInv

\* The sums as numbers.
LEMMA SumsAreNumbers ==
  ASSUME TypeOK
  PROVE  /\ booked["ORDER"] \in Nat /\ booked["RETURN"] \in Nat
         /\ booked["REQUEST"] \in Nat /\ booked["REQUEST_FOR_RETURN"] \in Nat
         /\ promised \in Int /\ paid \in Nat /\ LapseRefund \in Nat
  BY RefundsAssumption, TotalIsNat DEF TypeOK, Desks

\* A request that ends, and one that is decided, raise no claim.
LEMMA EndsKeepDesks ==
  ASSUME TypeOK, DesksInv, NEW q \in Requests, request[q] # None,
         NEW st \in {"APPROVED", "REJECTED", "CANCELLED", "REFUNDED"},
         request' = [request EXCEPT ![q].st = st],
         UNCHANGED <<order, paid>>,
         UNCHANGED booked["ORDER"], UNCHANGED booked["RETURN"],
         booked'["REQUEST"] + booked'["REQUEST_FOR_RETURN"] + promised'
           <= booked["REQUEST"] + booked["REQUEST_FOR_RETURN"] + promised,
         booked'["REQUEST"] \in Nat, booked'["REQUEST_FOR_RETURN"] \in Nat,
         promised' \in Int
  PROVE  DesksInv'
<1>1. \A x \in Requests : /\ request'[x] # None => request[x] # None
                          /\ request[x] # None => /\ request'[x] # None
                                                  /\ request'[x].by = request[x].by
  <2> DEFINE row == [request[q] EXCEPT !.st = st]
  <2>1. request[q] \in Request
    BY DEF TypeOK
  <2>2. row \in Request /\ row.by = request[q].by
    BY <2>1 DEF Request, LiveRequest
  <2>3. request'[q] = row /\ \A x \in Requests : x # q => request'[x] = request[x]
    BY DEF TypeOK
  <2> QED
    BY <2>2, <2>3, NoneIsNoRow
<1>2. EachDeskWithinPaid'
  BY <1>1, SumsAreNumbers DEF DesksInv, EachDeskWithinPaid, ReturnsRefunded
<1>3. LapseComesOnce'
  BY <1>1 DEF DesksInv, LapseComesOnce
<1> QED
  BY <1>2, <1>3 DEF DesksInv

LEMMA RequestStepsKeepDesks ==
  ASSUME TypeOK, DesksInv, RequestSteps PROVE DesksInv'
<1> USE RefundsAssumption
<1>1. ASSUME NEW q \in Requests, NEW by \in Agents, NEW amount \in Amounts,
             NEW i \in Items \cup {None}, NEW named \in Named,
             CreateRequest(q, by, amount, i, named)
      PROVE  DesksInv'
  <2>1. /\ request[q] = None /\ request'[q].by = by
        /\ \A x \in Requests : x # q => request'[x] = request[x]
        /\ promised' = promised + amount /\ UNCHANGED <<order, booked, paid>>
        /\ Refunded + promised + amount <= paid
    BY <1>1 DEF CreateRequest, Promisable, TypeOK, moneyVars
  <2>2. EachDeskWithinPaid'
    <3>1. booked'["REQUEST"] + booked'["REQUEST_FOR_RETURN"] + promised' <= paid'
      BY <2>1, SumsAreNumbers, RefundsAssumption DEF Refunded
    <3>2. booked' = booked /\ paid' = paid
      BY <2>1
    <3> DEFINE extra == IF \E x \in Requests : request[x] # None /\ request[x].by = None
                        THEN LapseRefund ELSE 0
               third == booked["REQUEST"] + booked["REQUEST_FOR_RETURN"] + promised
    <3>3. EachDeskWithinPaid <=>
            /\ booked["ORDER"] <= paid
            /\ ReturnsRefunded - booked["REQUEST_FOR_RETURN"] <= paid
            /\ third <= paid + extra
      BY Zenon DEF EachDeskWithinPaid
    <3>4. /\ booked["ORDER"] <= paid
          /\ ReturnsRefunded - booked["REQUEST_FOR_RETURN"] <= paid
      BY <3>3 DEF DesksInv
    <3>5. third' <= paid' + extra'
      <4>1. PICK more \in Nat : more = extra'
        BY SumsAreNumbers
      <4>2. PICK top \in Int, sum \in Int : top = paid' /\ sum = third'
        BY <2>1, SumsAreNumbers, RefundsAssumption
      <4>3. sum <= top
        BY <3>1, <4>2
      <4>4. sum <= top + more
        BY <4>3
      <4> HIDE DEF third, extra
      <4> QED
        BY <4>1, <4>2, <4>4, Zenon
    <3>6. ReturnsRefunded' = ReturnsRefunded
      BY <3>2 DEF ReturnsRefunded
    <3> HIDE DEF third, extra
    <3>7. /\ booked'["ORDER"] <= paid'
          /\ ReturnsRefunded' - booked'["REQUEST_FOR_RETURN"] <= paid'
      BY <3>2, <3>4, <3>6
    <3> QED
      BY <3>5, <3>7, Zenon DEF EachDeskWithinPaid, third, extra
  <2>3. LapseComesOnce'
    BY <2>1 DEF DesksInv, LapseComesOnce
  <2> QED
    BY <2>2, <2>3 DEF DesksInv
<1>2. ASSUME NEW q \in Requests, NEW by \in Agents, NEW approved \in BOOLEAN,
             ReviewRequest(q, by, approved)
      PROVE  DesksInv'
  <2>1. request[q] # None /\ request[q].amount \in Nat
    BY <1>2 DEF ReviewRequest, TypeOK, Request
  <2>2. UNCHANGED <<order, booked, paid>>
    BY <1>2 DEF ReviewRequest, moneyVars
  <2>3. CASE approved
    BY <1>2, <2>1, <2>2, <2>3, EndsKeepDesks, SumsAreNumbers DEF ReviewRequest
  <2>4. CASE ~approved
    BY <1>2, <2>1, <2>2, <2>4, EndsKeepDesks, SumsAreNumbers DEF ReviewRequest, Ends
  <2> QED
    BY <2>3, <2>4
<1>3. ASSUME NEW q \in Requests, CancelRequest(q) PROVE DesksInv'
  <2>1. request[q] # None /\ request[q].amount \in Nat
    BY <1>3 DEF CancelRequest, TypeOK, Request
  <2>2. /\ UNCHANGED <<order, paid, booked>>
        /\ request' = [request EXCEPT ![q].st = "CANCELLED"]
        /\ promised' = promised - request[q].amount
    BY <1>3 DEF CancelRequest, Ends, moneyVars
  <2>3. promised' \in Int /\ promised' <= promised
    BY <2>1, <2>2, SumsAreNumbers
  <2>4. /\ UNCHANGED booked["ORDER"] /\ UNCHANGED booked["RETURN"]
        /\ booked'["REQUEST"] \in Nat /\ booked'["REQUEST_FOR_RETURN"] \in Nat
        /\ booked'["REQUEST"] + booked'["REQUEST_FOR_RETURN"] + promised'
             <= booked["REQUEST"] + booked["REQUEST_FOR_RETURN"] + promised
    BY <2>2, <2>3, SumsAreNumbers
  <2> QED
    BY <2>1, <2>2, <2>3, <2>4, EndsKeepDesks
<1>4. ASSUME NEW q \in Requests, NEW ref \in Receipts, CompleteRequest(q, ref)
      PROVE  DesksInv'
  <2> DEFINE amount == request[q].amount
             desk == IF request[q].item = None THEN "REQUEST" ELSE "REQUEST_FOR_RETURN"
  <2>1. request[q] # None /\ amount \in Nat
    BY <1>4 DEF CompleteRequest, TypeOK, Request
  <2>2. booked' = [booked EXCEPT ![desk] = @ + amount]
    BY <1>4 DEF CompleteRequest, Books
  <2>3. /\ UNCHANGED <<order, paid>> /\ promised' = promised - amount
        /\ request' = [request EXCEPT ![q].st = "REFUNDED"]
    BY <1>4 DEF CompleteRequest, Ends
  <2>4. /\ booked'["ORDER"] = booked["ORDER"] /\ booked'["RETURN"] = booked["RETURN"]
        /\ booked'["REQUEST"] + booked'["REQUEST_FOR_RETURN"]
             = booked["REQUEST"] + booked["REQUEST_FOR_RETURN"] + amount
        /\ booked'["REQUEST"] \in Nat /\ booked'["REQUEST_FOR_RETURN"] \in Nat
    BY <2>1, <2>2, SumsAreNumbers DEF TypeOK, Desks
  <2>5. promised' \in Int
    BY <2>1, <2>3, SumsAreNumbers
  <2> HIDE DEF amount
  <2>6. booked'["REQUEST"] + booked'["REQUEST_FOR_RETURN"] + promised'
          <= booked["REQUEST"] + booked["REQUEST_FOR_RETURN"] + promised
    BY <2>1, <2>3, <2>4, SumsAreNumbers
  <2> QED
    BY <2>1, <2>3, <2>4, <2>5, <2>6, EndsKeepDesks
<1> QED
  BY <1>1, <1>2, <1>3, <1>4 DEF RequestSteps

\* A return that is paid back by the desk stays within the payment.
LEMMA ReturnStepsKeepDesks ==
  ASSUME TypeOK, DesksInv, ReturnSteps PROVE DesksInv'
<1> SUFFICES ASSUME NEW i \in Items,
                    \/ RequestReturn(i)
                    \/ \E approved \in BOOLEAN : DecideReturn(i, approved)
                    \/ \E fit \in BOOLEAN : ReceiveReturn(i, fit)
                    \/ \E amount \in Amounts, ref \in Receipts :
                         RefundReturn(i, amount, ref)
                    \/ Restock(i)
             PROVE  DesksInv'
  BY DEF ReturnSteps
<1>1. ASSUME NEW amount \in Amounts, NEW ref \in Receipts, RefundReturn(i, amount, ref)
      PROVE  DesksInv'
  <2>1. /\ UNCHANGED <<paid, request, promised>>
        /\ booked' = [booked EXCEPT !["RETURN"] = @ + amount]
        /\ amount + ReturnsRefunded <= Least(Total, paid)
        /\ order' \in {"REFUNDED", order}
    BY <1>1 DEF RefundReturn, Books, RefundableItem, requestVars
  <2>2. Least(Total, paid) <= paid
    BY TotalIsNat, SumsAreNumbers DEF Least
  <2>3. EachDeskWithinPaid'
    BY RefundsAssumption, <2>1, <2>2, SumsAreNumbers, TotalIsNat
       DEF DesksInv, EachDeskWithinPaid, ReturnsRefunded, TypeOK, Desks, Least
  <2>4. LapseComesOnce'
    BY <2>1 DEF DesksInv, LapseComesOnce
  <2> QED
    BY <2>3, <2>4 DEF DesksInv
<1>2. ASSUME UNCHANGED <<order, moneyVars, requestVars>> PROVE DesksInv'
  BY <1>2, OthersKeepDesks, SumsAreNumbers DEF moneyVars
<1> QED
  BY <1>1, <1>2 DEF RequestReturn, DecideReturn, ReceiveReturn, Restock

LEMMA OrderStepsKeepDesks ==
  ASSUME TypeOK, DesksInv, OrderSteps PROVE DesksInv'
<1> USE RefundsAssumption, TotalIsNat
<1>1. ASSUME NEW amount \in Amounts, NEW ref \in Receipts, NEW spelling \in Spellings,
             RecordRefund(amount, ref, spelling)
      PROVE  DesksInv'
  <2>1. /\ UNCHANGED <<paid, request, promised>>
        /\ booked' = [booked EXCEPT !["ORDER"] = @ + amount]
        /\ amount <= paid - Refunded
        /\ order' \in {"REFUNDED", order}
    BY <1>1 DEF RecordRefund, Books, Recordable, requestVars
  <2>2. EachDeskWithinPaid'
    BY <2>1, SumsAreNumbers
       DEF DesksInv, EachDeskWithinPaid, Refunded, ReturnsRefunded, TypeOK, Desks
  <2>3. LapseComesOnce'
    BY <2>1 DEF DesksInv, LapseComesOnce
  <2> QED
    BY <2>2, <2>3 DEF DesksInv
<1>2. ASSUME SettleBalance PROVE DesksInv'
  <2>1. paid' = Total /\ paid <= Total /\ order' = "PAID"
        /\ UNCHANGED <<booked, requestVars>>
    BY <1>2 DEF SettleBalance, TypeOK
  <2> QED
    BY <2>1, OthersKeepDesks, SumsAreNumbers
<1>3. ASSUME NEW q \in Requests, LapseDeposit(q) PROVE DesksInv'
  <2> DEFINE back == LapsedDeposit(Total, paid).refund
  <2>1. back \in Nat /\ back <= LapseRefund
    BY SumsAreNumbers, LapseGivesBack
  <2>2. order = "DEPOSIT_PAID" /\ order' = "DEPOSIT_EXPIRED" /\ request[q] = None
        /\ UNCHANGED <<booked, paid>>
    BY <1>3 DEF LapseDeposit, moneyVars
  <2>3. CASE back = 0
    <3>1. UNCHANGED requestVars
      BY <1>3, <2>3 DEF LapseDeposit
    <3> QED
      BY <2>2, <3>1, OthersKeepDesks, SumsAreNumbers
  <2>4. CASE back # 0
    <3>1. promised' = promised + back /\ request'[q] # None /\ request'[q].by = None
      <4> DEFINE row == [st |-> "PENDING_APPROVAL", amount |-> back, item |-> None,
                         cases |-> {}, by |-> None]
      <4>1. row \in Request
        BY <2>1 DEF Request, LiveRequest
      <4>2. request' = [request EXCEPT ![q] = row] /\ promised' = promised + back
        BY <1>3, <2>1, <2>4 DEF LapseDeposit
      <4> QED
        BY <4>1, <4>2, NoneIsNoRow DEF TypeOK
    <3>2. ~\E x \in Requests : request[x] # None /\ request[x].by = None
      BY <2>2 DEF DesksInv, LapseComesOnce
    <3>3. EachDeskWithinPaid'
      BY <2>1, <2>2, <3>1, <3>2, SumsAreNumbers
         DEF DesksInv, EachDeskWithinPaid, ReturnsRefunded
    <3> QED
      BY <2>2, <3>3 DEF DesksInv, LapseComesOnce
  <2> QED
    BY <2>3, <2>4
<1>4. ASSUME UNCHANGED <<moneyVars, requestVars>>,
             order' = "DEPOSIT_PAID" => order = "DEPOSIT_PAID"
      PROVE  DesksInv'
  BY <1>4, OthersKeepDesks, SumsAreNumbers DEF moneyVars
<1> QED
  BY <1>1, <1>2, <1>3, <1>4
     DEF OrderSteps, EditCase, CompleteOrder, WriteOff, Tick

\* THEOREM: no desk alone promises or records more than was paid, except for
\* what a lapsed deposit adds.
THEOREM EachDeskIsCapped == Spec => []EachDeskWithinPaid
<1>1. Init => DesksInv
  <2> SUFFICES ASSUME Init PROVE DesksInv
    OBVIOUS
  <2>1. /\ booked["ORDER"] = 0 /\ booked["RETURN"] = 0 /\ booked["REQUEST"] = 0
        /\ booked["REQUEST_FOR_RETURN"] = 0 /\ promised = 0
        /\ \A q \in Requests : request[q] = None
    BY DEF Init, Desks
  <2>2. paid \in Nat
    BY InitTypes, SumsAreNumbers
  <2> QED
    BY <2>1, <2>2 DEF DesksInv, EachDeskWithinPaid, ReturnsRefunded, LapseComesOnce
<1>2. TypeOK /\ DesksInv /\ [Next]_vars => DesksInv'
  <2> SUFFICES ASSUME TypeOK, DesksInv, [Next]_vars PROVE DesksInv'
    OBVIOUS
  <2>1. CASE UNCHANGED vars
    BY <2>1, OthersKeepDesks, SumsAreNumbers DEF vars, moneyVars
  <2>2. CASE CommissionSteps
    BY <2>2, OthersKeepDesks, SumsAreNumbers
       DEF CommissionSteps, ConfirmCommission, RecordPayment, RejectCommission, Moves,
           moneyVars
  <2> QED
    BY <2>1, <2>2, RequestStepsKeepDesks, ReturnStepsKeepDesks, OrderStepsKeepDesks
       DEF Next
<1>3. DesksInv => EachDeskWithinPaid
  BY DEF DesksInv
<1> QED
  BY <1>1, <1>2, <1>3, TypesAreKept, PTL DEF Spec

-----------------------------------------------------------------------------
(* Paid back, and taken off.                                               *)

\* The rows of returns, by their columns.
LEMMA RowsOfReturns ==
  ASSUME TypeOK
  PROVE  /\ \A i \in Items : return[i] # None => return[i] \in Return
         /\ commission # None => commission \in CommissionRow
         /\ clock # None => clock \in Nat
         /\ Window \in Nat
  BY RefundsAssumption DEF TypeOK

\* A return that is closed takes no more money at the desk.
LEMMA ClosedTakesNoMore ==
  ASSUME TypeOK, ClosedIsPaidBack, NEW i \in Items, return[i] # None,
         return[i].st = "REFUND_RECORDED", NEW amount \in Amounts,
         RefundableItem(i, amount)
  PROVE  FALSE
<1>1. LineTotal[i] \in Nat /\ itemBack[i] \in Nat /\ amount \in Nat \ {0}
  BY RefundsAssumption DEF TypeOK
<1> QED
  BY <1>1 DEF ClosedIsPaidBack, RefundableItem

\* One return moves on.
LEMMA OneReturnIsPaidBack ==
  ASSUME TypeOK, ClosedIsPaidBack, NEW i \in Items, NEW row \in Return,
         return' = [return EXCEPT ![i] = row],
         \A x \in Items : itemBack'[x] >= itemBack[x] /\ itemBack'[x] \in Nat,
         row.st = "REFUND_RECORDED" => itemBack'[i] >= LineTotal[i],
         row.restocked => row.st = "REFUND_RECORDED"
  PROVE  ClosedIsPaidBack'
<1>1. \A x \in Items : return'[x] = IF x = i THEN row ELSE return[x]
  BY DEF TypeOK
<1>2. \A x \in Items : LineTotal[x] \in Nat /\ itemBack[x] \in Nat
  BY RefundsAssumption DEF TypeOK
<1> QED
  BY <1>1, <1>2 DEF ClosedIsPaidBack

\* Every step keeps ClosedIsPaidBack.
LEMMA NextKeepsPaidBack ==
  ASSUME TypeOK, ClosedIsPaidBack, [Next]_vars PROVE ClosedIsPaidBack'
<1> DEFINE Grows == \A x \in Items : itemBack'[x] >= itemBack[x] /\ itemBack'[x] \in Nat
<1>1. ASSUME UNCHANGED return, Grows PROVE ClosedIsPaidBack'
  <2>1. \A x \in Items : LineTotal[x] \in Nat /\ itemBack[x] \in Nat
    BY RefundsAssumption DEF TypeOK
  <2> QED
    BY <1>1, <2>1 DEF ClosedIsPaidBack
<1>2. UNCHANGED itemBack => Grows
  BY DEF TypeOK
<1>3. ASSUME NEW i \in Items, NEW amount \in Nat,
             itemBack' = [itemBack EXCEPT ![i] = @ + amount]
      PROVE  Grows
  BY <1>3 DEF TypeOK
<1>4. ASSUME NEW i \in Items, RequestReturn(i) PROVE ClosedIsPaidBack'
  <2> DEFINE row == [st |-> "REQUESTED", at |-> clock, fit |-> FALSE,
                     restocked |-> FALSE, adjusted |-> "NO"]
  <2>1. row \in Return
    BY <1>4, RowsOfReturns DEF RequestReturn, Return, OpenReturn
  <2> QED
    BY <1>2, <1>4, <2>1, OneReturnIsPaidBack DEF RequestReturn, moneyVars
<1>5. ASSUME NEW i \in Items, NEW approved \in BOOLEAN, DecideReturn(i, approved)
      PROVE  ClosedIsPaidBack'
  <2> DEFINE row == [return[i] EXCEPT !.st = IF approved THEN "APPROVED" ELSE "REJECTED"]
  <2>1. return[i] \in Return /\ return[i].st = "REQUESTED" /\ return[i] # None
    BY <1>5, RowsOfReturns DEF DecideReturn
  <2>2. row \in Return /\ row.st # "REFUND_RECORDED" /\ row.restocked = return[i].restocked
    BY <2>1 DEF Return, OpenReturn
  <2>3. return' = [return EXCEPT ![i] = row] /\ UNCHANGED itemBack
    BY <1>5 DEF DecideReturn, moneyVars
  <2> HIDE DEF row
  <2> QED
    BY <1>2, <2>1, <2>2, <2>3, OneReturnIsPaidBack DEF ClosedIsPaidBack
<1>6. ASSUME NEW i \in Items, NEW fit \in BOOLEAN, ReceiveReturn(i, fit)
      PROVE  ClosedIsPaidBack'
  <2> DEFINE row == [return[i] EXCEPT !.st = "RECEIVED", !.fit = fit]
  <2>1. return[i] \in Return /\ return[i].st = "APPROVED" /\ return[i] # None
    BY <1>6, RowsOfReturns DEF ReceiveReturn
  <2>2. row \in Return /\ row.st # "REFUND_RECORDED" /\ row.restocked = return[i].restocked
    BY <2>1 DEF Return, OpenReturn
  <2>3. return' = [return EXCEPT ![i] = row] /\ UNCHANGED itemBack
    BY <1>6 DEF ReceiveReturn, moneyVars, TypeOK
  <2> HIDE DEF row
  <2> QED
    BY <1>2, <2>1, <2>2, <2>3, OneReturnIsPaidBack DEF ClosedIsPaidBack
<1>7. ASSUME NEW i \in Items, NEW amount \in Amounts, NEW ref \in Receipts,
             RefundReturn(i, amount, ref)
      PROVE  ClosedIsPaidBack'
  <2> DEFINE adjusted == IF ~(commission # None /\ return[i].adjusted = "NO")
                         THEN return[i].adjusted
                         ELSE IF commission.st = "PAID"
                         THEN "RECOVERY_REQUIRED" ELSE "REVERSAL"
             st == IF WholeLine(i, amount) THEN "REFUND_RECORDED" ELSE "RECEIVED"
             row == [return[i] EXCEPT !.st = st, !.adjusted = adjusted]
  <2>1. return[i] \in Return /\ return[i] # None /\ RefundableItem(i, amount)
        /\ return[i].st \in {"RECEIVED", "REFUND_RECORDED"} /\ amount \in Nat
    BY <1>7, RowsOfReturns, RefundsAssumption DEF RefundReturn
  <2>2. return[i].st = "RECEIVED" /\ ~return[i].restocked
    BY <2>1, ClosedTakesNoMore DEF ClosedIsPaidBack
  <2>3. row \in Return /\ row.st = st /\ row.restocked = return[i].restocked
    BY <2>1 DEF Return, OpenReturn
  <2>4. return' = [return EXCEPT ![i] = row]
        /\ itemBack' = [itemBack EXCEPT ![i] = @ + amount]
    BY <1>7 DEF RefundReturn, TypeOK
  <2>5. st = "REFUND_RECORDED" => itemBack'[i] >= LineTotal[i]
    <3>1. itemBack'[i] = itemBack[i] + amount /\ LineTotal[i] \in Nat
      BY <2>4, RefundsAssumption DEF TypeOK
    <3> QED
      BY <3>1 DEF WholeLine
  <2> HIDE DEF row, st
  <2> QED
    BY <1>3, <2>1, <2>2, <2>3, <2>4, <2>5, OneReturnIsPaidBack
<1>8. ASSUME NEW i \in Items, Restock(i) PROVE ClosedIsPaidBack'
  <2> DEFINE row == [return[i] EXCEPT !.restocked = TRUE]
  <2>1. return[i] \in Return /\ return[i].st = "REFUND_RECORDED" /\ return[i] # None
    BY <1>8, RowsOfReturns DEF Restock
  <2>2. row \in Return /\ row.st = "REFUND_RECORDED"
    BY <2>1 DEF Return, OpenReturn
  <2>3. return' = [return EXCEPT ![i] = row] /\ UNCHANGED itemBack
    BY <1>8 DEF Restock, moneyVars
  <2> HIDE DEF row
  <2> QED
    BY <1>2, <2>1, <2>2, <2>3, OneReturnIsPaidBack DEF ClosedIsPaidBack
<1>9. ASSUME NEW q \in Requests, NEW ref \in Receipts, CompleteRequest(q, ref)
      PROVE  ClosedIsPaidBack'
  <2> DEFINE i == request[q].item
             amount == request[q].amount
  <2>1. i \in Items \cup {None} /\ amount \in Nat
    BY <1>9 DEF CompleteRequest, TypeOK, Request
  <2>2. UNCHANGED return
        /\ itemBack' = IF i = None THEN itemBack ELSE [itemBack EXCEPT ![i] = @ + amount]
    BY <1>9 DEF CompleteRequest
  <2> HIDE DEF i, amount
  <2> QED
    BY <1>1, <1>2, <1>3, <2>1, <2>2
<1>10. ASSUME UNCHANGED <<return, itemBack>> PROVE ClosedIsPaidBack'
  BY <1>1, <1>2, <1>10
<1>11. CASE RequestSteps
  BY <1>9, <1>10, <1>11
     DEF RequestSteps, CreateRequest, ReviewRequest, CancelRequest, moneyVars
<1>12. CASE ReturnSteps
  BY <1>4, <1>5, <1>6, <1>7, <1>8, <1>12 DEF ReturnSteps
<1>13. CASE OrderSteps \/ CommissionSteps \/ UNCHANGED vars
  BY <1>10, <1>13
     DEF OrderSteps, RecordRefund, EditCase, SettleBalance, LapseDeposit, CompleteOrder,
         WriteOff, Tick, CommissionSteps, ConfirmCommission, RecordPayment,
         RejectCommission, Moves, vars, moneyVars
<1> QED
  BY <1>11, <1>12, <1>13 DEF Next

\* THEOREM: a garment is restocked only when its price has been paid back.
THEOREM RestockedGarmentsArePaidBack == Spec => []RestockedIsPaidBack
<1>1. Init => ClosedIsPaidBack
  BY DEF Init, ClosedIsPaidBack
<1>2. TypeOK /\ ClosedIsPaidBack /\ [Next]_vars => ClosedIsPaidBack'
  BY NextKeepsPaidBack
<1>3. ClosedIsPaidBack => RestockedIsPaidBack
  BY DEF ClosedIsPaidBack, RestockedIsPaidBack
<1> QED
  BY <1>1, <1>2, <1>3, TypesAreKept, PTL DEF Spec

-----------------------------------------------------------------------------
(* The window: what returns and the commission do to each other.           *)

\* A step that starts no return, pays no commission and closes no return.
LEMMA OthersKeepWindow ==
  ASSUME TypeOK, WindowInv, UNCHANGED <<return, clock>>,
         order \in {"COMPLETED", "REFUNDED"} => order' \in {"COMPLETED", "REFUNDED"},
         commission' # None /\ commission'.st = "PAID" =>
           commission # None /\ commission.st = "PAID",
         commission' # None => commission # None \/ clock = None
  PROVE  WindowInv'
<1>1. CompletionComesFirst'
  BY DEF WindowInv, CompletionComesFirst
<1>2. ClosedIsAdjusted'
  BY DEF WindowInv, CompletionComesFirst, ClosedIsAdjusted
<1>3. PaidCommissionIsPastReturns'
  BY DEF WindowInv, PaidCommissionIsPastReturns
<1> QED
  BY <1>1, <1>2, <1>3 DEF WindowInv

LEMMA ReversalPaysNothing ==
  ASSUME TypeOK, ReverseCommission
  PROVE  /\ commission' # None => commission # None
         /\ commission' # None /\ commission'.st = "PAID" => commission.st = "PAID"
<1>1. CASE commission = None \/ commission.st \in {"PAID", "REJECTED"}
  BY <1>1 DEF ReverseCommission
<1>2. CASE ~(commission = None \/ commission.st \in {"PAID", "REJECTED"})
  <2>1. commission \in CommissionRow
    BY <1>2 DEF TypeOK
  <2>2. commission'.st = IF commission.st = "PENDING" THEN "REJECTED" ELSE commission.st
    BY <1>2, <2>1 DEF ReverseCommission, CommissionRow
  <2> QED
    BY <1>2, <2>2
<1> QED
  BY <1>1, <1>2

\* One return moves on; it is asked for now, or was there before.
LEMMA OneReturnKeepsWindow ==
  ASSUME TypeOK, WindowInv, NEW i \in Items, NEW row \in Return,
         return' = [return EXCEPT ![i] = row], UNCHANGED clock, clock # None,
         order' \in {"COMPLETED", "REFUNDED"},
         commission' # None <=> commission # None,
         commission # None => (commission'.st = "PAID" <=> commission.st = "PAID"),
         commission # None /\ commission.st = "PAID" /\ row.st \in OpenReturn
           => row.at = Window,
         row.adjusted = "RECOVERY_REQUIRED" => row.at = Window,
         row.st = "REFUND_RECORDED" /\ commission # None => row.adjusted # "NO"
  PROVE  WindowInv'
<1>1. \A x \in Items : return'[x] = IF x = i THEN row ELSE return[x]
  BY DEF TypeOK
<1>2. CompletionComesFirst'
  BY <1>1 DEF WindowInv, CompletionComesFirst
<1>3. ClosedIsAdjusted'
  BY <1>1 DEF WindowInv, ClosedIsAdjusted
<1>4. PaidCommissionIsPastReturns'
  BY <1>1 DEF WindowInv, PaidCommissionIsPastReturns
<1> QED
  BY <1>2, <1>3, <1>4 DEF WindowInv

LEMMA ReturnStepsKeepWindow ==
  ASSUME TypeOK, ClosedIsPaidBack, WindowInv, ReturnSteps PROVE WindowInv'
<1> SUFFICES ASSUME NEW i \in Items,
                    \/ RequestReturn(i)
                    \/ \E approved \in BOOLEAN : DecideReturn(i, approved)
                    \/ \E fit \in BOOLEAN : ReceiveReturn(i, fit)
                    \/ \E amount \in Amounts, ref \in Receipts :
                         RefundReturn(i, amount, ref)
                    \/ Restock(i)
             PROVE  WindowInv'
  BY DEF ReturnSteps
<1>1. ASSUME RequestReturn(i) PROVE WindowInv'
  <2> DEFINE row == [st |-> "REQUESTED", at |-> clock, fit |-> FALSE,
                     restocked |-> FALSE, adjusted |-> "NO"]
  <2>1. row \in Return /\ clock # None
    BY <1>1, RowsOfReturns DEF RequestReturn, Return, OpenReturn
  <2>2. commission # None /\ commission.st = "PAID" => clock = Window
    BY <1>1, RowsOfReturns DEF RequestReturn, WindowInv, CompletionComesFirst
  <2>3. UNCHANGED <<order, commission, clock>> /\ return' = [return EXCEPT ![i] = row]
        /\ order = "COMPLETED"
    BY <1>1 DEF RequestReturn
  <2>4. row.adjusted # "RECOVERY_REQUIRED" /\ row.at = clock /\ row.st = "REQUESTED"
    OBVIOUS
  <2> HIDE DEF row
  <2> QED
    BY <2>1, <2>2, <2>3, <2>4, OneReturnKeepsWindow
<1>2. ASSUME NEW approved \in BOOLEAN, DecideReturn(i, approved) PROVE WindowInv'
  <2> DEFINE row == [return[i] EXCEPT !.st = IF approved THEN "APPROVED" ELSE "REJECTED"]
  <2>1. return[i] \in Return /\ return[i].st = "REQUESTED" /\ return[i] # None
    BY <1>2, RowsOfReturns DEF DecideReturn
  <2>2. row \in Return /\ row.at = return[i].at /\ row.adjusted = return[i].adjusted
        /\ row.st # "REFUND_RECORDED"
    BY <2>1 DEF Return, OpenReturn
  <2>3. UNCHANGED <<order, commission, clock>> /\ return' = [return EXCEPT ![i] = row]
    BY <1>2 DEF DecideReturn
  <2> HIDE DEF row
  <2> QED
    BY <2>1, <2>2, <2>3, OneReturnKeepsWindow
       DEF WindowInv, CompletionComesFirst, PaidCommissionIsPastReturns, OpenReturn
<1>3. ASSUME NEW fit \in BOOLEAN, ReceiveReturn(i, fit) PROVE WindowInv'
  <2> DEFINE row == [return[i] EXCEPT !.st = "RECEIVED", !.fit = fit]
  <2>1. return[i] \in Return /\ return[i].st = "APPROVED" /\ return[i] # None
    BY <1>3, RowsOfReturns DEF ReceiveReturn
  <2>2. row \in Return /\ row.at = return[i].at /\ row.adjusted = return[i].adjusted
        /\ row.st # "REFUND_RECORDED"
    BY <2>1 DEF Return, OpenReturn
  <2>3. UNCHANGED <<order, commission, clock>> /\ return' = [return EXCEPT ![i] = row]
    BY <1>3 DEF ReceiveReturn, TypeOK
  <2> HIDE DEF row
  <2> QED
    BY <2>1, <2>2, <2>3, OneReturnKeepsWindow
       DEF WindowInv, CompletionComesFirst, PaidCommissionIsPastReturns, OpenReturn
<1>4. ASSUME NEW amount \in Amounts, NEW ref \in Receipts, RefundReturn(i, amount, ref)
      PROVE  WindowInv'
  <2> DEFINE adjust == commission # None /\ return[i].adjusted = "NO"
             st == IF WholeLine(i, amount) THEN "REFUND_RECORDED" ELSE "RECEIVED"
             adjusted == IF ~adjust THEN return[i].adjusted
                         ELSE IF commission.st = "PAID"
                         THEN "RECOVERY_REQUIRED" ELSE "REVERSAL"
             row == [return[i] EXCEPT !.st = st, !.adjusted = adjusted]
  <2>1. return[i] \in Return /\ return[i] # None
        /\ return[i].st \in {"RECEIVED", "REFUND_RECORDED"}
    BY <1>4, RowsOfReturns DEF RefundReturn
  <2>2. row \in Return /\ row.at = return[i].at /\ row.adjusted = adjusted
        /\ row.st = st
    BY <2>1 DEF Return, OpenReturn
  <2>3. UNCHANGED clock /\ return' = [return EXCEPT ![i] = row]
        /\ order' \in {"REFUNDED", order}
    BY <1>4 DEF RefundReturn, TypeOK
  <2>4. /\ commission' # None <=> commission # None
        /\ commission # None => (commission'.st = "PAID" <=> commission.st = "PAID")
    <3>1. CASE ~adjust
      BY <1>4, <3>1 DEF RefundReturn
    <3>2. CASE adjust
      <4>1. Adjust(i) /\ commission \in CommissionRow
        BY <1>4, <3>2, RowsOfReturns DEF RefundReturn
      <4>2. commission.st # "PAID" => commission'.st # "PAID"
        BY <4>1 DEF Adjust, CommissionRow
      <4>3. commission.st = "PAID" => commission' = commission
        BY <4>1 DEF Adjust
      <4>4. commission' # None
        BY <3>2, <4>1, AdjustKeepsTypes, NoneIsNoRow
      <4> QED
        BY <3>2, <4>2, <4>3, <4>4
    <3> QED
      BY <3>1, <3>2
  <2>5. commission # None /\ commission.st = "PAID" => return[i].at = Window
                                                        \/ adjusted = return[i].adjusted
    BY <2>1 DEF WindowInv, ClosedIsAdjusted, PaidCommissionIsPastReturns, OpenReturn
  <2>6. clock # None /\ order \in {"COMPLETED", "REFUNDED"}
    BY <2>1 DEF WindowInv, CompletionComesFirst
  <2>7. adjusted = "RECOVERY_REQUIRED" => return[i].at = Window
    BY <2>1, <2>5 DEF WindowInv, PaidCommissionIsPastReturns
  <2>8. st = "REFUND_RECORDED" /\ commission # None => adjusted # "NO"
    OBVIOUS
  <2>9. st \in OpenReturn /\ commission # None /\ commission.st = "PAID"
          => return[i].at = Window
    <3>1. CASE return[i].st = "RECEIVED"
      BY <2>1, <3>1 DEF WindowInv, PaidCommissionIsPastReturns, OpenReturn
    <3>2. CASE return[i].st = "REFUND_RECORDED"
      BY <1>4, <2>1, <3>2, ClosedTakesNoMore DEF RefundReturn
    <3> QED
      BY <2>1, <3>1, <3>2
  <2> HIDE DEF row, st, adjusted
  <2> QED
    BY <2>2, <2>3, <2>4, <2>6, <2>7, <2>8, <2>9, OneReturnKeepsWindow
<1>5. ASSUME Restock(i) PROVE WindowInv'
  <2> DEFINE row == [return[i] EXCEPT !.restocked = TRUE]
  <2>1. return[i] \in Return /\ return[i].st = "REFUND_RECORDED" /\ return[i] # None
    BY <1>5, RowsOfReturns DEF Restock
  <2>2. row \in Return /\ row.at = return[i].at /\ row.adjusted = return[i].adjusted
        /\ row.st = "REFUND_RECORDED"
    BY <2>1 DEF Return, OpenReturn
  <2>3. UNCHANGED <<order, commission, clock>> /\ return' = [return EXCEPT ![i] = row]
    BY <1>5 DEF Restock
  <2> HIDE DEF row
  <2> QED
    BY <2>1, <2>2, <2>3, OneReturnKeepsWindow
       DEF WindowInv, CompletionComesFirst, ClosedIsAdjusted,
           PaidCommissionIsPastReturns, OpenReturn
<1> QED
  BY <1>1, <1>2, <1>3, <1>4, <1>5

LEMMA OrderStepsKeepWindow ==
  ASSUME TypeOK, WindowInv, OrderSteps PROVE WindowInv'
<1>1. ASSUME NEW amount \in Amounts, NEW ref \in Receipts, NEW spelling \in Spellings,
             RecordRefund(amount, ref, spelling)
      PROVE  WindowInv'
  <2>1. UNCHANGED <<return, clock>> /\ order' \in {"REFUNDED", order}
        /\ (ReverseCommission \/ UNCHANGED commission)
    BY <1>1 DEF RecordRefund
  <2> QED
    BY <2>1, ReversalPaysNothing, OthersKeepWindow
<1>2. ASSUME NEW wanted \in BOOLEAN, EditCase(wanted) PROVE WindowInv'
  BY <1>2, OthersKeepWindow DEF EditCase
<1>3. ASSUME SettleBalance PROVE WindowInv'
  <2>1. clock = None
    BY <1>3 DEF SettleBalance, AwaitsBalance, WindowInv, CompletionComesFirst
  <2>2. commission'.st = "PENDING"
    BY <1>3 DEF SettleBalance, NewCommission
  <2>3. order \notin {"COMPLETED", "REFUNDED"} /\ UNCHANGED <<return, clock>>
    BY <1>3 DEF SettleBalance, AwaitsBalance
  <2> QED
    BY <2>1, <2>2, <2>3, OthersKeepWindow
<1>4. ASSUME NEW q \in Requests, LapseDeposit(q) PROVE WindowInv'
  BY <1>4, OthersKeepWindow DEF LapseDeposit
<1>5. ASSUME CompleteOrder PROVE WindowInv'
  <2>1. clock = None /\ \A i \in Items : return[i] = None
    BY <1>5 DEF CompleteOrder, WindowInv, CompletionComesFirst
  <2>2. UNCHANGED <<return, commission>> /\ order' = "COMPLETED"
    BY <1>5 DEF CompleteOrder
  <2> QED
    BY <2>1, <2>2
       DEF WindowInv, CompletionComesFirst, ClosedIsAdjusted, PaidCommissionIsPastReturns
<1>6. ASSUME WriteOff PROVE WindowInv'
  <2>1. order \notin {"COMPLETED", "REFUNDED"} /\ UNCHANGED <<return, clock>>
    BY <1>6 DEF WriteOff
  <2> QED
    BY <1>6, <2>1, ReversalPaysNothing, OthersKeepWindow DEF WriteOff
<1>7. ASSUME Tick PROVE WindowInv'
  <2>1. clock \in Nat /\ clock # None /\ clock' = clock + 1 /\ Window \in Nat
        /\ UNCHANGED <<order, return, commission>>
    BY <1>7, RowsOfReturns DEF Tick
  <2>2. clock' # None
    BY <2>1, RefundsAssumption
  <2> QED
    BY <2>1, <2>2
       DEF WindowInv, CompletionComesFirst, ClosedIsAdjusted, PaidCommissionIsPastReturns
<1> QED
  BY <1>1, <1>2, <1>3, <1>4, <1>5, <1>6, <1>7 DEF OrderSteps

LEMMA CommissionStepsKeepWindow ==
  ASSUME TypeOK, WindowInv, CommissionSteps PROVE WindowInv'
<1>1. commission # None
  BY DEF CommissionSteps, ConfirmCommission, RecordPayment, RejectCommission
<1>2. commission \in CommissionRow
  BY <1>1 DEF TypeOK
<1>3. ASSUME NEW st \in {"CONFIRMED", "REJECTED"}, Moves(st) PROVE WindowInv'
  <2>1. commission'.st = st /\ UNCHANGED <<order, return, clock>>
    BY <1>2, <1>3 DEF Moves, CommissionRow
  <2> QED
    BY <1>1, <2>1, OthersKeepWindow
<1>4. ASSUME RecordPayment PROVE WindowInv'
  <2>1. /\ UNCHANGED <<order, return, clock>>
        /\ clock # None /\ clock >= Window /\ order = "COMPLETED"
        /\ \A i \in Items : return[i] # None => return[i].st \notin OpenReturn
    BY <1>4 DEF RecordPayment, Eligible, Moves
  <2>2. ClosedIsAdjusted'
    BY <1>1, <2>1 DEF WindowInv, ClosedIsAdjusted
  <2> QED
    BY <2>1, <2>2 DEF WindowInv, CompletionComesFirst, PaidCommissionIsPastReturns
<1> QED
  BY <1>3, <1>4 DEF CommissionSteps, ConfirmCommission, RejectCommission

\* WindowInv holds of every reachable state.
LEMMA WindowHolds == Spec => []WindowInv
<1>1. Init => WindowInv
  BY DEF Init, WindowInv, CompletionComesFirst, ClosedIsAdjusted,
         PaidCommissionIsPastReturns, NewCommission
<1>2. TypeOK /\ ClosedIsPaidBack /\ WindowInv /\ [Next]_vars => WindowInv'
  <2> SUFFICES ASSUME TypeOK, ClosedIsPaidBack, WindowInv, [Next]_vars PROVE WindowInv'
    OBVIOUS
  <2>1. CASE RequestSteps
    <3>1. UNCHANGED <<order, return, commission, clock>>
      BY <2>1 DEF RequestSteps, CreateRequest, ReviewRequest, CancelRequest,
                  CompleteRequest
    <3> QED
      BY <3>1, OthersKeepWindow
  <2>2. CASE UNCHANGED vars
    BY <2>2, OthersKeepWindow DEF vars
  <2> QED
    BY <2>1, <2>2, ReturnStepsKeepWindow, OrderStepsKeepWindow, CommissionStepsKeepWindow
       DEF Next
<1>3. Init => ClosedIsPaidBack
  BY DEF Init, ClosedIsPaidBack
<1>4. TypeOK /\ ClosedIsPaidBack /\ [Next]_vars => ClosedIsPaidBack'
  BY NextKeepsPaidBack
<1> QED
  BY <1>1, <1>2, <1>3, <1>4, TypesAreKept, PTL DEF Spec

\* Once the commission is paid, a return can only have been asked for in the last
\* tick of the window.
THEOREM PaymentIsPastReturns == Spec => []PaidCommissionIsPastReturns
<1>1. WindowInv => PaidCommissionIsPastReturns
  BY DEF WindowInv
<1> QED
  BY <1>1, WindowHolds, PTL

-----------------------------------------------------------------------------
(* The commission.                                                         *)

\* What is taken off is counted as reversed.
LEMMA AdjustConserves ==
  ASSUME TypeOK, CommissionIsConserved, NEW i \in Items, commission # None, Adjust(i)
  PROVE  CommissionIsConserved'
<1>1. commission \in CommissionRow /\ Original \in Nat
  BY DEF TypeOK, CommissionRow, Original
<1>2. Share(Original, i) \in Nat
  BY <1>1, ShareIsNat
<1>3. CASE commission.st = "PAID"
  BY <1>3 DEF Adjust, CommissionIsConserved
<1>4. CASE commission.st # "PAID"
  <2>1. /\ commission'.amount = commission.amount - Share(Original, i)
        /\ commission'.reversed = commission.reversed + Share(Original, i)
    BY <1>1, <1>4 DEF Adjust, CommissionRow
  <2>2. commission.amount \in Nat /\ commission.reversed \in Nat
    BY <1>1 DEF CommissionRow
  <2> QED
    BY <1>2, <2>1, <2>2 DEF CommissionIsConserved
<1> QED
  BY <1>3, <1>4

\* A step that keeps both amounts keeps their sum ...
LEMMA AmountsKeptConserve ==
  ASSUME TypeOK, CommissionIsConserved, commission # None,
         NEW st, NEW hold, commission' = [commission EXCEPT !.st = st, !.hold = hold]
  PROVE  CommissionIsConserved'
  BY DEF TypeOK, CommissionRow, CommissionIsConserved

\* ... as the closing of the order does.
LEMMA ReversalConserves ==
  ASSUME TypeOK, CommissionIsConserved, ReverseCommission
  PROVE  CommissionIsConserved'
<1>1. CASE commission = None \/ commission.st \in {"PAID", "REJECTED"}
  BY <1>1 DEF ReverseCommission, CommissionIsConserved
<1>2. CASE ~(commission = None \/ commission.st \in {"PAID", "REJECTED"})
  BY <1>2 DEF ReverseCommission, TypeOK, CommissionRow, CommissionIsConserved
<1> QED
  BY <1>1, <1>2

\* What was taken off the commission and what is left of it are what
\* the order earned; no return takes a share that is not there.
THEOREM CommissionIsNeverLost == Spec => []CommissionIsConserved
<1>1. Init => CommissionIsConserved
  BY TotalIsNat DEF Init, CommissionIsConserved, NewCommission
<1>2. TypeOK /\ CommissionIsConserved /\ [Next]_vars => CommissionIsConserved'
  <2> SUFFICES ASSUME TypeOK, CommissionIsConserved, [Next]_vars
               PROVE  CommissionIsConserved'
    OBVIOUS
  <2>1. ASSUME UNCHANGED commission PROVE CommissionIsConserved'
    BY <2>1 DEF CommissionIsConserved
  <2>2. ASSUME NEW i \in Items, NEW amount \in Amounts, NEW ref \in Receipts,
               RefundReturn(i, amount, ref)
        PROVE  CommissionIsConserved'
    <3>1. (Adjust(i) /\ commission # None) \/ UNCHANGED commission
      BY <2>2 DEF RefundReturn
    <3> QED
      BY <2>1, <3>1, AdjustConserves
  <2>3. ASSUME NEW st \in {"CONFIRMED", "PAID", "REJECTED"}, commission # None, Moves(st)
        PROVE  CommissionIsConserved'
    BY <2>3, AmountsKeptConserve DEF Moves
  <2>4. ASSUME SettleBalance PROVE CommissionIsConserved'
    BY <2>4, TotalIsNat DEF SettleBalance, NewCommission, CommissionIsConserved
  <2>5. CASE RequestSteps
    BY <2>1, <2>5 DEF RequestSteps, CreateRequest, ReviewRequest, CancelRequest,
                      CompleteRequest
  <2>6. CASE ReturnSteps
    BY <2>1, <2>2, <2>6 DEF ReturnSteps, RequestReturn, DecideReturn, ReceiveReturn,
                            Restock
  <2>7. CASE OrderSteps
    BY <2>1, <2>4, <2>7, ReversalConserves
       DEF OrderSteps, RecordRefund, EditCase, LapseDeposit, CompleteOrder, WriteOff, Tick
  <2>8. CASE CommissionSteps
    BY <2>3, <2>8
       DEF CommissionSteps, ConfirmCommission, RecordPayment, RejectCommission
  <2>9. CASE UNCHANGED vars
    BY <2>1, <2>9 DEF vars
  <2> QED
    BY <2>5, <2>6, <2>7, <2>8, <2>9 DEF Next
<1> QED
  BY <1>1, <1>2, TypesAreKept, PTL DEF Spec

-----------------------------------------------------------------------------
(* The largest-remainder shares.                                           *)

\* The division of an item's part, with its remainder.
LEMMA FloorAndRemainder ==
  ASSUME NEW amount \in Nat, NEW i \in Items
  PROVE  /\ Floor(amount, i) \in Nat /\ Remainder(amount, i) \in 0..(Subtotal - 1)
         /\ amount * LineTotal[i] = Subtotal * Floor(amount, i) + Remainder(amount, i)
<1>1. LineTotal[i] \in Nat
  BY RefundsAssumption
<1>2. PICK product \in Nat : product = amount * LineTotal[i]
  BY <1>1
<1>3. PICK s \in Nat \ {0} : s = Subtotal
  BY TotalIsNat
<1>4. product \div s \in Nat /\ product % s \in 0..(s - 1)
      /\ product = s * (product \div s) + (product % s)
  OBVIOUS
<1> QED BY <1>2, <1>3, <1>4 DEF Floor, Remainder

\* What the floors leave of the amount is at most one for each item.
LEMMA FloorsLeaveOneEach ==
  ASSUME NEW amount \in Nat
  PROVE  Left(amount) \in 0..Cardinality(Items)
<1> DEFINE floors == [i \in Items |-> Floor(amount, i)]
           rests == [i \in Items |-> Remainder(amount, i)]
<1>1. IsFiniteSet(Items) /\ Cardinality(Items) \in Nat /\ DOMAIN LineTotal = Items
  BY RefundsAssumption, FS_CardinalityType
<1>2. PICK s \in Nat \ {0} : s = Subtotal
  BY TotalIsNat
<1>3. PICK n \in Nat : n = Cardinality(Items)
  BY <1>1
<1>4. \A i \in Items : /\ LineTotal[i] \in Int /\ floors[i] \in Int /\ rests[i] \in Int
                       /\ amount * LineTotal[i] = s * floors[i] + rests[i]
                       /\ rests[i] \in 0..(s - 1)
  BY <1>2, RefundsAssumption, FloorAndRemainder
<1>5. PICK whole \in Int : whole = SumFunctionOnSet(floors, Items)
  <2> HIDE DEF floors
  <2> QED BY <1>1, <1>4, SumWithout
<1>6. PICK rest \in Int : rest = SumFunctionOnSet(rests, Items)
  <2> HIDE DEF rests
  <2> QED BY <1>1, <1>4, SumWithout
<1>7. amount * s = s * whole + rest
  <2>1. SumFunctionOnSet(LineTotal, Items) = s
    BY <1>1, <1>2 DEF Subtotal, SumFunction
  <2> HIDE DEF floors, rests
  <2>2. \A i \in Items : LineTotal[i] \in Int /\ floors[i] \in Int /\ rests[i] \in Int
                         /\ amount * LineTotal[i] = s * floors[i] + rests[i]
    BY <1>4
  <2>3. amount \in Int /\ s \in Int
    OBVIOUS
  <2>4. amount * SumFunctionOnSet(LineTotal, Items)
          = s * SumFunctionOnSet(floors, Items) + SumFunctionOnSet(rests, Items)
    BY <1>1, <2>2, <2>3, SumsAreLinear
  <2> QED BY <1>5, <1>6, <2>1, <2>4
<1>8. rest \in 0..((s - 1) * n)
  <2>1. PICK c \in Nat : c = s - 1
    OBVIOUS
  <2>2. \A i \in Items : rests[i] \in 0..c
    BY <1>4, <2>1
  <2> HIDE DEF rests
  <2>3. SumFunctionOnSet(rests, Items) \in 0..(c * Cardinality(Items))
    BY <1>1, <2>2, SumIsBounded
  <2> QED BY <1>3, <1>6, <2>1, <2>3
<1>9. PICK left \in Int : left = amount - whole
  BY <1>5
<1>10. s * left = rest
  <2>1. s * (amount - whole) = s * amount - s * whole /\ s * amount = amount * s
    BY <1>5
  <2>2. s * amount \in Int /\ s * whole \in Int
    OBVIOUS
  <2> QED BY <1>7, <1>9, <2>1, <2>2
<1>11. left >= 0
  <2> SUFFICES ASSUME left <= -1 PROVE FALSE
    OBVIOUS
  <2>1. s * left <= s * (-1)
    OBVIOUS
  <2> QED BY <1>8, <1>10, <2>1
<1>12. left <= n
  <2> SUFFICES ASSUME left >= n + 1 PROVE FALSE
    OBVIOUS
  <2>1. s * left >= s * (n + 1) /\ s * (n + 1) = s * n + s /\ (s - 1) * n = s * n - n
    OBVIOUS
  <2>2. s * n \in Nat
    OBVIOUS
  <2> QED BY <1>8, <1>10, <2>1, <2>2
<1>13. Left(amount) = left
  <2>1. SumFunction(floors) = SumFunctionOnSet(floors, Items)
    BY DEF SumFunction
  <2> QED BY <1>5, <1>9, <2>1 DEF Left
<1> QED BY <1>3, <1>9, <1>11, <1>12, <1>13

\* Each item has a rank of its own.
LEMMA RanksAreDistinct ==
  ASSUME NEW amount \in Nat
  PROVE  /\ \A i \in Items : Rank(amount, i) \in 0..(Cardinality(Items) - 1)
         /\ \A i, j \in Items : Rank(amount, i) = Rank(amount, j) => i = j
<1> DEFINE Ahead(i) == {j \in Items : Before(amount, j, i)}
<1>1. IsFiniteSet(Items) /\ Cardinality(Items) \in Nat
  BY RefundsAssumption, FS_CardinalityType
<1>2. \A i \in Items : i \in Nat /\ Remainder(amount, i) \in Nat
  BY RefundsAssumption, FloorAndRemainder, TotalIsNat
<1>3. ASSUME NEW i \in Items
      PROVE  /\ IsFiniteSet(Ahead(i)) /\ Rank(amount, i) = Cardinality(Ahead(i))
             /\ Rank(amount, i) \in Nat /\ i \notin Ahead(i)
    <2>1. IsFiniteSet(Ahead(i))
      BY <1>1, FS_Subset
    <2>2. Cardinality(Ahead(i)) \in Nat
      BY <2>1, FS_CardinalityType
    <2>3. i \notin Ahead(i)
      BY <1>2 DEF Before
    <2> QED BY <2>1, <2>2, <2>3 DEF Rank
<1>4. ASSUME NEW i \in Items PROVE Rank(amount, i) < Cardinality(Items)
  <2>1. Ahead(i) \in SUBSET Items /\ Ahead(i) # Items
    BY <1>3
  <2> HIDE DEF Ahead
  <2> QED BY <1>1, <1>3, <2>1, FS_Subset
<1>5. ASSUME NEW i \in Items, NEW j \in Items, Before(amount, i, j)
      PROVE  Rank(amount, i) < Rank(amount, j)
  <2>1. Ahead(i) \subseteq Ahead(j)
    BY <1>2, <1>5 DEF Before
  <2>2. i \in Ahead(j) /\ i \notin Ahead(i)
    BY <1>3, <1>5
  <2> HIDE DEF Ahead
  <2> QED BY <1>3, <2>1, <2>2, FS_Subset
<1>6. ASSUME NEW i \in Items, NEW j \in Items, i # j
      PROVE  Before(amount, i, j) \/ Before(amount, j, i)
  BY <1>2, <1>6 DEF Before
<1>7. ASSUME NEW i \in Items, NEW j \in Items, Rank(amount, i) = Rank(amount, j)
      PROVE  i = j
  <2>1. PICK a \in Nat : a = Rank(amount, i)
    BY <1>3
  <2>2. ~(a < a)
    BY <2>1
  <2> QED BY <1>5, <1>6, <1>7, <2>1, <2>2
<1>8. ASSUME NEW i \in Items PROVE Rank(amount, i) \in 0..(Cardinality(Items) - 1)
  <2>1. PICK a \in Nat, n \in Nat : a = Rank(amount, i) /\ n = Cardinality(Items)
    BY <1>1, <1>3
  <2>2. a < n
    BY <1>4, <2>1
  <2>3. a \in 0..(n - 1)
    BY <2>2
  <2> QED BY <2>1, <2>3
<1> HIDE DEF Ahead
<1> QED BY <1>7, <1>8

\* So there are k items of a rank below k.
LEMMA FirstRanks ==
  ASSUME NEW amount \in Nat, NEW k \in 0..Cardinality(Items)
  PROVE  Cardinality({i \in Items : Rank(amount, i) < k}) = k
<1>1. IsFiniteSet(Items)
  BY RefundsAssumption
<1>2. PICK n \in Nat : n = Cardinality(Items)
  BY <1>1, FS_CardinalityType
<1> DEFINE rank == [i \in Items |-> Rank(amount, i)]
           first == {i \in Items : Rank(amount, i) < k}
           below == [i \in first |-> Rank(amount, i)]
<1>3. \A i \in Items : rank[i] \in 0..(n - 1)
  BY <1>2, RanksAreDistinct
<1>4. rank \in Injection(Items, 0..(n - 1))
  <2>1. rank \in [Items -> 0..(n - 1)]
    BY <1>3
  <2>2. \A i, j \in Items : rank[i] = rank[j] => i = j
    BY RanksAreDistinct
  <2> HIDE DEF rank
  <2> QED BY <2>1, <2>2, Fun_IsInj
<1>5. IsFiniteSet(0..(n - 1)) /\ Cardinality(0..(n - 1)) = n
  BY FS_Interval
<1>6. rank \in Surjection(Items, 0..(n - 1))
  BY <1>2, <1>4, <1>5, FS_Injection
<1>61. \A t \in 0..(n - 1) : \E i \in Items : rank[i] = t
  <2> HIDE DEF rank
  <2>1. PICK ranks : ranks = rank
    OBVIOUS
  <2>2. ranks \in Surjection(Items, 0..(n - 1))
    BY <1>6, <2>1
  <2>3. \A t \in 0..(n - 1) : \E i \in Items : ranks[i] = t
    BY <2>2, Fun_SurjectionProperties, Zenon
  <2> QED BY <2>1, <2>3
<1>7. IsFiniteSet(first) /\ k \in Nat
  BY <1>1, <1>2, FS_Subset
<1>8. IsFiniteSet(0..(k - 1)) /\ Cardinality(0..(k - 1)) = k
  BY <1>7, FS_Interval
<1>9. below \in [first -> 0..(k - 1)]
  BY <1>3, <1>7
<1>10. \A i, j \in first : below[i] = below[j] => i = j
  BY RanksAreDistinct
<1>11. \A t \in 0..(k - 1) : \E i \in first : below[i] = t
  <2> SUFFICES ASSUME NEW t \in 0..(k - 1) PROVE \E i \in first : below[i] = t
    OBVIOUS
  <2>1. t \in 0..(n - 1)
    BY <1>2, <1>7
  <2>2. PICK i \in Items : rank[i] = t
    BY <1>61, <2>1
  <2>3. i \in first /\ below[i] = t
    BY <1>7, <2>2
  <2> QED BY <2>3
<1>12. below \in Bijection(first, 0..(k - 1))
  <2> HIDE DEF below, first
  <2> QED BY <1>9, <1>10, <1>11, Fun_IsBij
<1>13. ExistsBijection(first, 0..(k - 1))
  BY <1>12 DEF ExistsBijection
<1> HIDE DEF first
<1>14. Cardinality(0..(k - 1)) = Cardinality(first)
  BY <1>7, <1>13, FS_Bijection
<1> QED BY <1>8, <1>14 DEF first

\* The largest-remainder shares of the items of an order add up to the amount that
\* is split, whatever the prices and in whatever order sums are taken: no shilling is
\* lost or made by the rounding.
THEOREM SharesAddUp ==
  ASSUME NEW amount \in Nat
  PROVE  SumFunctionOnSet([i \in Items |-> Share(amount, i)], Items) = amount
<1> DEFINE floors == [i \in Items |-> Floor(amount, i)]
           shares == [i \in Items |-> Share(amount, i)]
           first == {i \in Items : Rank(amount, i) < Left(amount)}
<1>1. IsFiniteSet(Items)
  BY RefundsAssumption
<1>2. \A i \in Items : floors[i] \in Int
                       /\ shares[i] = floors[i] + (IF i \in first THEN 1 ELSE 0)
  BY FloorAndRemainder DEF Share
<1>3. first \in SUBSET Items
  OBVIOUS
<1>4. Cardinality(first) = Left(amount) /\ Left(amount) \in Int
  BY FloorsLeaveOneEach, FirstRanks, <1>1, FS_CardinalityType
<1>5. SumFunctionOnSet(floors, Items) \in Int
  <2> HIDE DEF floors
  <2> QED BY <1>1, <1>2, SumWithout
<1>6. Left(amount) = amount - SumFunctionOnSet(floors, Items)
  BY DEF Left, SumFunction
<1>7. SumFunctionOnSet(shares, Items) = SumFunctionOnSet(floors, Items) + Cardinality(first)
  <2> HIDE DEF floors, shares, first
  <2> QED BY <1>1, <1>2, <1>3, SumCounts
<1> QED BY <1>4, <1>5, <1>6, <1>7

-----------------------------------------------------------------------------
(* The commission follows the returns.                                     *)

Shares == [i \in Items |-> Share(Commission, i)]

\* The items that were not taken off the commission.
Kept == {i \in Items : return[i] # None => return[i].adjusted # "REVERSAL"}

\* The sum of any of the shares is a number, and loses what is taken out.
LEMMA SumOfShares ==
  ASSUME NEW kept \in SUBSET Items
  PROVE  /\ SumFunctionOnSet(Shares, {}) = 0
         /\ SumFunctionOnSet(Shares, kept) \in Int
         /\ \A i \in kept : SumFunctionOnSet(Shares, kept)
                = Share(Commission, i) + SumFunctionOnSet(Shares, kept \ {i})
         /\ \A i \in kept : SumFunctionOnSet(Shares, kept \ {i}) \in Int
<1>1. IsFiniteSet(kept) /\ \A i \in kept : IsFiniteSet(kept \ {i})
  BY RefundsAssumption, FS_Subset
<1>2. \A i \in Items : Shares[i] = Share(Commission, i) /\ Shares[i] \in Int
  BY ShareIsNat, TotalIsNat DEF Shares
<1>3. SumFunctionOnSet(Shares, {}) = 0
  BY SumUnfolds, FS_EmptySet
<1>4. \A s \in SUBSET kept : /\ IsFiniteSet(s)
                            /\ \A i \in s : Shares[i] \in Int
  BY <1>1, <1>2, FS_Subset
<1>5. \A s \in SUBSET kept : SumFunctionOnSet(Shares, s) \in Int
  BY <1>4, SumWithout
<1>6. \A i \in kept : SumFunctionOnSet(Shares, kept)
                       = Shares[i] + SumFunctionOnSet(Shares, kept \ {i})
  BY <1>4, SumWithout
<1> QED BY <1>2, <1>3, <1>5, <1>6

\* The property, by the names of its parts.
LEMMA FollowingReads ==
  /\ CommissionFollowsReturns <=>
       (commission # None =>
          /\ commission.amount = SumFunctionOnSet(Shares, Kept)
          /\ Kept = {} => commission.st = "REJECTED")
  /\ CommissionFollowsReturns' <=>
       (commission' # None =>
          /\ commission'.amount = SumFunctionOnSet(Shares, Kept')
          /\ Kept' = {} => commission'.st = "REJECTED")
BY DEF CommissionFollowsReturns, Shares, Kept

\* A step that takes off no share, and revives no rejected commission.
LEMMA OthersFollow ==
  ASSUME CommissionFollowsReturns, Kept' = Kept,
         commission # None =>
           /\ commission' # None
           /\ commission'.amount = commission.amount
           /\ commission.st = "REJECTED" => commission'.st = "REJECTED",
         commission = None => commission' = None
  PROVE  CommissionFollowsReturns'
BY FollowingReads

\* A commission that the order has just earned is that of all its items, of which there
\* is one.
LEMMA NewCommissionFollows ==
  ASSUME Kept = Items
  PROVE  NewCommission.amount = SumFunctionOnSet(Shares, Kept) /\ Kept # {}
<1>1. SumFunctionOnSet(Shares, Items) = Commission
  BY SharesAddUp, TotalIsNat DEF Shares
<1>2. Items # {}
  <2> SUFFICES ASSUME Items = {} PROVE FALSE
    OBVIOUS
  <2>1. DOMAIN LineTotal = {}
    BY RefundsAssumption
  <2>2. Subtotal = 0
    BY <2>1, SumUnfolds, FS_EmptySet DEF Subtotal, SumFunction
  <2> QED BY <2>2, TotalIsNat
<1> QED BY <1>1, <1>2 DEF NewCommission

\* A share that is taken off is one of those that were there, and when it is the
\* last, nothing is left to pay.
LEMMA AdjustFollows ==
  ASSUME TypeOK, CommissionIsConserved, CommissionFollowsReturns, commission # None,
         commission.st # "PAID", NEW i \in Items, i \in Kept, Adjust(i),
         Kept' = Kept \ {i}, commission' # None
  PROVE  CommissionFollowsReturns'
<1>1. commission \in CommissionRow /\ Original = Commission
  BY DEF TypeOK, CommissionIsConserved, Original
<1>2. PICK share \in Nat : share = Share(Commission, i)
  BY ShareIsNat, TotalIsNat
<1>3. PICK less \in Int : less = commission.amount - share
  BY <1>1 DEF CommissionRow
<1>4. /\ commission'.amount = less
      /\ less = 0 => commission'.st = "REJECTED"
  BY <1>1, <1>2, <1>3 DEF Adjust, CommissionRow
<1>5. Kept \in SUBSET Items
  BY DEF Kept
<1>6. PICK rest \in Int : rest = SumFunctionOnSet(Shares, Kept \ {i})
  BY <1>5, SumOfShares
<1>7. commission.amount = share + rest
  BY <1>2, <1>5, <1>6, SumOfShares, FollowingReads
<1>8. less = rest
  BY <1>2, <1>3, <1>6, <1>7
<1>9. Kept \ {i} = {} => rest = 0
  BY <1>5, <1>6, SumOfShares
<1> QED BY <1>4, <1>6, <1>8, <1>9, FollowingReads

\* Marking one return.
LEMMA MarkingKeeps ==
  ASSUME TypeOK, NEW i \in Items, NEW row, row # None, return' = [return EXCEPT ![i] = row]
  PROVE  Kept' = IF row.adjusted # "REVERSAL" THEN Kept \cup {i} ELSE Kept \ {i}
BY DEF TypeOK, Kept

\* A refund of a return takes the share of its item off, or nothing.
LEMMA RefundFollows ==
  ASSUME TypeOK, CommissionIsConserved, CommissionFollowsReturns,
         NEW i \in Items, NEW amount, NEW ref, RefundReturn(i, amount, ref)
  PROVE  CommissionFollowsReturns'
<1> DEFINE adjust == commission # None /\ return[i].adjusted = "NO"
           st == IF WholeLine(i, amount) THEN "REFUND_RECORDED" ELSE "RECEIVED"
           adjusted == IF ~adjust THEN return[i].adjusted
                       ELSE IF commission.st = "PAID" THEN "RECOVERY_REQUIRED"
                       ELSE "REVERSAL"
           row == [return[i] EXCEPT !.st = st, !.adjusted = adjusted]
<1>1. return[i] \in Return /\ return[i] # None
  BY DEF RefundReturn, TypeOK
<1>2. /\ return' = [return EXCEPT ![i].st = st, ![i].adjusted = adjusted]
      /\ IF adjust THEN Adjust(i) ELSE UNCHANGED commission
  BY DEF RefundReturn
<1>3. st \in {"REFUND_RECORDED", "RECEIVED"}
  OBVIOUS
<1>4. adjusted \in {"NO", "REVERSAL", "RECOVERY_REQUIRED"}
  BY <1>1 DEF Return
<1>5. row \in Return /\ row.adjusted = adjusted
  <2> HIDE DEF st, adjusted
  <2> QED BY <1>1, <1>3, <1>4 DEF Return, OpenReturn
<1>6. return' = [return EXCEPT ![i] = row]
  <2> HIDE DEF st, adjusted
  <2> QED BY <1>2 DEF TypeOK
<1>7. Kept' = IF adjusted # "REVERSAL" THEN Kept \cup {i} ELSE Kept \ {i}
  <2>1. PICK r : r = row
    OBVIOUS
  <2> HIDE DEF row, adjusted
  <2>2. r # None /\ return' = [return EXCEPT ![i] = r] /\ r.adjusted = adjusted
    BY <1>5, <1>6, <2>1, NoneIsNoRow
  <2> QED BY <2>2, MarkingKeeps
<1>8. i \in Kept <=> return[i].adjusted # "REVERSAL"
  BY <1>1 DEF Kept
<1>9. CASE adjust /\ commission.st # "PAID"
  <2>1. Adjust(i) /\ i \in Kept /\ Kept' = Kept \ {i}
    BY <1>2, <1>7, <1>8, <1>9
  <2>2. commission' # None
    BY <1>9, <2>1, AdjustKeepsTypes, NoneIsNoRow
  <2> QED BY <1>9, <2>1, <2>2, AdjustFollows
<1>10. CASE ~(adjust /\ commission.st # "PAID")
  <2>1. UNCHANGED commission
    BY <1>2, <1>10 DEF Adjust
  <2>2. Kept' = Kept
    BY <1>7, <1>8, <1>10
  <2> QED BY <2>1, <2>2, OthersFollow
<1> QED BY <1>9, <1>10

\* Returns that are asked for, decided, received and restocked take off nothing.
LEMMA ReturnStepsFollow ==
  ASSUME TypeOK, CommissionIsConserved, CommissionFollowsReturns, ReturnSteps
  PROVE  CommissionFollowsReturns'
<1>1. PICK i \in Items : \/ RequestReturn(i)
                         \/ \E approved \in BOOLEAN : DecideReturn(i, approved)
                         \/ \E fit \in BOOLEAN : ReceiveReturn(i, fit)
                         \/ \E amount \in Amounts, ref \in Receipts :
                              RefundReturn(i, amount, ref)
                         \/ Restock(i)
  BY DEF ReturnSteps
<1>2. CASE \E amount \in Amounts, ref \in Receipts : RefundReturn(i, amount, ref)
  BY <1>2, RefundFollows
<1>3. CASE RequestReturn(i)
  <2>1. /\ return[i] = None /\ UNCHANGED commission
        /\ \A j \in Items : j # i => return'[j] = return[j]
        /\ return'[i].adjusted = "NO"
    BY <1>3 DEF RequestReturn, TypeOK
  <2>2. Kept' = Kept
    BY <2>1 DEF Kept
  <2> QED BY <2>1, <2>2, OthersFollow
<1>4. CASE \/ \E approved \in BOOLEAN : DecideReturn(i, approved)
           \/ \E fit \in BOOLEAN : ReceiveReturn(i, fit)
           \/ Restock(i)
  <2>1. /\ return[i] \in Return /\ return[i] # None /\ UNCHANGED commission
        /\ \A j \in Items : j # i => return'[j] = return[j]
        /\ return'[i].adjusted = return[i].adjusted
    BY <1>4 DEF DecideReturn, ReceiveReturn, Restock, TypeOK, Return
  <2>2. return'[i] # None
    <3>1. return'[i] \in Return
      <4>1. CASE \E approved \in BOOLEAN : DecideReturn(i, approved)
        BY <2>1, <4>1 DEF DecideReturn, TypeOK, Return, OpenReturn
      <4>2. CASE \E fit \in BOOLEAN : ReceiveReturn(i, fit)
        <5>1. PICK fit \in BOOLEAN : ReceiveReturn(i, fit)
          BY <4>2
        <5> DEFINE row == [return[i] EXCEPT !.st = "RECEIVED", !.fit = fit]
        <5>2. row \in Return
          BY <2>1 DEF Return, OpenReturn
        <5>3. return'[i] = row
          BY <5>1 DEF ReceiveReturn, TypeOK
        <5> QED BY <5>2, <5>3
      <4>3. CASE Restock(i)
        BY <2>1, <4>3 DEF Restock, TypeOK, Return, OpenReturn
      <4> QED BY <1>4, <4>1, <4>2, <4>3
    <3> QED BY <3>1, NoneIsNoRow
  <2>3. Kept' = Kept
    BY <2>1, <2>2 DEF Kept
  <2> QED BY <2>1, <2>3, OthersFollow
<1> QED BY <1>1, <1>2, <1>3, <1>4

\* The order's other steps.  Its commission is new only when its balance comes, and
\* then no return was asked for yet.
LEMMA OrderStepsFollow ==
  ASSUME TypeOK, WindowInv, CommissionFollowsReturns, OrderSteps
  PROVE  CommissionFollowsReturns'
<1>1. UNCHANGED return
  BY DEF OrderSteps, RecordRefund, EditCase, SettleBalance, LapseDeposit, CompleteOrder,
     WriteOff, Tick
<1>2. Kept' = Kept
  BY <1>1 DEF Kept
<1>3. CASE UNCHANGED commission
  BY <1>2, <1>3, OthersFollow
<1>4. CASE ReverseCommission
  <2>1. commission = None \/ commission \in CommissionRow
    BY DEF TypeOK
  <2>2. CASE commission = None
    BY <1>3, <1>4, <2>2 DEF ReverseCommission
  <2>3. CASE commission \in CommissionRow
    <3>1. commission' \in CommissionRow
      BY <1>4, <2>3 DEF ReverseCommission, CommissionRow
    <3>2. /\ commission'.amount = commission.amount
          /\ commission.st = "REJECTED" => commission'.st = "REJECTED"
      BY <1>4, <2>3 DEF ReverseCommission, CommissionRow
    <3> QED BY <1>2, <2>3, <3>1, <3>2, NoneIsNoRow, OthersFollow
  <2> QED BY <2>1, <2>2, <2>3
<1>5. CASE SettleBalance
  <2>1. /\ order \in {"DEPOSIT_PAID", "DEPOSIT_EXPIRED"} /\ commission' = NewCommission
    BY <1>5 DEF SettleBalance, AwaitsBalance
  <2>2. Kept = Items
    BY <2>1 DEF WindowInv, CompletionComesFirst, Kept
  <2> QED BY <1>2, <2>1, <2>2, NewCommissionFollows, FollowingReads
<1> QED
  BY <1>3, <1>4, <1>5
     DEF OrderSteps, RecordRefund, EditCase, LapseDeposit, CompleteOrder, WriteOff, Tick

\* Neither paying a commission nor rejecting it changes its amount.
LEMMA CommissionStepsFollow ==
  ASSUME TypeOK, CommissionFollowsReturns, CommissionSteps
  PROVE  CommissionFollowsReturns'
<1>1. /\ commission \in CommissionRow /\ UNCHANGED return
      /\ commission' \in CommissionRow /\ commission'.amount = commission.amount
      /\ commission.st = "REJECTED" => commission'.st = "REJECTED"
  BY NoneIsNoRow DEF TypeOK, CommissionSteps, ConfirmCommission, RecordPayment,
     RejectCommission, Moves, CommissionRow
<1>2. Kept' = Kept
  BY <1>1 DEF Kept
<1> QED BY <1>1, <1>2, NoneIsNoRow, OthersFollow

\* What is left of a commission is, to the shilling, the shares of the items whose
\* returns took nothing off it: the largest-remainder shares add up to what was
\* earned, none is taken twice, and when all are gone nothing is left to pay.
THEOREM CommissionIsOfKeptItems == Spec => []CommissionFollowsReturns
<1>1. Init => CommissionFollowsReturns
  <2> SUFFICES ASSUME Init PROVE CommissionFollowsReturns
    OBVIOUS
  <2>1. Kept = Items
    BY DEF Init, Kept
  <2> QED BY <2>1, NewCommissionFollows, FollowingReads DEF Init
<1>2. TypeOK /\ WindowInv /\ CommissionIsConserved /\ CommissionFollowsReturns /\ [Next]_vars
        => CommissionFollowsReturns'
  <2> SUFFICES ASSUME TypeOK, WindowInv, CommissionIsConserved, CommissionFollowsReturns,
                      [Next]_vars
               PROVE  CommissionFollowsReturns'
    OBVIOUS
  <2>1. CASE RequestSteps \/ UNCHANGED vars
    <3>1. UNCHANGED <<return, commission>>
      BY <2>1 DEF vars, RequestSteps, CreateRequest, ReviewRequest, CancelRequest,
         CompleteRequest
    <3>2. Kept' = Kept
      BY <3>1 DEF Kept
    <3> QED BY <3>1, <3>2, OthersFollow
  <2> QED
    BY <2>1, ReturnStepsFollow, OrderStepsFollow, CommissionStepsFollow DEF Next
<1> QED
  BY <1>1, <1>2, TypesAreKept, WindowHolds, CommissionIsNeverLost, PTL DEF Spec
=============================================================================
