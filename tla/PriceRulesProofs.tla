-------------------------- MODULE PriceRulesProofs --------------------------
(***************************************************************************)
(* Theorems about the arithmetic of an order, for every total.             *)
(***************************************************************************)
EXTENDS PriceRules, TLAPS

\* The legs of a deposit plan add up to the total, neither is empty, and an odd
\* shilling is on the deposit (deposit-plan.ts, depositAmountKsh and
\* balanceAmountKsh).
THEOREM LegsAddUp ==
  ASSUME NEW total \in Nat, QualifiesForDeposit(total)
  PROVE  /\ DepositAmount(total) \in 1..total
         /\ DepositAmount(total) + BalanceAmount(total) = total
         /\ BalanceAmount(total) >= 1
         /\ DepositAmount(total) - BalanceAmount(total) \in {0, 1}
<1>1. DepositAmount(total) = (total * 5000 + 9999) \div 10000
  BY DEF DepositAmount, Ceil, DEPOSIT_RATE_BPS, Whole
<1>2. /\ DepositAmount(total) \in Int
      /\ 2 * DepositAmount(total) >= total
      /\ 2 * DepositAmount(total) <= total + 1
  BY <1>1
<1> QED
  BY <1>2 DEF BalanceAmount, QualifiesForDeposit

\* A total of one shilling is all deposit.
THEOREM DepositIsPartOfTotal ==
  ASSUME NEW total \in Nat \ {0}
  PROVE  DepositAmount(total) \in 1..total
<1>1. DepositAmount(total) = (total * 5000 + 9999) \div 10000
  BY DEF DepositAmount, Ceil, DEPOSIT_RATE_BPS, Whole
<1> QED
  BY <1>1

\* The refund of a lapsed deposit never exceeds the deposit the plan asks for,
\* so that the cap of lapsedDepositSettlement binds only deposits that were
\* collected short; and the shop keeps a fifth of the total, to the shilling.
THEOREM LapseStaysWithinDeposit ==
  ASSUME NEW total \in Nat \ {0}
  PROVE  /\ LapsedRefund(total) \in 0..DepositAmount(total)
         /\ LapsedDeposit(total, DepositAmount(total)).refund = LapsedRefund(total)
         /\ 5 * LapsedDeposit(total, DepositAmount(total)).forfeit
              \in (total - 2)..(total + 4)
<1>1. DepositAmount(total) = (total * 5000 + 9999) \div 10000
  BY DEF DepositAmount, Ceil, DEPOSIT_RATE_BPS, Whole
<1>2. LapsedRefund(total) = (2 * total * 3000 + 10000) \div 20000
  BY DEF LapsedRefund, Round, DEPOSIT_LAPSE_REFUND_RATE_BPS, Whole
<1>3. /\ DepositAmount(total) \in Int
      /\ 2 * DepositAmount(total) >= total /\ 2 * DepositAmount(total) <= total + 1
  BY <1>1
<1>4. /\ LapsedRefund(total) \in Nat
      /\ 10 * LapsedRefund(total) > 3 * total - 5
      /\ 10 * LapsedRefund(total) <= 3 * total + 5
  BY <1>2
<1>5. LapsedRefund(total) <= DepositAmount(total)
  BY <1>3, <1>4
<1>6. LapsedDeposit(total, DepositAmount(total)).refund = LapsedRefund(total)
  BY <1>3, <1>4, <1>5 DEF LapsedDeposit
<1>7. LapsedDeposit(total, DepositAmount(total)).forfeit
        = DepositAmount(total) - LapsedRefund(total)
  BY <1>3, <1>4, <1>5 DEF LapsedDeposit
<1> QED
  BY <1>3, <1>4, <1>5, <1>6, <1>7

\* Whatever was collected of a deposit is split without loss, and no more goes
\* back than came in (lapsedDepositSettlement).
THEOREM LapseSplitsWhatWasPaid ==
  ASSUME NEW total \in Nat \ {0}, NEW depositPaid \in Nat
  PROVE  LET split == LapsedDeposit(total, depositPaid)
         IN  /\ split.refund \in 0..depositPaid /\ split.forfeit \in Nat
             /\ split.refund + split.forfeit = depositPaid
<1>1. LapsedRefund(total) = (2 * total * 3000 + 10000) \div 20000
  BY DEF LapsedRefund, Round, DEPOSIT_LAPSE_REFUND_RATE_BPS, Whole
<1>2. LapsedRefund(total) \in Nat
  BY <1>1
<1> QED
  BY <1>2 DEF LapsedDeposit

\* Rounding moves a fraction by half at most, and a half up.
LEMMA RoundedIsNear ==
  ASSUME NEW num \in Int, NEW den \in Nat \ {0}
  PROVE  /\ Rounded(num, den) \in Int
         /\ 2 * (den * Rounded(num, den)) <= 2 * num + den
         /\ 2 * num + den < 2 * (den * Rounded(num, den)) + 2 * den
<1> DEFINE dividend == 2 * num + den
           divisor == 2 * den
           quotient == dividend \div divisor
<1>1. dividend \in Int /\ divisor \in Nat \ {0} /\ quotient = Rounded(num, den)
  BY DEF Rounded
<1> HIDE DEF dividend, divisor
<1>2. /\ quotient \in Int
      /\ divisor * quotient <= dividend /\ dividend < divisor * quotient + divisor
  BY <1>1, Z3
<1> HIDE DEF quotient
<1>3. divisor * quotient = 2 * (den * quotient)
  BY <1>2 DEF divisor
<1> QED
  BY <1>1, <1>2, <1>3 DEF dividend, divisor

\* Rounding keeps the order of fractions.
LEMMA RoundedIsMonotonic ==
  ASSUME NEW n1 \in Int, NEW d1 \in Nat \ {0}, NEW n2 \in Int, NEW d2 \in Nat \ {0},
         n1 * d2 <= n2 * d1
  PROVE  Rounded(n1, d1) <= Rounded(n2, d2)
<1> DEFINE q1 == Rounded(n1, d1)
           q2 == Rounded(n2, d2)
<1>1. /\ q1 \in Int /\ 2 * (d1 * q1) <= 2 * n1 + d1
      /\ q2 \in Int /\ 2 * n2 + d2 < 2 * (d2 * q2) + 2 * d2
  BY RoundedIsNear
<1> HIDE DEF q1, q2
<1> SUFFICES ASSUME q1 >= q2 + 1 PROVE FALSE
  BY <1>1 DEF q1, q2
<1>2. d2 * (2 * (d1 * q1)) <= d2 * (2 * n1 + d1)
  BY <1>1
<1>3. d1 * (2 * n2 + d2) < d1 * (2 * (d2 * q2) + 2 * d2)
  BY <1>1
<1>4. (d1 * d2) * (q2 + 1) <= (d1 * d2) * q1
  BY <1>1
<1> QED
  BY <1>1, <1>2, <1>3, <1>4

\* The rate is what was configured: a setting that is no number (absent, blank,
\* not numeric, infinite) gives the default, one within the allowed range is
\* moved by half a basis point at most, a higher setting never gives a lower rate
\* and no setting one outside the range (resolveDefaultCommissionRate).
THEOREM RateFollowsSetting ==
  ASSUME NEW setting \in Settings
  PROVE  /\ ~IsNumber(setting)
              => ResolvedRate(setting) = DEFAULT_AFFILIATE_COMMISSION_RATE_BPS
         /\ IsNumber(setting) /\ setting.num \in 0..(MAX_RATE_BPS * setting.den)
              => 2 * (setting.den * ResolvedRate(setting)) - 2 * setting.num
                   \in (-setting.den)..setting.den
         /\ \A other \in Settings :
              /\ IsNumber(setting) /\ IsNumber(other)
              /\ setting.num * other.den <= other.num * setting.den
              => ResolvedRate(setting) <= ResolvedRate(other)
         /\ ResolvedRate(setting) \in 0..MAX_RATE_BPS
<1> DEFINE n == setting.num
           d == setting.den
           q == Rounded(n, d)
<1>1. n \in Int /\ d \in Nat \ {0}
  BY DEF Settings
<1>2. q \in Int /\ 2 * (d * q) <= 2 * n + d /\ 2 * n + d < 2 * (d * q) + 2 * d
  BY <1>1, RoundedIsNear
<1>3. IsNumber(setting) => ResolvedRate(setting) = Clamped(q)
  BY DEF ResolvedRate
<1>4. ASSUME n \in 0..(MAX_RATE_BPS * d) PROVE Clamped(q) = q
  <2> HIDE DEF q, n, d
  <2>1. q >= 0
    <3> SUFFICES ASSUME q <= -1 PROVE FALSE
      BY <1>2
    <3>1. d * q <= d * (-1)
      BY <1>1, <1>2
    <3> QED
      BY <1>1, <1>2, <1>4, <3>1
  <2>2. q <= MAX_RATE_BPS
    <3> SUFFICES ASSUME q >= 5001 PROVE FALSE
      BY <1>2 DEF MAX_RATE_BPS
    <3>1. d * q >= d * 5001
      BY <1>1, <1>2
    <3> QED
      BY <1>1, <1>2, <1>4, <3>1 DEF MAX_RATE_BPS
  <2> QED
    BY <1>2, <2>1, <2>2 DEF Clamped, MAX_RATE_BPS
<1>5. ASSUME NEW other \in Settings, IsNumber(setting), IsNumber(other),
             n * other.den <= other.num * d
      PROVE  ResolvedRate(setting) <= ResolvedRate(other)
  <2> DEFINE p == Rounded(other.num, other.den)
  <2>1. other.num \in Int /\ other.den \in Nat \ {0}
    BY DEF Settings
  <2>2. p \in Int /\ q <= p
    BY <1>1, <1>5, <2>1, RoundedIsNear, RoundedIsMonotonic
  <2>3. ResolvedRate(other) = Clamped(p)
    BY <1>5 DEF ResolvedRate
  <2> HIDE DEF p, q, n, d
  <2> QED
    BY <1>2, <1>3, <1>5, <2>2, <2>3 DEF Clamped, MAX_RATE_BPS
<1>6. ResolvedRate(setting) \in 0..MAX_RATE_BPS
  <2> HIDE DEF q, n, d
  <2>1. Clamped(q) \in 0..MAX_RATE_BPS
    BY <1>2 DEF Clamped, MAX_RATE_BPS
  <2>2. DEFAULT_AFFILIATE_COMMISSION_RATE_BPS \in 0..MAX_RATE_BPS
    BY DEF MAX_RATE_BPS, DEFAULT_AFFILIATE_COMMISSION_RATE_BPS
  <2>3. ~IsNumber(setting)
          => ResolvedRate(setting) = DEFAULT_AFFILIATE_COMMISSION_RATE_BPS
    BY Zenon DEF ResolvedRate
  <2> QED
    BY <1>3, <2>1, <2>2, <2>3, Zenon
<1>7. ASSUME IsNumber(setting), n \in 0..(MAX_RATE_BPS * d)
      PROVE  2 * (d * ResolvedRate(setting)) - 2 * n \in (-d)..d
  <2>1. ResolvedRate(setting) = q
    BY <1>3, <1>4, <1>7
  <2> DEFINE r == d * q
  <2>2. r \in Int /\ 2 * r <= 2 * n + d /\ 2 * n + d < 2 * r + 2 * d
    BY <1>1, <1>2
  <2> HIDE DEF r
  <2>3. 2 * r - 2 * n \in (-d)..d
    BY <1>1, <2>2
  <2> QED
    BY <2>1, <2>3 DEF r
<1>8. ~IsNumber(setting)
        => ResolvedRate(setting) = DEFAULT_AFFILIATE_COMMISSION_RATE_BPS
  BY DEF ResolvedRate
<1> QED
  BY <1>5, <1>6, <1>7, <1>8

\* A commission is at most half of what the garments cost, to the shilling, and
\* never more than all of it.
THEOREM CommissionIsBounded ==
  ASSUME NEW subtotal \in Nat, NEW rate \in 0..MAX_RATE_BPS
  PROVE  /\ CommissionAmount(subtotal, rate) \in 0..subtotal
         /\ 2 * CommissionAmount(subtotal, rate) <= subtotal + 1
<1> DEFINE product == subtotal * rate
<1>1. product \in Nat /\ product <= 5000 * subtotal
  <2>1. rate \in Nat /\ rate <= 5000
    BY DEF MAX_RATE_BPS
  <2> QED
    BY <2>1
<1>2. CommissionAmount(subtotal, rate) = (2 * product + 10000) \div 20000
  <2>1. 2 * subtotal * rate = 2 * (subtotal * rate)
    BY DEF MAX_RATE_BPS
  <2> QED
    BY <2>1 DEF CommissionAmount, Round, Whole
<1> HIDE DEF product
<1>3. /\ CommissionAmount(subtotal, rate) \in Nat
      /\ 2 * CommissionAmount(subtotal, rate) <= subtotal + 1
  BY <1>1, <1>2
<1> QED
  BY <1>3
=============================================================================
