----------------------------- MODULE PriceRules -----------------------------
(***************************************************************************)
(* The arithmetic of an order, in whole shillings: how a total is split    *)
(* into a deposit and a balance, how a lapsed deposit is split between the *)
(* shopper and the shop, and what an affiliate earns.                      *)
(***************************************************************************)
EXTENDS Integers

DEPOSIT_RATE_BPS == 5000
DEPOSIT_LAPSE_REFUND_RATE_BPS == 3000
DEFAULT_AFFILIATE_COMMISSION_RATE_BPS == 2500
MAX_RATE_BPS == 5000
Whole == 10000                               \* the basis points of the whole

\* Math.ceil and Math.round of a share: halves are rounded up.
Ceil(amount, bps) == (amount * bps + Whole - 1) \div Whole
Round(amount, bps) == (2 * amount * bps + Whole) \div (2 * Whole)

DepositAmount(total) == Ceil(total, DEPOSIT_RATE_BPS)
BalanceAmount(total) == total - DepositAmount(total)
QualifiesForDeposit(total) == total >= 2

LapsedRefund(total) == Round(total, DEPOSIT_LAPSE_REFUND_RATE_BPS)

\* What goes back of a deposit, and what the shop keeps.
LapsedDeposit(total, depositPaid) ==
  LET refund == IF LapsedRefund(total) < depositPaid THEN LapsedRefund(total)
                ELSE depositPaid
  IN  [refund |-> refund, forfeit |-> depositPaid - refund]

\* What is stored as the rate: a number, a text with what Number(text) makes of
\* it, or something else.  A number is finite, and then a fraction, or not.
Settings == [kind : {"number", "text", "other"}, blank : BOOLEAN,
             finite : BOOLEAN, num : Int, den : Nat \ {0}]
IsNumber(setting) ==
  /\ setting.kind = "number" \/ (setting.kind = "text" /\ ~setting.blank)
  /\ setting.finite

\* Math.round of a fraction, positive or negative.
Rounded(num, den) == (2 * num + den) \div (2 * den)
Clamped(bps) == IF bps < 0 THEN 0 ELSE IF bps > MAX_RATE_BPS THEN MAX_RATE_BPS ELSE bps

ResolvedRate(setting) ==
  IF IsNumber(setting) THEN Clamped(Rounded(setting.num, setting.den))
  ELSE DEFAULT_AFFILIATE_COMMISSION_RATE_BPS

CommissionAmount(subtotal, rate) == Round(subtotal, rate)
=============================================================================
