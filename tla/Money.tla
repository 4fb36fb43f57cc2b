---------------------------------- MODULE Money ----------------------------------
(***************************************************************************)
(* Amounts in integer cents: discounted prices, the funding of a discount, *)
(* and the commission and payable amount of a vendor allocation.           *)
(*                                                                         *)
(* A percentage is the rational n/d.  Code that works in integers rounds   *)
(* half up.  Code that goes through floating point does so too except at   *)
(* an exact half, which an inexact product may put on either side.         *)
(***************************************************************************)
EXTENDS Integers

\* a/b to the nearest integer, a half rounded up.
HalfUp(a, b) == a \div b + (IF 2 * (a % b) >= b THEN 1 ELSE 0)

\* The integers a floating point quotient may be rounded to.
Nearest(a, b) ==
  {k \in {a \div b, a \div b + 1} : -b =< 2 * (k * b - a) /\ 2 * (k * b - a) =< b}

\* computeDiscountCents: what is left of c cents at a discount of n/d percent.
Discounted(c, n, d) == HalfUp(c * (100 * d - n), 100 * d)

\* The same in floating point: the price of a Razorpay checkout.
FloatDiscounted(c, n, d) == Nearest(c * (100 * d - n), 100 * d)

\* computeFundingSplitCents: the vendor's part, of n/d percent, of a discount
\* (in floating point); the marketplace funds the remainder.
VendorShares(discount, n, d) == Nearest(discount * n, 100 * d)

(***************************************************************************)
(* calculateVendorAllocation.                                              *)
(***************************************************************************)
\* A percentage in basis points, taken of the ten-thousands and of the rest so
\* that no product leaves the safe integers.
Commission(gross, bps) ==
  (gross \div 10000) * bps + HalfUp((gross % 10000) * bps, 10000)

Policy == [model : {"PERCENTAGE", "FIXED_AMOUNT"}, rate : Nat, fee : Nat]
ValidPolicy(p) == p \in Policy /\ (p.model = "PERCENTAGE" => p.rate =< 10000)

CommissionOf(p, gross) ==
  LET asked == IF p.model = "PERCENTAGE" THEN Commission(gross, p.rate) ELSE p.rate
  IN  IF asked > gross THEN gross ELSE asked

\* Fault: a fee larger than what is left makes the vendor owe money.
PayableUnclamped(p, gross) == gross - CommissionOf(p, gross) - p.fee

Payable(p, gross) ==
  LET left == gross - CommissionOf(p, gross) - p.fee IN IF left < 0 THEN 0 ELSE left

PlatformNet(p, gross) == gross - Payable(p, gross) - p.fee
================================================================================
