----------------------------- MODULE BillTotals -----------------------------
(***************************************************************************)
(* The arithmetic of a bill with line items                                *)
(* (api/billing/bill_with_line_items_totals.go), in paise.  A request is   *)
(* reduced to what the arithmetic tells apart: the subtotal of its lines,  *)
(* the largest points discount it asks for, the sum of its other           *)
(* discounts, whether one of those is above zero, and its taxes.           *)
(***************************************************************************)
EXTENDS Integers, Sequences

CONSTANTS
  PaisePerPoint,       \* what one redeemed point is worth
  PaisePerEarnedPoint  \* what must be spent to earn one point

ASSUME TotalsAssumption ==
  /\ PaisePerPoint \in Nat \ {0}
  /\ PaisePerEarnedPoint \in Nat \ {0}

Lower(a, b) == IF a <= b THEN a ELSE b

(* requestedRedeemPoints *)
RequestedPoints(points) == points \div PaisePerPoint

(* capDiscount *)
CapDiscount(discount, subtotal) ==
  IF discount > subtotal THEN subtotal ELSE IF discount < 0 THEN 0 ELSE discount

(* PointsEarnedFromDiscountedSubtotal *)
EarnedPoints(subtotal, discount) ==
  IF subtotal - discount <= 0 THEN 0 ELSE (subtotal - discount) \div PaisePerEarnedPoint

(* Points the bill can absorb once its other discounts are taken. *)
MaxPointsByBill(subtotal, other) ==
  IF subtotal - other > 0 THEN (subtotal - other) \div PaisePerPoint ELSE 0

(* The points a new bill redeems: what was asked for, but no more than the *)
(* wallet holds and no more than the bill can absorb.                      *)
RedeemedPoints(subtotal, points, other, balance) ==
  Lower(Lower(RequestedPoints(points), balance), MaxPointsByBill(subtotal, other))

(* A new bill is refused: points stacked on another discount above zero    *)
(* (whatever those sum up to), or no customer.                             *)
PointsRefused(points, stacked, customer) == points > 0 /\ (stacked \/ ~customer)

=============================================================================
