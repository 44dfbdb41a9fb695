------------------------------ MODULE Pricing ------------------------------
(***************************************************************************)
(* How an order is priced: lib/coupon.ts, lib/shipping.ts, lib/membership  *)
(* and lines 86-120 of POST /api/orders, next to the checkout page, which  *)
(* computes the same total a second time (page.tsx lines 63-97) and sends  *)
(* it to the payment provider.  Amounts are integers (won); a percentage   *)
(* is floored, a missing maxDiscount is 0 and no coupon is NoCoupon.       *)
(***************************************************************************)
EXTENDS Integers, Sequences

CONSTANT NoCoupon

Lesser(a, b)  == IF a <= b THEN a ELSE b
Greater(a, b) == IF a >= b THEN a ELSE b

Percent == "PERCENT"
Fixed   == "FIXED"

PricedCoupon == [type : {Percent, Fixed}, value : Nat \ {0}, min : Nat, max : Nat]

CouponCut(c, items) ==
  LET part == (items * c.value) \div 100
  IN  CASE c.type = Fixed -> c.value
        [] c.type = Percent /\ c.max > 0 /\ part > c.max -> c.max
        [] OTHER -> part

CouponDiscount_Unbounded(c, items) ==
  IF items < c.min THEN 0 ELSE CouponCut(c, items)

CouponDiscount(c, items) ==
  IF items < c.min THEN 0 ELSE Lesser(CouponCut(c, items), items)

ShippingFee(subtotal, fee, freeMin) ==
  IF subtotal <= 0 \/ subtotal >= freeMin THEN 0 ELSE fee

(* What the server books: the coupon is refused (here: no quote) below its *)
(* minimum, points are cut to what is left to pay.                         *)
Discount(q) == IF q.coupon = NoCoupon THEN 0 ELSE CouponDiscount(q.coupon, q.items)
PointsTaken(q) ==
  IF q.points > 0 THEN Lesser(q.points, Greater(0, q.items - Discount(q))) ELSE 0
OrderTotal(q) ==
  Greater(0, q.items - Discount(q) - PointsTaken(q) + ShippingFee(q.items, q.fee, q.freeMin))

Acceptable(q) ==
  /\ q.coupon # NoCoupon => q.items >= q.coupon.min
  /\ q.points <= q.balance

(* One per cent of what is paid for the goods, in tens.                    *)
PointsEarned(q) == ((q.items - Discount(q) - PointsTaken(q)) \div 1000) * 10

(* The page computes its own amounts: it cuts the points typed to the      *)
(* balance and to what is left, and sends the cut number.                  *)
PageDiscount(p) ==
  IF p.coupon = NoCoupon \/ p.items < p.coupon.min THEN 0
  ELSE Lesser(CouponCut(p.coupon, p.items), p.items)

PagePoints_Whole(p) == Greater(0, Lesser(p.typed, p.balance))

PagePoints(p) ==
  Greater(0, Lesser(p.typed, Greater(0, Lesser(p.balance, p.items - PageDiscount(p)))))
PageTotal(p) ==
  Greater(0, p.items - PageDiscount(p) - PagePoints(p) + ShippingFee(p.items, p.fee, p.freeMin))
=============================================================================
