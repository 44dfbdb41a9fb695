--------------------------- MODULE CheckoutClaims ---------------------------
(***************************************************************************)
(* Properties of Checkout that add up rows, and what the documentation of  *)
(* the repository says of the payment flow and the code does not keep.     *)
(***************************************************************************)
EXTENDS Checkout, Functions

(* The units of the orders that count as paid were all taken out of the    *)
(* stock, which never goes below zero: nothing is sold twice (README.md    *)
(* line 369, as long as one request at a time gives stock back).           *)
SoldWithinStock ==
  LET sold == {o \in Orders : status[o] \in PaidStatuses} IN
  \A s \in Skus : SumFunction([o \in sold |-> form[o].items[s]]) <= InitialStock[s] - stock[s]

(* A coupon row, as the promise sees it.                                   *)
CouponState(c) == IF usedBy[c] # None THEN [is |-> "used", by |-> usedBy[c]]
                  ELSE IF hold[c] # None THEN [is |-> "held", by |-> hold[c]]
                  ELSE [is |-> "free", by |-> None]

(* The orders that wait for their payment.                                 *)
Waiting == {o \in Orders : status[o] = "PENDING"}

Life == INSTANCE CouponLife WITH life <- [c \in Coupons |-> CouponState(c)],
                                 waiting <- Waiting

(* The payment flow implements CouponLife: an order that waits for its     *)
(* payment uses the coupon it holds or none, nothing takes a used coupon   *)
(* from its order, and nothing but the late payment of an order that has   *)
(* ended takes a hold from another order (orders/route.ts line 151 and     *)
(* stock.ts lines 61 to 80).                                               *)
CouponLifeKept == Life!Spec

-----------------------------------------------------------------------------
(* stock.ts line 7 calls finalizeOrderPayment race-condition safe: an order *)
(* earns its points once.                                                  *)
EarnedOnce == \A o \in Orders : pointRows[o].earned <= 1

(* README.md line 152: a customer is sent to the success page when the     *)
(* order has become PAID.                                                  *)
SuccessMeansPaid == thanked \subseteq paid

(* README.md line 370: while an order waits for its payment no other       *)
(* payment can use the coupon that is reserved for it.                     *)
CouponNotTaken ==
  \A o \in Orders : status[o] = "PENDING" /\ form[o].coupon # None
                    => usedBy[form[o].coupon] \in {None, o}
=============================================================================
