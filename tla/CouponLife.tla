----------------------------- MODULE CouponLife -----------------------------
(***************************************************************************)
(* What the shop does with the coupons that members own, whatever orders,  *)
(* payments and cancellations overlap.  A coupon is free, held by one      *)
(* order or used by one order, and a used coupon stays with the order that *)
(* used it.  While an order waits for its payment the coupon it may use is *)
(* the one it holds, and no other waiting order can use that one.          *)
(*                                                                         *)
(* UseLate is the exception, and the only way in which a coupon leaves the *)
(* order that holds it for another one: the payment of an order that does  *)
(* not wait any more, since it was cancelled while it was being paid.      *)
(* README.md line 370 excludes it, stock.ts lines 61 to 80 do not, and     *)
(* CouponNotTaken of CheckoutClaims shows what comes of it.                *)
(***************************************************************************)
CONSTANTS Coupons, Orders, None

VARIABLES life,     \* of each coupon
          waiting   \* the orders that wait for their payment

lifeVars == <<life, waiting>>

Free == [is |-> "free", by |-> None]
Held(o) == [is |-> "held", by |-> o]
Used(o) == [is |-> "used", by |-> o]

Init == life = [c \in Coupons |-> Free] /\ waiting = {}

(* An order without a coupon.                                              *)
Place(o) == /\ o \notin waiting
            /\ waiting' = waiting \cup {o}
            /\ UNCHANGED life

(* The reservation in orders/route.ts, with the order that makes it.       *)
Hold(c, o) == /\ life[c] = Free
              /\ o \notin waiting
              /\ life' = [life EXCEPT ![c] = Held(o)]
              /\ waiting' = waiting \cup {o}

(* cancelPendingOrder: the coupon of the order that ends becomes free.     *)
Release(c) == /\ life[c].is = "held"
              /\ life[c].by \in waiting
              /\ life' = [life EXCEPT ![c] = Free]
              /\ waiting' = waiting \ {life[c].by}

(* An order stops waiting and no coupon changes: it has none, or lost it   *)
(* to a late payment, or a notice of NAVERPAY ends it and keeps its hold.  *)
Leave(o) == /\ o \in waiting
            /\ waiting' = waiting \ {o}
            /\ UNCHANGED life

(* finalizeOrderPayment of an order that waits.                            *)
Use(c, o) == /\ o \in waiting
             /\ life[c] = Held(o)
             /\ life' = [life EXCEPT ![c] = Used(o)]
             /\ waiting' = waiting \ {o}

UseLate(c, o) == /\ o \notin waiting
                 /\ life[c].is # "used"
                 /\ life' = [life EXCEPT ![c] = Used(o)]
                 /\ UNCHANGED waiting

Next == \/ \E o \in Orders : Place(o) \/ Leave(o)
        \/ \E c \in Coupons : \/ Release(c)
                              \/ \E o \in Orders : Hold(c, o) \/ Use(c, o) \/ UseLate(c, o)

Spec == Init /\ [][Next]_lifeVars
=============================================================================
