----------------------------- MODULE OrderStore -----------------------------
(***************************************************************************)
(* The rows that the payment flow of the shop reads and writes, and the    *)
(* database transactions of src/src/lib/stock.ts over them.                *)
(*                                                                         *)
(* Every operator below is one transaction as the other sessions see it.   *)
(* PostgreSQL runs them at READ COMMITTED: an update locks its row and     *)
(* evaluates its WHERE clause on the row's latest committed version, a     *)
(* plain read does not lock.  So a transaction is atomic from its first    *)
(* update on, and a value it has read before that may be stale; a          *)
(* transaction that acts on such a value is two operators here, a read and *)
(* a commit (see Checkout).                                                *)
(*                                                                         *)
(* Data: a Form is an order as the customer submits it, already priced.    *)
(* A sku is one row that carries a stock, a ProductVariant or a Product    *)
(* without variants.  A coupon is one UserCoupon row; all of them are      *)
(* issued from one Coupon, whose usage counter is usedCount.               *)
(***************************************************************************)
EXTENDS Integers

CONSTANTS Orders,         \* the ids that order.create can give out
          Users,          \* the members; a guest orders with user = None
          Coupons,        \* the UserCoupon rows
          CouponOwner,    \* UserCoupon.userId
          Skus,           \* the ProductVariant and Product rows with a stock
          InitialStock, InitialPoints,
          Forms,          \* the orders customers may submit
          None            \* SQL NULL

Providers == {"TOSS", "INICIS", "NAVERPAY"}

(* OrderStatus of the schema; NONE is a row that does not exist yet.       *)
Statuses == {"NONE", "PENDING", "PAID", "PREPARING", "SHIPPED", "DELIVERED",
             "CANCELLED", "REFUNDED", "PARTIALLY_REFUNDED"}

(* An order as it is created.  spend is totalAmount - shippingFee cut at 0, *)
(* the part that counts towards the membership tier.                       *)
OrderForm == [user : Users \cup {None}, coupon : Coupons \cup {None},
              provider : Providers, items : [Skus -> Nat], total : Nat,
              spend : Nat, pointUsed : Nat, pointEarned : Nat]

ASSUME NoneAssumption == None \notin Orders \cup Users \cup Coupons \cup Forms

(* A coupon and points can only be put on a member's order                 *)
(* (orders/route.ts lines 91 and 105).                                     *)
ASSUME FormsAssumption ==
  /\ Forms \subseteq OrderForm
  /\ \A f \in Forms : f.user = None => f.coupon = None /\ f.pointUsed = 0

ASSUME StoreAssumption == /\ CouponOwner \in [Coupons -> Users]
                          /\ InitialStock \in [Skus -> Nat]
                          /\ InitialPoints \in [Users -> Nat]

-----------------------------------------------------------------------------
VARIABLES
  status,          \* Order.status
  form,            \* the columns of an order that never change after create
  paid,            \* the orders with paidAt set
  expired,         \* the orders whose expiresAt lies in the past
  refundedQty,     \* OrderItem.refundedQuantity, by sku
  refundedAmount,  \* Order.refundedAmount
  refundRequests,  \* the number of RefundRequest rows of an order
  stock,           \* ProductVariant.stock or Product.stock
  hold,            \* UserCoupon.reservedOrderId
  usedBy,          \* UserCoupon.orderId, set together with usedAt
  usedCount,       \* Coupon.usedCount
  balance,         \* User.pointBalance
  lifetime,        \* User.lifetimeAmount
  pointRows        \* the number of PointHistory rows of an order, by kind

orderVars  == <<status, form, paid, expired>>
refundVars == <<refundedQty, refundedAmount, refundRequests>>
couponVars == <<hold, usedBy, usedCount>>
memberVars == <<balance, lifetime, pointRows>>
storeVars  == <<orderVars, refundVars, stock, couponVars, memberVars>>

(* The rows have the types of their columns, and the columns that count    *)
(* units or points are never negative.                                     *)
StoreTypeOK ==
  /\ status \in [Orders -> Statuses]
  /\ form \in [Orders -> Forms \cup {None}]
  /\ \A o \in Orders : status[o] = "NONE" <=> form[o] = None
  /\ paid \subseteq Orders
  /\ expired \subseteq Orders
  /\ refundedQty \in [Orders -> [Skus -> Nat]]
  /\ refundedAmount \in [Orders -> Nat]
  /\ refundRequests \in [Orders -> Nat]
  /\ stock \in [Skus -> Nat]
  /\ hold \in [Coupons -> Orders \cup {None}]
  /\ usedBy \in [Coupons -> Orders \cup {None}]
  /\ usedCount \in Nat
  /\ balance \in [Users -> Nat]
  /\ lifetime \in [Users -> Nat]
  /\ pointRows \in [Orders -> [spent : Nat, earned : Nat]]

StoreInit ==
  /\ status = [o \in Orders |-> "NONE"]
  /\ form = [o \in Orders |-> None]
  /\ paid = {}
  /\ expired = {}
  /\ refundedQty = [o \in Orders |-> [s \in Skus |-> 0]]
  /\ refundedAmount = [o \in Orders |-> 0]
  /\ refundRequests = [o \in Orders |-> 0]
  /\ stock = InitialStock
  /\ hold = [c \in Coupons |-> None]
  /\ usedBy = [c \in Coupons |-> None]
  /\ usedCount = 0
  /\ balance = InitialPoints
  /\ lifetime = [u \in Users |-> 0]
  /\ pointRows = [o \in Orders |-> [spent |-> 0, earned |-> 0]]

-----------------------------------------------------------------------------
(* Operators named <definition>_<change> are faulty variants of the        *)
(* definition: the code with one plausible mistake in it.  No specification *)
(* uses them; PROJECT.json says which property each of them breaks.        *)
CanHold_IgnoresOtherHold(c) == c # None => usedBy[c] = None

CanHold_IgnoresUse(c) == c # None => hold[c] = None

(* orders/route.ts: the transaction that creates the order and, if it      *)
(* carries a coupon, takes the hold on it.  It throws, and nothing is      *)
(* created, when the coupon was used or is held by another order.          *)
CanHold(c) == c # None => usedBy[c] = None /\ hold[c] = None

InsertOrder(o, f) ==
  /\ status[o] = "NONE"
  /\ CanHold(f.coupon)
  /\ status' = [status EXCEPT ![o] = "PENDING"]
  /\ form' = [form EXCEPT ![o] = f]
  /\ hold' = IF f.coupon = None THEN hold ELSE [hold EXCEPT ![f.coupon] = o]
  /\ UNCHANGED <<paid, expired, refundVars, stock, usedBy, usedCount, memberVars>>

CancelPendingOrder_Unguarded(o) ==
  /\ status' = [status EXCEPT ![o] = "CANCELLED"]
  /\ hold' = [c \in Coupons |-> IF hold[c] = o THEN None ELSE hold[c]]
  /\ UNCHANGED <<form, paid, expired, refundVars, stock, usedBy, usedCount, memberVars>>

CancelPendingOrder_KeepsHold(o) ==
  IF status[o] = "PENDING"
  THEN /\ status' = [status EXCEPT ![o] = "CANCELLED"]
       /\ UNCHANGED <<form, paid, expired, refundVars, stock, couponVars, memberVars>>
  ELSE UNCHANGED storeVars

(* stock.ts, cancelPendingOrder: the guarded update and the release of the *)
(* hold.  It does nothing to an order that is no longer PENDING.           *)
CancelPendingOrder(o) ==
  IF status[o] = "PENDING"
  THEN /\ status' = [status EXCEPT ![o] = "CANCELLED"]
       /\ hold' = [c \in Coupons |-> IF hold[c] = o THEN None ELSE hold[c]]
       /\ UNCHANGED <<form, paid, expired, refundVars, stock, usedBy,
                      usedCount, memberVars>>
  ELSE UNCHANGED storeVars

-----------------------------------------------------------------------------
(* stock.ts, finalizeOrderPayment from its first update on: it has read    *)
(* the order as PENDING, and does not look at the status again.            *)

EnoughStock_OfOneItem(f) == \E s \in Skus : f.items[s] <= stock[s]

(* Every conditional decrement finds a row: otherwise the transaction      *)
(* throws and is rolled back as a whole.                                   *)
EnoughStock(f) == \A s \in Skus : f.items[s] <= stock[s]

EnoughPoints(f) == f.pointUsed > 0 => f.pointUsed <= balance[f.user]

(* The coupon goes from held to used.  The row is found through its user   *)
(* and coupon; the count goes up whether or not the row was updated.       *)
MarkCouponUsed(o, c) ==
  LET mine == c # None /\ (hold[c] = o \/ usedBy[c] = None) IN
  /\ hold' = IF mine THEN [hold EXCEPT ![c] = None] ELSE hold
  /\ usedBy' = IF mine THEN [usedBy EXCEPT ![c] = o] ELSE usedBy
  /\ usedCount' = IF c # None THEN usedCount + 1 ELSE usedCount

(* Points used and earned, with one PointHistory row for each amount that  *)
(* is not zero, and the lifetime amount of the member.                     *)
SettlePoints(o, f) ==
  IF f.user = None
  THEN UNCHANGED memberVars
  ELSE /\ balance' = [balance EXCEPT ![f.user] = @ - f.pointUsed + f.pointEarned]
       /\ lifetime' = [lifetime EXCEPT ![f.user] = @ + f.spend]
       /\ pointRows' = [pointRows EXCEPT
            ![o] = [spent  |-> @.spent + (IF f.pointUsed > 0 THEN 1 ELSE 0),
                    earned |-> @.earned + (IF f.pointEarned > 0 THEN 1 ELSE 0)]]

FinalizePayment(o) ==
  LET f == form[o] IN
  /\ EnoughStock(f)
  /\ EnoughPoints(f)
  /\ stock' = [s \in Skus |-> stock[s] - f.items[s]]
  /\ status' = [status EXCEPT ![o] = "PAID"]
  /\ paid' = paid \cup {o}
  /\ expired' = expired \ {o}
  /\ MarkCouponUsed(o, f.coupon)
  /\ SettlePoints(o, f)
  /\ UNCHANGED <<form, refundVars>>

-----------------------------------------------------------------------------
(* stock.ts, restoreOrderStock: what its read of the order items leaves to *)
(* be restored, and the updates it makes from that reading.                *)
Unrestored(o) ==
  [s \in Skus |-> IF form[o].items[s] > refundedQty[o][s]
                  THEN form[o].items[s] - refundedQty[o][s] ELSE 0]

RestoreStock_NotRecorded(o, qty) ==
  /\ stock' = [s \in Skus |-> stock[s] + qty[s]]
  /\ UNCHANGED <<orderVars, refundVars, couponVars, memberVars>>

RestoreStock(o, qty) ==
  /\ stock' = [s \in Skus |-> stock[s] + qty[s]]
  /\ refundedQty' = [refundedQty EXCEPT
       ![o] = [s \in Skus |-> IF qty[s] > 0 THEN form[o].items[s]
                                            ELSE refundedQty[o][s]]]
  /\ UNCHANGED <<orderVars, refundedAmount, refundRequests, couponVars, memberVars>>
=============================================================================
