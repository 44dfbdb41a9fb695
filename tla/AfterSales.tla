----------------------------- MODULE AfterSales -----------------------------
(***************************************************************************)
(* What the staff, the customer and the payment provider do with an order  *)
(* once it is paid: the status changes of PATCH /api/admin/orders/[id] and *)
(* of bulk-shipping, the refunds of /api/admin/refunds, returns and        *)
(* exchanges (/api/returns, /api/admin/returns/[id]) and the stock that    *)
(* the product form saves, composed with all the requests of Checkout.     *)
(*                                                                         *)
(* Each handler reads the order, decides, calls the provider if money goes *)
(* back, and then writes in one transaction that does not look at the      *)
(* order's status again.  A staff request p is therefore the steps read,   *)
(* call and commit; job[p] keeps what it has read and decided.             *)
(*                                                                         *)
(* Not every shop uses every screen.  desk is the set of those this shop   *)
(* uses, fixed at the start; the properties say which of them they need.   *)
(***************************************************************************)
EXTENDS Checkout, Functions

CONSTANTS Admins,         \* requests of administrators that can be in flight
          ReturnStaff,    \* those of them that handle returns
          Customers,      \* requests for a return that can be in flight
          Returns,        \* the ids that returnRequest.create can give out
          Price,          \* OrderItem.price
          RefundOptions,  \* what an administrator ticks in the refund form
          Desks,          \* the sets of screens a shop may use
          Listings,       \* how often a return request may list a line of the order;
                          \* the storefront's form (ReturnForm.tsx) lists it once
          MaxUnits        \* bound: the units of a sku in a return request

Screens == {"refund", "return", "manual", "self", "edit"}

(* The columns of ReturnRequest that matter; nothing in the code writes its *)
(* sixth status, CANCELLED.                                                *)
ReturnStatuses == {"REQUESTED", "APPROVED", "PICKED_UP", "COMPLETED", "REJECTED"}

ReturnRows == [order : Orders, units : [Skus -> Nat], type : {"RETURN", "EXCHANGE"},
               amount : Nat, status : ReturnStatuses]

ASSUME AfterAssumption ==
  /\ ReturnStaff \subseteq Admins
  /\ Price \in [Skus -> Nat]
  /\ RefundOptions \subseteq [points : BOOLEAN, coupon : BOOLEAN, skipPgCall : BOOLEAN]
  /\ Desks \subseteq SUBSET Screens
  /\ Listings \in Nat \ {0}
  /\ MaxUnits \in Nat
  /\ None \notin ReturnRows

VARIABLES
  desk,
  job,        \* what a staff request has read and will do
  returns,    \* ReturnRequest, with its items
  returned,   \* the money the provider has given back for an order
  refunds,    \* the sums of an order's COMPLETED RefundRequests, by channel
  backRows    \* the number of PointHistory rows a refund wrote, by kind

afterVars == <<desk, job, returns, returned, refunds, backRows>>
allVars   == <<vars, afterVars>>

Idle == [step |-> "idle"]
Free(p) == job[p] = Idle
Take(p, j) == job' = [job EXCEPT ![p] = j]
Answer(p) == Take(p, Idle)

ActiveReturn == {"REQUESTED", "APPROVED", "PICKED_UP"}

AfterInit ==
  /\ Init
  /\ desk \in Desks
  /\ job = [p \in Admins \cup Customers |-> Idle]
  /\ returns = [r \in Returns |-> None]
  /\ returned = [o \in Orders |-> 0]
  /\ refunds = [o \in Orders |-> [pg |-> 0, manual |-> 0]]
  /\ backRows = [o \in Orders |-> [spent |-> 0, earned |-> 0]]

-----------------------------------------------------------------------------
(* A full refund settles the points: those used come back if that was      *)
(* ticked, those earned are taken back, whether the member has them or not. *)
PointsBack(o, usedToo) ==
  LET f == form[o]
      back == IF usedToo THEN f.pointUsed ELSE 0 IN
  IF f.user = None
  THEN UNCHANGED <<memberVars, backRows>>
  ELSE /\ balance' = [balance EXCEPT ![f.user] = @ + back - f.pointEarned]
       /\ backRows' = [backRows EXCEPT
            ![o] = [spent  |-> @.spent + (IF back > 0 THEN 1 ELSE 0),
                    earned |-> @.earned + (IF f.pointEarned > 0 THEN 1 ELSE 0)]]
       /\ UNCHANGED <<lifetime, pointRows>>

(* The coupon an order used can be used again.  It is found by the order   *)
(* that used it; the counter goes down whether or not it was found.        *)
CouponBack(o) ==
  /\ usedBy' = [c \in Coupons |-> IF usedBy[c] = o THEN None ELSE usedBy[c]]
  /\ usedCount' = IF form[o].coupon = None THEN usedCount ELSE usedCount - 1
  /\ UNCHANGED hold

-----------------------------------------------------------------------------
(* PATCH /api/admin/orders/[id]: the transition is checked against the     *)
(* status that was read.                                                   *)
NextTransitions ==
  [s \in Statuses |->
     CASE s = "PENDING"            -> {"CANCELLED"}
       [] s = "PAID"               -> {"PREPARING", "CANCELLED", "REFUNDED", "PARTIALLY_REFUNDED"}
       [] s = "PREPARING"          -> {"SHIPPED", "CANCELLED", "REFUNDED", "PARTIALLY_REFUNDED"}
       [] s = "SHIPPED"            -> {"DELIVERED", "REFUNDED", "PARTIALLY_REFUNDED"}
       [] s = "DELIVERED"          -> {"REFUNDED", "PARTIALLY_REFUNDED"}
       [] s = "PARTIALLY_REFUNDED" -> {"REFUNDED"}
       [] OTHER                    -> {}]

Closing == {"CANCELLED", "REFUNDED"}
Shipping == {"PREPARING", "SHIPPED", "DELIVERED"}

PatchRead(p, o, t) ==
  /\ Free(p)
  /\ t \in NextTransitions[status[o]]
  /\ t \in Shipping \/ "manual" \in desk
  /\ Take(p, [step |-> "patch", order |-> o, target |-> t,
              restock |-> t \in Closing /\ status[o] \in PaidStatuses])
  /\ UNCHANGED <<vars, desk, returns, returned, refunds, backRows>>

(* The update and, for an order that was read as paid, the whole quantity, *)
(* the points and the coupon.  No money, and no refundedQuantity.          *)
PatchCommit(p) ==
  LET j == job[p] IN
  /\ j.step = "patch"
  /\ status' = [status EXCEPT ![j.order] = j.target]
  /\ IF j.restock
     THEN /\ stock' = [s \in Skus |-> stock[s] + form[j.order].items[s]]
          /\ PointsBack(j.order, TRUE)
          /\ IF form[j.order].coupon # None
             THEN CouponBack(j.order) ELSE UNCHANGED couponVars
     ELSE UNCHANGED <<stock, memberVars, backRows, couponVars>>
  /\ Answer(p)
  /\ UNCHANGED <<form, paid, expired, refundVars, pg, procVars, thanked,
                 desk, returns, returned, refunds>>

(* bulk-shipping, one row of the list: as a transition to SHIPPED, but     *)
(* also from PAID.                                                         *)
BulkShipRead(p, o) ==
  /\ Free(p)
  /\ status[o] \in {"PAID", "PREPARING"}
  /\ Take(p, [step |-> "patch", order |-> o, target |-> "SHIPPED", restock |-> FALSE])
  /\ UNCHANGED <<vars, desk, returns, returned, refunds, backRows>>

-----------------------------------------------------------------------------
(* The provider gives money back, never more than it took.                 *)
PgReturns(o, a) ==
  /\ pg[o] \in {"approved", "partial"}
  /\ returned[o] + a <= form[o].total
  /\ returned' = [returned EXCEPT ![o] = @ + a]
  /\ pg' = [pg EXCEPT ![o] = IF returned[o] + a = form[o].total THEN "cancelled" ELSE "partial"]

(* POST /api/admin/refunds: the checks, and what they decide.              *)
RefundRead(p, o, a, opt) ==
  /\ Free(p) /\ "refund" \in desk
  /\ status[o] \in PaidStatuses \cup {"PARTIALLY_REFUNDED"}
  /\ a <= form[o].total - refundedAmount[o]
  /\ opt.skipPgCall => "manual" \in desk
  /\ LET full == a + refundedAmount[o] = form[o].total IN
     Take(p, [step |-> IF opt.skipPgCall THEN "refund" ELSE "refundCall",
              order |-> o, amount |-> a, full |-> full, options |-> opt,
              units |-> IF full THEN Unrestored(o) ELSE NoQty])
  /\ UNCHANGED <<vars, desk, returns, returned, refunds, backRows>>

(* The call to the provider, of a refund and of a completed return: only   *)
(* its success lets the request go on to its transaction.                  *)
CallSucceeds(p) ==
  LET j == job[p] IN
  /\ j.step \in {"refundCall", "returnCall"}
  /\ PgReturns(j.order, j.amount)
  /\ Take(p, [j EXCEPT !.step = IF @ = "refundCall" THEN "refund" ELSE "return"])
  /\ UNCHANGED <<storeVars, procVars, thanked, desk, returns, refunds, backRows>>

CallFails_Ignored(p) ==
  LET j == job[p] IN
  /\ j.step \in {"refundCall", "returnCall"}
  /\ Take(p, [j EXCEPT !.step = IF @ = "refundCall" THEN "refund" ELSE "return"])
  /\ UNCHANGED <<vars, desk, returns, returned, refunds, backRows>>

(* The provider refuses, or its answer is lost: 502, and nothing written.  *)
CallFails(p) ==
  LET j == job[p] IN
  /\ j.step \in {"refundCall", "returnCall"}
  /\ PgReturns(j.order, j.amount) \/ UNCHANGED <<pg, returned>>
  /\ Answer(p)
  /\ UNCHANGED <<storeVars, procVars, thanked, desk, returns, refunds, backRows>>

Record_Overwrites(o, a, skipped) ==
  /\ refundRequests' = [refundRequests EXCEPT ![o] = @ + 1]
  /\ refunds' = IF skipped THEN [refunds EXCEPT ![o].manual = a]
                           ELSE [refunds EXCEPT ![o].pg = a]
  /\ refundedAmount' = [refundedAmount EXCEPT ![o] = a]

Record(o, a, skipped) ==
  /\ refundRequests' = [refundRequests EXCEPT ![o] = @ + 1]
  /\ refunds' = IF skipped THEN [refunds EXCEPT ![o].manual = @ + a]
                           ELSE [refunds EXCEPT ![o].pg = @ + a]
  /\ refundedAmount' = [refundedAmount EXCEPT ![o] = @ + a]

GivesCouponBack_OnAnyRefund(j) == j.options.coupon /\ form[j.order].coupon # None

GivesCouponBack(j) == j.full /\ j.options.coupon /\ form[j.order].coupon # None

(* The transaction.  Points, coupon and stock come back with a full refund *)
(* only, the coupon if that was ticked; the stock as far as it had not     *)
(* come back when the order was read.                                      *)
RefundCommit(p) ==
  LET j == job[p]
      o == j.order IN
  /\ j.step = "refund"
  /\ Record(o, j.amount, j.options.skipPgCall)
  /\ status' = [status EXCEPT ![o] = IF j.full THEN "REFUNDED" ELSE "PARTIALLY_REFUNDED"]
  /\ IF j.full THEN PointsBack(o, j.options.points) ELSE UNCHANGED <<memberVars, backRows>>
  /\ IF GivesCouponBack(j) THEN CouponBack(o) ELSE UNCHANGED couponVars
  /\ stock' = [s \in Skus |-> stock[s] + j.units[s]]
  /\ refundedQty' = [refundedQty EXCEPT ![o] = [s \in Skus |->
                       IF j.units[s] > 0 THEN form[o].items[s] ELSE @[s]]]
  /\ Answer(p)
  /\ UNCHANGED <<form, paid, expired, pg, procVars, thanked, desk, returns, returned>>

-----------------------------------------------------------------------------
(* POST /api/returns by the member who ordered, within seven days of the   *)
(* delivery: no other request of the order may be running, and no line of  *)
(* the request may ask for more than is left of its item.  Each line is    *)
(* compared alone: an item that the request lists twice may come to twice  *)
(* what is left.                                                           *)
AmountOf(units) == SumFunction([s \in Skus |-> Price[s] * units[s]])

NoneRunning_Unchecked(o) == o \in Orders

NoneRunning(o) ==
  \A r \in Returns : returns[r] # None /\ returns[r].order = o
                      => returns[r].status \notin ActiveReturn

RequestRead(p, o, units, type) ==
  /\ Free(p) /\ "return" \in desk
  /\ status[o] = "DELIVERED" /\ form[o].user # None
  /\ NoneRunning(o)
  /\ units # NoQty
  /\ \A s \in Skus : \/ units[s] = 0
                     \/ units[s] <= Listings * (form[o].items[s] - refundedQty[o][s])
  /\ Take(p, [step |-> "request", row |-> [order |-> o, units |-> units, type |-> type,
                                         amount |-> AmountOf(units), status |-> "REQUESTED"]])
  /\ UNCHANGED <<vars, desk, returns, returned, refunds, backRows>>

RequestCommit(p) ==
  /\ job[p].step = "request"
  /\ \E r \in Returns : /\ returns[r] = None
                        /\ returns' = [returns EXCEPT ![r] = job[p].row]
  /\ Answer(p)
  /\ UNCHANGED <<vars, desk, returned, refunds, backRows>>

(* PATCH /api/admin/returns/[id].                                          *)
ReturnTransitions ==
  [REQUESTED |-> {"APPROVED", "REJECTED"},
   APPROVED  |-> {"PICKED_UP", "REJECTED"},
   PICKED_UP |-> {"COMPLETED", "REJECTED"},
   COMPLETED |-> {}, REJECTED |-> {}]

(* What is still to be refunded of a return, at most the rest of the order. *)
RestOf(rr) ==
  LET rest == form[rr.order].total - refundedAmount[rr.order] IN
  IF rr.amount <= rest THEN rr.amount ELSE rest

(* The read and what it decides.  Only a completed RETURN moves money and  *)
(* stock; an exchange is sent out by hand.                                 *)
ReturnStaffRead(p, r, t, skip) ==
  /\ Free(p) /\ p \in ReturnStaff
  /\ returns[r] # None
  /\ t \in ReturnTransitions[returns[r].status]
  /\ skip => "manual" \in desk
  /\ LET rr == returns[r]
         a  == RestOf(rr)
         complete == t = "COMPLETED" /\ rr.type = "RETURN" IN
     Take(p, [step |-> IF complete /\ a > 0 /\ ~skip THEN "returnCall" ELSE "return",
              id |-> r, order |-> rr.order, target |-> t, complete |-> complete,
              amount |-> a, skipped |-> skip,
              full |-> complete /\ a + refundedAmount[rr.order] >= form[rr.order].total])
  /\ UNCHANGED <<vars, desk, returns, returned, refunds, backRows>>

ReturnStaffCommit(p) ==
  LET j == job[p]
      o == j.order IN
  /\ j.step = "return"
  /\ returns' = [returns EXCEPT ![j.id].status = j.target]
  /\ IF j.complete
     THEN /\ refundedQty' = [refundedQty EXCEPT ![o] =
                               [s \in Skus |-> @[s] + returns[j.id].units[s]]]
          /\ stock' = [s \in Skus |-> stock[s] + returns[j.id].units[s]]
          /\ Record(o, j.amount, j.skipped)
          /\ status' = [status EXCEPT ![o] = IF j.full THEN "REFUNDED" ELSE "PARTIALLY_REFUNDED"]
          /\ IF j.full THEN PointsBack(o, TRUE) ELSE UNCHANGED <<memberVars, backRows>>
     ELSE UNCHANGED <<refundVars, stock, refunds, status, memberVars, backRows>>
  /\ Answer(p)
  /\ UNCHANGED <<form, paid, expired, couponVars, pg, procVars, thanked, desk, returned>>

-----------------------------------------------------------------------------
(* PATCH /api/admin/products/[id]: the form is loaded with the stock and   *)
(* saves the number it shows, changed by hand or not.                      *)
EditRead(p, s) ==
  /\ Free(p) /\ "edit" \in desk
  /\ Take(p, [step |-> "edit", sku |-> s, shown |-> stock[s]])
  /\ UNCHANGED <<vars, desk, returns, returned, refunds, backRows>>

EditCommit(p) ==
  /\ job[p].step = "edit"
  /\ \E n \in {job[p].shown, 0} :
       stock' = [stock EXCEPT ![job[p].sku] = n]
  /\ Answer(p)
  /\ UNCHANGED <<orderVars, refundVars, couponVars, memberVars, pg, procVars, thanked,
                 desk, returns, returned, refunds, backRows>>

-----------------------------------------------------------------------------
(* A request ends at an await, or its transaction fails.                   *)
Cut(p) ==
  /\ ~Free(p)
  /\ Answer(p)
  /\ UNCHANGED <<vars, desk, returns, returned, refunds, backRows>>

(* The money that goes back in a step of Checkout: all of it when a        *)
(* payment is cancelled, some of it when it is cancelled in part.          *)
MoneyFollows ==
  IF pg' = pg
  THEN UNCHANGED returned
  ELSE LET o == CHOOSE x \in Orders : pg'[x] # pg[x] IN
       \E a \in CASE pg'[o] = "cancelled" -> {form[o].total}
                  [] pg'[o] = "partial"   -> 1..(form[o].total - 1)
                  [] OTHER                -> {0} :
         returned' = [returned EXCEPT ![o] = a]

CheckoutStep ==
  /\ Next
  /\ (\E p \in CancelProcs : pc'[p] = "userCancel") => "self" \in desk
  /\ MoneyFollows
  /\ UNCHANGED <<desk, job, returns, refunds, backRows>>

(* What one request of the administration, or of a customer, does next.    *)
Staff(p) ==
  \/ \E o \in Orders :
       \/ \E t \in Statuses : PatchRead(p, o, t)
       \/ BulkShipRead(p, o)
       \/ /\ form[o] # None
          /\ \E opt \in RefundOptions, a \in 1..form[o].total : RefundRead(p, o, a, opt)
  \/ \E r \in Returns, t \in {"APPROVED", "PICKED_UP", "COMPLETED", "REJECTED"} :
       \E skip \in BOOLEAN : ReturnStaffRead(p, r, t, skip)
  \/ \E s \in Skus : EditRead(p, s)
  \/ PatchCommit(p) \/ CallSucceeds(p) \/ CallFails(p) \/ RefundCommit(p)
  \/ ReturnStaffCommit(p) \/ EditCommit(p) \/ Cut(p)

Customer(p) ==
  \/ \E o \in Orders, t \in {"RETURN", "EXCHANGE"}, units \in [Skus -> 0..MaxUnits] :
       form[o] # None /\ RequestRead(p, o, units, t)
  \/ RequestCommit(p)
  \/ Cut(p)

AfterNext ==
  \/ CheckoutStep
  \/ \E p \in Admins : Staff(p)
  \/ \E p \in Customers : Customer(p)

AfterSpec == AfterInit /\ [][AfterNext]_allVars
-----------------------------------------------------------------------------
(* Rows, requests and money are of their types.  The stock is never        *)
(* negative; a member's points can be, since a refund takes back what was  *)
(* earned even when it has been spent.                                     *)
AfterTypeOK ==
  /\ status \in [Orders -> Statuses]
  /\ stock \in [Skus -> Nat]
  /\ balance \in [Users -> Int]
  /\ refundedQty \in [Orders -> [Skus -> Nat]]
  /\ refundedAmount \in [Orders -> Int]
  /\ pg \in [Orders -> PgStates]
  /\ returned \in [Orders -> Nat]
  /\ desk \in Desks
  /\ \A p \in DOMAIN job : job[p].step \in {"idle", "patch", "refundCall", "refund",
                              "returnCall", "return", "request", "edit"}
  /\ returns \in [Returns -> ReturnRows \cup {None}]

(* The refunds on record are covered by money the provider has given back, *)
(* and it never gives back more than was paid: a refund whose call fails,  *)
(* is refused or is lost leaves no row (admin/refunds/route.ts line 61).   *)
RefundsBacked ==
  \A o \in Orders : /\ refunds[o].pg <= returned[o]
                    /\ form[o] # None => returned[o] <= form[o].total

(* A shop that gives units and points back on one screen only, and hears   *)
(* nothing from the provider meanwhile; its requests for a return list     *)
(* each item once.                                                         *)
OneDesk ==
  /\ HookProcs = {}
  /\ desk \in {{"refund"}, {"return"}}
  /\ desk = {"return"} => Listings = 1

(* Whatever refunds, returns, retries and failed calls are in flight, the  *)
(* units that left the stock are those of the paid orders that were not    *)
(* given back, and no order gives back more than it took (stock.ts line    *)
(* 181).  On the return screen it takes one clerk and one customer at a    *)
(* time: two clerks complete the same return twice, and two requests made  *)
(* at once ask for the same units (returns/route.ts line 61).              *)
UnitsBackOnce ==
  OneDesk => \A s \in Skus :
    /\ SumFunction([o \in paid |-> form[o].items[s] - refundedQty[o][s]])
         = InitialStock[s] - stock[s]
    /\ \A o \in paid : refundedQty[o][s] <= form[o].items[s]

(* The points of an order are settled back at most once, and only when all *)
(* of its money has gone back: two refunds that were decided on the same   *)
(* reading of refundedAmount do not both count as the last one.  It needs  *)
(* totals that no return of a part of the goods makes up (a discount can   *)
(* make one do), or that no refunded order is reopened (RefundedIsFinal).  *)
PointsBackOnce ==
  OneDesk => \A o \in Orders :
    /\ backRows[o].spent <= 1 /\ backRows[o].earned <= 1
    /\ backRows[o].earned = 1 => returned[o] = form[o].total

(* A used coupon becomes usable again only together with the end of the    *)
(* order that used it, on every screen.                                    *)
CouponBackWhenClosed ==
  [][\A c \in Coupons : usedBy[c] # None /\ usedBy'[c] = None
                         => status'[usedBy[c]] \in Closing]_allVars

(* The money of the orders, as the promise sees it.                        *)
Money == INSTANCE MoneyLife
           WITH cost   <- [o \in Orders |-> IF form[o] = None THEN 0 ELSE form[o].total],
                back   <- returned,
                booked <- [o \in Orders |-> refunds[o].pg]

(* Every step of the shop is one MoneyLife allows: a refund goes on record *)
(* only after its money has gone back, one step at a time, and no retry,   *)
(* lost answer or second refund of the same order takes a record or money  *)
(* back again.  It is said of shops whose return screen is the only one    *)
(* that records refunds while it is used: where a refund by hand or a      *)
(* notice of the provider can raise refundedAmount beyond the price, the   *)
(* rest of a return (returns/[id]/route.ts line 59) is below zero, and is  *)
(* recorded like that.                                                     *)
MoneyLifeKept == Money!Spec

-----------------------------------------------------------------------------
(* stock.ts line 181: what was restored is recorded in refundedQuantity so *)
(* that it is not restored twice.                                          *)
RestoredOnce ==
  \A o \in Orders : form[o] # None =>
    \A s \in Skus : refundedQty[o][s] <= form[o].items[s]

(* orders/[id]/route.ts line 33: a change of the status is checked against *)
(* the transitions of order-status.ts, which leave none from REFUNDED.     *)
RefundedIsFinal ==
  [][\A o \in Orders : status[o] = "REFUNDED" => status'[o] = "REFUNDED"]_allVars
=============================================================================
