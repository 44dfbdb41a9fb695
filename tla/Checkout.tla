------------------------------ MODULE Checkout ------------------------------
(***************************************************************************)
(* The requests that take an order from the shopping cart to its payment,  *)
(* or to its end: POST /api/orders, the customer's return from the payment *)
(* provider (toss/confirm, inicis/return, naver/return), the provider's    *)
(* notifications (toss/webhook, inicis/notify, naver/webhook), the         *)
(* customer's cancellation and the expiry cron.                            *)
(*                                                                         *)
(* A request runs as a process p: between two awaits nothing of it can be  *)
(* interleaved, at an await anything can.  pc[p] says what p does next     *)
(* and, with at[p], draft[p] and qty[p], keeps what p has read from the    *)
(* database and will act on.  A request can also end at any await (crash,  *)
(* time limit, a database error that nobody catches).                      *)
(*                                                                         *)
(* A read whose result the next transaction checks again is merged into    *)
(* that transaction: what it saw cannot matter.  The stale reads that do   *)
(* matter are steps of their own.                                          *)
(***************************************************************************)
EXTENDS OrderStore

CONSTANTS CreateProcs, ReturnProcs, HookProcs, CancelProcs, \* requests that can be in flight
          ConsoleCancels  \* what the shop may cancel in the provider's console

Procs == CreateProcs \cup ReturnProcs \cup HookProcs \cup CancelProcs

ASSUME ConsoleAssumption == ConsoleCancels \subseteq {"partial", "cancelled"}

VARIABLES
  pg,       \* the payment of an order, at the provider
  pc, at, draft, qty,
  thanked   \* the orders whose customer was sent to /checkout/success

procVars == <<pc, at, draft, qty>>
vars     == <<storeVars, pg, procVars, thanked>>

PgStates == {"none", "approved", "partial", "cancelled"}

(* The provider took the customer's money at some time.                    *)
Charged(o) == pg[o] \in {"approved", "partial", "cancelled"}

(* What a request about an order does next.                                *)
OrderSteps == {"approve", "finalize", "commit", "cancelPayment", "netCancel",
               "cancelOrder", "hookCommit", "hookCancelPaid", "hookCancelUnpaid",
               "hookPartial", "userCancel", "restoreRead", "restore"}

NoQty == [s \in Skus |-> 0]

Init ==
  /\ StoreInit
  /\ pg = [o \in Orders |-> "none"]
  /\ pc = [p \in Procs |-> "idle"]
  /\ at = [p \in Procs |-> None]
  /\ draft = [p \in Procs |-> None]
  /\ qty = [p \in Procs |-> NoQty]
  /\ thanked = {}

(* A new request about order o, and the steps of one that is running.      *)
Start(p, o, l) == /\ pc[p] = "idle"
                  /\ pc' = [pc EXCEPT ![p] = l]
                  /\ at' = [at EXCEPT ![p] = o]
                  /\ UNCHANGED <<draft, qty>>

Goto(p, l) == pc' = [pc EXCEPT ![p] = l] /\ UNCHANGED <<at, draft, qty>>

(* The answer is sent; what the request had read is gone.                  *)
Done(p) == /\ pc' = [pc EXCEPT ![p] = "idle"]
           /\ at' = [at EXCEPT ![p] = None]
           /\ draft' = [draft EXCEPT ![p] = None]
           /\ qty' = [qty EXCEPT ![p] = NoQty]

Crash(p) == pc[p] # "idle" /\ Done(p) /\ UNCHANGED <<storeVars, pg, thanked>>

-----------------------------------------------------------------------------
(* POST /api/orders: the checks against what was read ...                  *)
CreateRead(p, f) ==
  /\ pc[p] = "idle"
  /\ \A s \in Skus : f.items[s] <= stock[s]
  /\ f.coupon # None => CouponOwner[f.coupon] = f.user /\ usedBy[f.coupon] = None
  /\ f.pointUsed > 0 => f.pointUsed <= balance[f.user]
  /\ pc' = [pc EXCEPT ![p] = "create"]
  /\ draft' = [draft EXCEPT ![p] = f]
  /\ UNCHANGED <<storeVars, pg, at, qty, thanked>>

(* ... and the transaction; if the coupon is taken by now it throws.       *)
CreateCommit(p) ==
  /\ pc[p] = "create"
  /\ \E o \in Orders : InsertOrder(o, draft[p])
  /\ Done(p)
  /\ UNCHANGED <<pg, thanked>>

CreateRefused(p) ==
  /\ pc[p] = "create"
  /\ ~CanHold(draft[p].coupon)
  /\ Done(p)
  /\ UNCHANGED <<storeVars, pg, thanked>>

-----------------------------------------------------------------------------
(* The customer comes back from the payment window.  An order that is no   *)
(* longer PENDING is answered at once, one that is PENDING is approved at  *)
(* the provider.  toss/confirm refuses an amount of zero.                  *)
PaidStatuses == {"PAID", "PREPARING", "SHIPPED", "DELIVERED"}

ReturnRead(p, o) ==
  /\ status[o] = "PENDING"
  /\ form[o].provider = "TOSS" => form[o].total > 0
  /\ Start(p, o, "approve")
  /\ UNCHANGED <<storeVars, pg, thanked>>

ReturnClosed(p, o) ==
  /\ pc[p] = "idle"
  /\ status[o] \in PaidStatuses
  /\ form[o].provider = "TOSS" => form[o].total > 0
  /\ thanked' = thanked \cup {o}
  /\ UNCHANGED <<storeVars, pg, procVars>>

(* The provider approves.  A repeated approval of the same payment may be  *)
(* answered like the first.                                                *)
Approve(o) == /\ pg[o] \in {"none", "approved"}
              /\ pg' = [pg EXCEPT ![o] = "approved"]

ReturnApproved(p) ==
  /\ pc[p] = "approve"
  /\ Approve(at[p])
  /\ Goto(p, "finalize")
  /\ UNCHANGED <<storeVars, thanked>>

(* The provider has approved another amount than the order's.  INICIS only *)
(* undoes the payment, NAVERPAY cancels the order as well.                 *)
ReturnMismatch(p) ==
  /\ pc[p] = "approve"
  /\ form[at[p]].provider \in {"INICIS", "NAVERPAY"}
  /\ Approve(at[p])
  /\ Goto(p, IF form[at[p]].provider = "INICIS" THEN "netCancel" ELSE "cancelPayment")
  /\ UNCHANGED <<storeVars, thanked>>

(* The provider refuses.  Only toss/confirm cancels the order then, and it *)
(* takes every error answer for a refusal, also one of a gateway behind    *)
(* which the payment was approved.                                         *)
ReturnRefused(p) ==
  /\ pc[p] = "approve"
  /\ IF form[at[p]].provider = "TOSS"
     THEN Goto(p, "cancelOrder") /\ (Approve(at[p]) \/ UNCHANGED pg)
     ELSE Done(p) /\ UNCHANGED pg
  /\ UNCHANGED <<storeVars, thanked>>

ReturnLost_Finalizes(p) ==
  /\ pc[p] = "approve"
  /\ Approve(at[p]) \/ UNCHANGED pg
  /\ Goto(p, "finalize")
  /\ UNCHANGED <<storeVars, thanked>>

(* The call fails or its answer cannot be read; the provider may have      *)
(* approved all the same.  inicis/return undoes the payment, the other two *)
(* leave it.                                                               *)
ReturnLost(p) ==
  /\ pc[p] = "approve"
  /\ Approve(at[p]) \/ UNCHANGED pg
  /\ IF form[at[p]].provider = "INICIS" THEN Goto(p, "netCancel") ELSE Done(p)
  /\ UNCHANGED <<storeVars, thanked>>

(* finalizeOrderPayment, its read: for an order that is no longer PENDING  *)
(* it returns without a word, and the customer gets the success page.      *)
ReturnFinalizeRead(p) ==
  /\ pc[p] = "finalize"
  /\ IF status[at[p]] = "PENDING"
     THEN Goto(p, "commit") /\ UNCHANGED thanked
     ELSE Done(p) /\ thanked' = thanked \cup {at[p]}
  /\ UNCHANGED <<storeVars, pg>>

ReturnFinalizeCommit(p) ==
  /\ pc[p] = "commit"
  /\ FinalizePayment(at[p])
  /\ thanked' = thanked \cup {at[p]}
  /\ Done(p)
  /\ UNCHANGED pg

(* The transaction throws: no stock, no points, or any database error.     *)
ReturnFinalizeFails(p) ==
  /\ pc[p] \in {"finalize", "commit"}
  /\ Goto(p, "cancelPayment")
  /\ UNCHANGED <<storeVars, pg, thanked>>

(* The payment is cancelled at the provider; whether that worked or not,   *)
(* the order is cancelled next, except after netCancel alone.              *)
ReturnCancelPayment(p) ==
  /\ pc[p] \in {"cancelPayment", "netCancel"}
  /\ pg' \in {pg, [pg EXCEPT ![at[p]] = IF @ = "approved" THEN "cancelled" ELSE @]}
  /\ IF pc[p] = "cancelPayment" THEN Goto(p, "cancelOrder") ELSE Done(p)
  /\ UNCHANGED <<storeVars, thanked>>

ReturnCancelOrder(p) ==
  /\ pc[p] = "cancelOrder"
  /\ CancelPendingOrder(at[p])
  /\ Done(p)
  /\ UNCHANGED <<pg, thanked>>

-----------------------------------------------------------------------------
(* Notifications of the provider: late, repeated or lost.                  *)

(* toss/webhook, DONE for a PENDING order: finalizeOrderPayment.  If that  *)
(* throws the answer is 500 and the provider sends the event again.        *)
HookDone(p, o) ==
  /\ form[o] # None /\ form[o].provider = "TOSS"
  /\ Charged(o)
  /\ status[o] = "PENDING"
  /\ Start(p, o, "hookCommit")
  /\ UNCHANGED <<storeVars, pg, thanked>>

HookFinalize(p) ==
  /\ pc[p] = "hookCommit"
  /\ FinalizePayment(at[p])
  /\ Done(p)
  /\ UNCHANGED <<pg, thanked>>

(* toss/webhook, EXPIRED, ABORTED or CANCELED for a PENDING order; the     *)
(* event may be about an earlier attempt to pay the same order.            *)
HookClose(o) ==
  /\ status[o] = "PENDING"
  /\ form[o].provider = "TOSS"
  /\ CancelPendingOrder(o)
  /\ UNCHANGED <<pg, procVars, thanked>>

(* The payment was cancelled: what each handler checks before it goes on.  *)
(* toss/webhook takes this branch for a PENDING order only if partial      *)
(* cancellations have added up to the whole; inicis/notify takes a partial *)
(* cancellation for a full one; naver/webhook does not look at the status. *)
HookCancelled(p, o) ==
  /\ status[o] # "NONE"
  /\ \/ /\ form[o].provider = "TOSS"
        /\ pg[o] = "cancelled" /\ status[o] # "CANCELLED"
        /\ status[o] = "PENDING" => "partial" \in ConsoleCancels
     \/ /\ form[o].provider = "INICIS"
        /\ pg[o] \in {"partial", "cancelled"} /\ status[o] \notin {"CANCELLED", "REFUNDED"}
     \/ /\ form[o].provider = "NAVERPAY"
        /\ pg[o] = "cancelled"
  /\ Start(p, o, IF o \in paid THEN "hookCancelPaid" ELSE "hookCancelUnpaid")
  /\ UNCHANGED <<storeVars, pg, thanked>>

HookPartial(p, o) ==
  /\ status[o] # "NONE"
  /\ form[o].provider # "INICIS"
  /\ form[o].provider = "TOSS" => status[o] # "CANCELLED"
  /\ pg[o] = "partial"
  /\ Start(p, o, "hookPartial")
  /\ UNCHANGED <<storeVars, pg, thanked>>

(* The unconditional update, and the stock if paidAt was set at the read.  *)
HookUpdate(p) ==
  /\ pc[p] \in {"hookCancelPaid", "hookCancelUnpaid"}
  /\ status' = [status EXCEPT ![at[p]] = "CANCELLED"]
  /\ refundedAmount' = IF form[at[p]].provider = "INICIS" THEN refundedAmount
                       ELSE [refundedAmount EXCEPT ![at[p]] = form[at[p]].total]
  /\ IF pc[p] = "hookCancelPaid" THEN Goto(p, "restoreRead") ELSE Done(p)
  /\ UNCHANGED <<form, paid, expired, refundedQty, refundRequests, stock, couponVars,
                 memberVars, pg, thanked>>

(* What a partial cancellation gave back; the whole amount when a notice of *)
(* Toss names none.                                                        *)
HookPartialUpdate(p) ==
  /\ pc[p] = "hookPartial"
  /\ status' = [status EXCEPT ![at[p]] = "PARTIALLY_REFUNDED"]
  /\ \E a \in 1..form[at[p]].total :
       /\ form[at[p]].provider = "NAVERPAY" => a < form[at[p]].total
       /\ refundedAmount' = [refundedAmount EXCEPT ![at[p]] = a]
  /\ Done(p)
  /\ UNCHANGED <<form, paid, expired, refundedQty, refundRequests, stock, couponVars,
                 memberVars, pg, thanked>>

-----------------------------------------------------------------------------
(* POST /api/orders/[id]/cancel by the member who ordered.                 *)
UserCancelPending(o) ==
  /\ status[o] = "PENDING"
  /\ form[o].user # None
  /\ CancelPendingOrder(o)
  /\ UNCHANGED <<pg, procVars, thanked>>

UserCancelRead(p, o) ==
  /\ status[o] = "PAID"
  /\ form[o].user # None
  /\ Start(p, o, "userCancel")
  /\ UNCHANGED <<storeVars, pg, thanked>>

UserCancelCommit(p) ==
  /\ pc[p] = "userCancel"
  /\ status' = [status EXCEPT ![at[p]] = "CANCELLED"]
  /\ refundRequests' = [refundRequests EXCEPT ![at[p]] = @ + 1]
  /\ Goto(p, "restoreRead")
  /\ UNCHANGED <<form, paid, expired, refundedQty, refundedAmount, stock, couponVars,
                 memberVars, pg, thanked>>

(* restoreOrderStock, for the customer's and for the provider's            *)
(* cancellation; the first ignores its failure, the second answers 500.    *)
RestoreRead(p) ==
  /\ pc[p] = "restoreRead"
  /\ pc' = [pc EXCEPT ![p] = "restore"]
  /\ qty' = [qty EXCEPT ![p] = Unrestored(at[p])]
  /\ UNCHANGED <<storeVars, pg, at, draft, thanked>>

RestoreCommit(p) ==
  /\ pc[p] = "restore"
  /\ RestoreStock(at[p], qty[p])
  /\ Done(p)
  /\ UNCHANGED <<pg, thanked>>

-----------------------------------------------------------------------------
(* Thirty minutes after its creation an order that is still waiting for    *)
(* its payment is due, and the cron, run every five minutes, cancels it.   *)
Expire(o) ==
  /\ status[o] = "PENDING"
  /\ o \notin expired
  /\ expired' = expired \cup {o}
  /\ UNCHANGED <<status, form, paid, refundVars, stock, couponVars, memberVars, pg,
                 procVars, thanked>>

CronExpire_BeforeDue(o) ==
  /\ status[o] = "PENDING"
  /\ o \notin expired
  /\ CancelPendingOrder(o)
  /\ UNCHANGED <<pg, procVars, thanked>>

CronExpire(o) ==
  /\ status[o] = "PENDING"
  /\ o \in expired
  /\ CancelPendingOrder(o)
  /\ UNCHANGED <<pg, procVars, thanked>>

(* The shop cancels an approved payment in the provider's console.         *)
ConsoleCancel(o) ==
  /\ pg[o] \in {"approved", "partial"}
  /\ pg' \in {[pg EXCEPT ![o] = c] : c \in ConsoleCancels}
  /\ pg' # pg
  /\ UNCHANGED <<storeVars, procVars, thanked>>

-----------------------------------------------------------------------------
Create(p) == \/ \E f \in Forms : CreateRead(p, f)
             \/ CreateCommit(p)
             \/ CreateRefused(p)

Return(p) == \/ \E o \in Orders : ReturnRead(p, o) \/ ReturnClosed(p, o)
             \/ ReturnApproved(p) \/ ReturnMismatch(p) \/ ReturnRefused(p) \/ ReturnLost(p)
             \/ ReturnFinalizeRead(p) \/ ReturnFinalizeCommit(p) \/ ReturnFinalizeFails(p)
             \/ ReturnCancelPayment(p) \/ ReturnCancelOrder(p)

Hook(p) == \/ \E o \in Orders : HookDone(p, o) \/ HookCancelled(p, o) \/ HookPartial(p, o)
           \/ HookFinalize(p) \/ HookUpdate(p) \/ HookPartialUpdate(p)

UserCancel(p) == \/ \E o \in Orders : UserCancelRead(p, o)
                 \/ UserCancelCommit(p)

Restore(p) == RestoreRead(p) \/ RestoreCommit(p)

Next == \/ \E p \in CreateProcs : Create(p)
        \/ \E p \in ReturnProcs : Return(p)
        \/ \E p \in HookProcs : Hook(p)
        \/ \E p \in CancelProcs : UserCancel(p)
        \/ \E p \in HookProcs \cup CancelProcs : Restore(p)
        \/ \E p \in Procs : Crash(p)
        \/ \E o \in Orders : HookClose(o) \/ UserCancelPending(o) \/ Expire(o)
                             \/ CronExpire(o) \/ ConsoleCancel(o)

Spec == Init /\ [][Next]_vars

(* Time passes and the cron runs; customers, providers and requests owe    *)
(* nothing.                                                                *)
FairSpec == Spec /\ \A o \in Orders : WF_vars(Expire(o)) /\ WF_vars(CronExpire(o))
-----------------------------------------------------------------------------
(* Rows, payments and requests are of their types; in particular no stock  *)
(* and no point balance ever goes below zero.                              *)
TypeOK ==
  /\ StoreTypeOK
  /\ thanked \subseteq Orders
  /\ pg \in [Orders -> PgStates]
  /\ pc \in [Procs -> {"idle", "create"} \cup OrderSteps]
  /\ at \in [Procs -> Orders \cup {None}]
  /\ draft \in [Procs -> Forms \cup {None}]
  /\ qty \in [Procs -> [Skus -> Nat]]

(* Two orders that wait for their payment never carry the same coupon,     *)
(* whatever creations, late payments and cancellations race: the promise   *)
(* of the reservation in orders/route.ts (README.md line 370).             *)
CouponHeldOnce ==
  \A o1, o2 \in Orders :
    /\ status[o1] = "PENDING" /\ status[o2] = "PENDING"
    /\ form[o1].coupon # None
    /\ form[o1].coupon = form[o2].coupon
    => o1 = o2

(* A hold belongs to an order that still waits for its payment, and to the *)
(* coupon that order carries: no cancellation leaves a coupon blocked      *)
(* (stock.ts lines 208 to 212).                                            *)
HoldOfPending ==
  \A c \in Coupons : hold[c] # None => /\ status[hold[c]] = "PENDING"
                                       /\ form[hold[c]].coupon = c

(* No order counts as paid, and no customer sees the success page, unless  *)
(* the provider has taken the money: neither the answers of the provider   *)
(* nor its notifications nor the order of their arrival can fake it.       *)
PaidWasCharged == \A o \in paid \cup thanked : Charged(o)

(* A paid order stays paid, whatever expiry, refused second return or      *)
(* customer's cancellation of a pending order races with the payment; only *)
(* a cancelled payment or a cancellation with a refund request ends it.    *)
PaidUntilRefund ==
  [][\A o \in Orders : status[o] = "PAID" /\ status'[o] # "PAID" =>
       pg[o] \in {"partial", "cancelled"} \/ refundRequests'[o] > refundRequests[o]]_vars

(* Every order leaves PENDING, even when the customer never comes back and *)
(* every notification is lost: the expiry cron (README.md line 371).       *)
PendingEnds == \A o \in Orders : status[o] = "PENDING" ~> status[o] # "PENDING"

(* No coupon stays blocked by an order: each hold ends, with the payment   *)
(* or without it.                                                          *)
HoldEnds == \A c \in Coupons, o \in Orders : hold[c] = o ~> hold[c] # o
=============================================================================
