-------------------------- MODULE AfterSalesProofs --------------------------
(***************************************************************************)
(* Proofs about AfterSales, for every set of orders, administrators,       *)
(* returns, screens and concurrent requests.                               *)
(*                                                                         *)
(* A step of Checkout is used through three lemmas: what it does to the    *)
(* rows (RowShape), to a payment at the provider (PgShape) and to the      *)
(* requests of Checkout (ProcShape).  The invariants of CheckoutProofs do  *)
(* not hold here, since a refund can take points back that were spent;     *)
(* AfterInv is what is left of them.                                       *)
(***************************************************************************)
EXTENDS AfterSales, CheckoutProofs, FiniteSums

(* The rows, with the points of a member possibly below zero.              *)
RowTypes ==
  /\ status \in [Orders -> Statuses]
  /\ form \in [Orders -> Forms \cup {None}]
  /\ \A o \in Orders : status[o] = "NONE" <=> form[o] = None
  /\ paid \subseteq Orders
  /\ \A o \in paid : status[o] # "NONE"
  /\ refundedQty \in [Orders -> [Skus -> Nat]]
  /\ refundedAmount \in [Orders -> Int]
  /\ stock \in [Skus -> Nat]
  /\ usedBy \in [Coupons -> Orders \cup {None}]
  /\ balance \in [Users -> Int]

(* A running request of Checkout works on an existing order.               *)
ProcKnows ==
  /\ ProcTypes
  /\ \A p \in Procs : pc[p] \in OrderSteps => at[p] \in Orders /\ status[at[p]] # "NONE"
  /\ \A p \in Procs : pc[p] = "create" => draft[p] \in Forms

(* An order that does not exist has no payment; a payment of which money   *)
(* went back is cancelled, in part or as a whole.                          *)
MoneyTypes ==
  /\ pg \in [Orders -> PgStates]
  /\ returned \in [Orders -> Nat]
  /\ \A o \in Orders : pg[o] \in {"none", "approved"} => returned[o] = 0
  /\ \A o \in Orders : form[o] = None => pg[o] = "none"
  /\ \A o \in Orders : form[o] # None => returned[o] <= form[o].total

CheckoutFacts == RowTypes /\ ProcKnows /\ MoneyTypes

LEMMA ExistingForm ==
  ASSUME RowTypes, NEW o \in Orders, status[o] # "NONE" \/ form[o] # None
  PROVE  /\ form[o] \in Forms /\ form[o] # None /\ status[o] # "NONE"
         /\ form[o].items \in [Skus -> Nat] /\ form[o].total \in Nat
         /\ form[o].user \in Users \cup {None} /\ form[o].coupon \in Coupons \cup {None}
         /\ form[o].pointUsed \in Nat /\ form[o].pointEarned \in Nat
<1>1. form[o] \in Forms /\ form[o] # None /\ status[o] # "NONE"
  BY DEF RowTypes
<1> QED BY <1>1, FormFacts

-----------------------------------------------------------------------------
(* What a step of Checkout does to the rows.                               *)
Inserts == \E o \in Orders, f \in Forms : InsertOrder(o, f)
Ends    == \E o \in Orders : status[o] = "PENDING" /\ CancelPendingOrder(o)
Pays    == \E p \in Procs : pc[p] \in {"commit", "hookCommit"} /\ FinalizePayment(at[p])
Notes   == \E p \in HookProcs : HookUpdate(p) \/ HookPartialUpdate(p)
Cancels == \E p \in CancelProcs : UserCancelCommit(p)
GivesBack == \E p \in Procs : pc[p] = "restore" /\ RestoreStock(at[p], qty[p])
Ages    == \E o \in Orders : Expire(o)

RowMoves == \/ UNCHANGED storeVars
            \/ Inserts \/ Ends \/ Pays \/ Notes \/ Cancels \/ GivesBack \/ Ages

LEMMA RowShape ==
  ASSUME CheckoutFacts, Next
  PROVE  RowMoves
<1> USE DEF RowMoves
<1>1. ASSUME NEW o \in Orders, CancelPendingOrder(o) PROVE RowMoves
  <2>1. CASE status[o] = "PENDING"
    BY <1>1, <2>1 DEF Ends
  <2>2. CASE status[o] # "PENDING"
    BY <1>1, <2>2 DEF CancelPendingOrder
  <2> QED BY <2>1, <2>2
<1>2. ASSUME NEW p \in CreateProcs, Create(p) PROVE RowMoves
  <2>1. CASE CreateCommit(p)
    BY <2>1 DEF CreateCommit, CheckoutFacts, ProcKnows, Inserts, Procs
  <2> QED BY <1>2, <2>1 DEF Create, CreateRead, CreateRefused
<1>3. ASSUME NEW p \in ReturnProcs, Return(p) PROVE RowMoves
  <2>1. CASE ReturnFinalizeCommit(p)
    BY <2>1 DEF ReturnFinalizeCommit, Pays, Procs
  <2>2. CASE ReturnCancelOrder(p)
    BY <1>1, <2>2 DEF ReturnCancelOrder, CheckoutFacts, ProcKnows, OrderSteps, Procs
  <2> QED BY <1>3, <2>1, <2>2
          DEF Return, ReturnRead, ReturnClosed, ReturnApproved, ReturnMismatch, ReturnRefused,
              ReturnLost, ReturnFinalizeRead, ReturnFinalizeFails, ReturnCancelPayment
<1>4. ASSUME NEW p \in HookProcs, Hook(p) PROVE RowMoves
  <2>1. CASE HookFinalize(p)
    BY <2>1 DEF HookFinalize, Pays, Procs
  <2> QED BY <1>4, <2>1 DEF Hook, HookDone, HookCancelled, HookPartial, Notes
<1>5. ASSUME NEW p \in CancelProcs, UserCancel(p) PROVE RowMoves
  BY <1>5 DEF UserCancel, UserCancelRead, Cancels
<1>6. ASSUME NEW p \in Procs, Restore(p) \/ Crash(p) PROVE RowMoves
  BY <1>6 DEF Restore, RestoreRead, RestoreCommit, Crash, GivesBack
<1>7. ASSUME NEW o \in Orders,
             HookClose(o) \/ UserCancelPending(o) \/ Expire(o) \/ CronExpire(o) \/ ConsoleCancel(o)
      PROVE  RowMoves
  BY <1>1, <1>7 DEF HookClose, UserCancelPending, CronExpire, ConsoleCancel, Ages
<1> HIDE DEF RowMoves
<1> QED BY <1>2, <1>3, <1>4, <1>5, <1>6, <1>7 DEF Next, Procs

-----------------------------------------------------------------------------
(* ... to the payments at the provider.                                    *)
PgGoes(o, x) ==
  /\ form[o] # None
  /\ pg' = [pg EXCEPT ![o] = x] /\ x # pg[o]
  /\ UNCHANGED storeVars
  /\ \/ pg[o] = "none" /\ x = "approved"
     \/ pg[o] \in {"approved", "partial"} /\ x = "cancelled"
     \/ pg[o] = "approved" /\ x = "partial"

LEMMA PgShape ==
  ASSUME CheckoutFacts, Next
  PROVE  pg' = pg \/ \E o \in Orders, x \in PgStates : PgGoes(o, x)
<1> DEFINE Goal == pg' = pg \/ \E o \in Orders, x \in PgStates : PgGoes(o, x)
<1>0. pg \in [Orders -> PgStates]
  BY DEF CheckoutFacts, MoneyTypes
<1>1. ASSUME NEW o \in Orders, form[o] # None, UNCHANGED storeVars, Approve(o)
      PROVE  Goal
  <2>1. CASE pg[o] = "approved"
    BY <1>0, <1>1, <2>1 DEF Approve
  <2>2. CASE pg[o] = "none"
    BY <1>1, <2>2 DEF Approve, PgGoes, PgStates
  <2> QED BY <1>1, <2>1, <2>2 DEF Approve
<1>2. ASSUME NEW o \in Orders, form[o] # None, UNCHANGED storeVars,
             pg' = [pg EXCEPT ![o] = IF @ = "approved" THEN "cancelled" ELSE @]
      PROVE  Goal
  <2>1. CASE pg[o] = "approved"
    BY <1>2, <2>1 DEF PgGoes, PgStates
  <2>2. CASE pg[o] # "approved"
    BY <1>0, <1>2, <2>2
  <2> QED BY <2>1, <2>2
<1>3. ASSUME NEW p \in Procs, pc[p] \in OrderSteps
      PROVE  at[p] \in Orders /\ form[at[p]] # None
  BY <1>3 DEF CheckoutFacts, ProcKnows, RowTypes
<1>4. ASSUME NEW p \in Procs, Return(p) PROVE Goal
  <2>1. CASE ReturnApproved(p) \/ ReturnMismatch(p) \/ ReturnRefused(p) \/ ReturnLost(p)
    <3>1. pc[p] = "approve" /\ UNCHANGED storeVars /\ (Approve(at[p]) \/ pg' = pg)
      BY <2>1 DEF ReturnApproved, ReturnMismatch, ReturnRefused, ReturnLost
    <3>2. at[p] \in Orders /\ form[at[p]] # None
      BY <1>3, <3>1 DEF OrderSteps
    <3> QED BY <1>1, <3>1, <3>2
  <2>2. CASE ReturnCancelPayment(p)
    <3>1. at[p] \in Orders /\ form[at[p]] # None
      BY <1>3, <2>2 DEF ReturnCancelPayment, OrderSteps
    <3> HIDE DEF Goal
    <3>2. CASE pg' = pg
      BY <3>2 DEF Goal
    <3> QED BY <1>2, <2>2, <3>1, <3>2 DEF ReturnCancelPayment
  <2> QED BY <1>4, <2>1, <2>2
          DEF Return, ReturnRead, ReturnClosed, ReturnFinalizeRead, ReturnFinalizeCommit,
              ReturnFinalizeFails, ReturnCancelOrder
<1>5. ASSUME NEW o \in Orders, ConsoleCancel(o) PROVE Goal
  <2>1. PICK x \in {"partial", "cancelled"} : pg' = [pg EXCEPT ![o] = x]
    BY <1>5, ConsoleAssumption DEF ConsoleCancel
  <2>2. pg[o] \in {"approved", "partial"} /\ pg' # pg /\ UNCHANGED storeVars
    BY <1>5 DEF ConsoleCancel
  <2>3. x # pg[o]
    BY <1>0, <2>1, <2>2
  <2>4. form[o] # None
    BY <2>2 DEF CheckoutFacts, MoneyTypes
  <2> QED BY <2>1, <2>2, <2>3, <2>4 DEF PgGoes, PgStates
<1>6. ASSUME NEW p \in Procs, Create(p) \/ Hook(p) \/ UserCancel(p) \/ Restore(p) \/ Crash(p)
      PROVE  pg' = pg
  BY <1>6 DEF Create, CreateRead, CreateCommit, CreateRefused, Hook, HookDone, HookCancelled,
              HookPartial, HookFinalize, HookUpdate, HookPartialUpdate, UserCancel, UserCancelRead,
              UserCancelCommit, Restore, RestoreRead, RestoreCommit, Crash
<1>7. ASSUME NEW o \in Orders, HookClose(o) \/ UserCancelPending(o) \/ Expire(o) \/ CronExpire(o)
      PROVE  pg' = pg
  BY <1>7 DEF HookClose, UserCancelPending, Expire, CronExpire
<1>8. Goal
  <2> HIDE DEF Goal
  <2>1. CASE pg' = pg
    BY <2>1 DEF Goal
  <2> QED BY <1>4, <1>5, <1>6, <1>7, <2>1 DEF Next, Procs
<1> QED BY <1>8

-----------------------------------------------------------------------------
(* ... and to its requests: one of them goes on, with what it needs.       *)
ProcMove(p, l, a, d, n) ==
  /\ pc' = [pc EXCEPT ![p] = l]
  /\ at' = [at EXCEPT ![p] = a]
  /\ draft' = [draft EXCEPT ![p] = d]
  /\ qty' = [qty EXCEPT ![p] = n]
  /\ l \in OrderSteps => a \in Orders /\ status[a] # "NONE"
  /\ l = "create" => d \in Forms

ProcMoves ==
  \E p \in Procs, l \in {"idle", "create"} \cup OrderSteps, a \in Orders \cup {None},
     d \in Forms \cup {None}, n \in [Skus -> Nat] : ProcMove(p, l, a, d, n)

LEMMA ProcShape ==
  ASSUME CheckoutFacts, Next
  PROVE  UNCHANGED procVars \/ ProcMoves
<1>0. /\ pc \in [Procs -> {"idle", "create"} \cup OrderSteps]
      /\ at \in [Procs -> Orders \cup {None}]
      /\ draft \in [Procs -> Forms \cup {None}]
      /\ qty \in [Procs -> [Skus -> Nat]]
      /\ \A p \in Procs : pc[p] \in OrderSteps => at[p] \in Orders /\ status[at[p]] # "NONE"
  BY DEF CheckoutFacts, ProcKnows, ProcTypes
<1>1. ASSUME NEW p \in Procs, Done(p) PROVE ProcMoves
  <2>1. NoQty \in [Skus -> Nat] /\ "idle" \notin OrderSteps
    BY DEF NoQty, OrderSteps
  <2> HIDE DEF NoQty
  <2>2. ProcMove(p, "idle", None, None, NoQty)
    BY <1>1, <2>1 DEF Done, ProcMove
  <2> QED BY <2>1, <2>2 DEF ProcMoves
<1>2. ASSUME NEW p \in Procs, pc[p] \in OrderSteps, NEW l \in OrderSteps, Goto(p, l)
      PROVE  ProcMoves
  <2>1. ProcMove(p, l, at[p], draft[p], qty[p])
    BY <1>0, <1>2 DEF Goto, ProcMove, OrderSteps
  <2> QED BY <1>0, <2>1 DEF ProcMoves
<1>3. ASSUME NEW p \in Procs, NEW o \in Orders, NEW l \in OrderSteps, status[o] # "NONE", Start(p, o, l)
      PROVE  ProcMoves
  <2>1. ProcMove(p, l, o, draft[p], qty[p])
    BY <1>0, <1>3 DEF Start, ProcMove, OrderSteps
  <2> QED BY <1>0, <2>1 DEF ProcMoves
<1>4. ASSUME NEW p \in Procs, Create(p) PROVE ProcMoves
  <2>1. ASSUME NEW f \in Forms, CreateRead(p, f) PROVE ProcMoves
    <3>1. ProcMove(p, "create", at[p], f, qty[p])
      BY <1>0, <2>1 DEF CreateRead, ProcMove, OrderSteps
    <3> QED BY <1>0, <3>1 DEF ProcMoves
  <2> QED BY <1>1, <1>4, <2>1 DEF Create, CreateCommit, CreateRefused
<1>5. ASSUME NEW p \in Procs, Return(p) PROVE UNCHANGED procVars \/ ProcMoves
  <2>1. ASSUME NEW o \in Orders, ReturnRead(p, o) PROVE ProcMoves
    BY <1>3, <2>1 DEF ReturnRead, OrderSteps
  <2>2. CASE \E o \in Orders : ReturnClosed(p, o)
    BY <2>2 DEF ReturnClosed
  <2>3. CASE ReturnApproved(p) \/ ReturnMismatch(p) \/ ReturnRefused(p) \/ ReturnLost(p)
    BY <1>1, <1>2, <2>3 DEF ReturnApproved, ReturnMismatch, ReturnRefused, ReturnLost, OrderSteps
  <2>4. CASE ReturnFinalizeRead(p) \/ ReturnFinalizeFails(p) \/ ReturnCancelPayment(p)
    BY <1>1, <1>2, <2>4 DEF ReturnFinalizeRead, ReturnFinalizeFails, ReturnCancelPayment, OrderSteps
  <2>5. CASE ReturnFinalizeCommit(p) \/ ReturnCancelOrder(p)
    BY <1>1, <2>5 DEF ReturnFinalizeCommit, ReturnCancelOrder
  <2> QED BY <1>5, <2>1, <2>2, <2>3, <2>4, <2>5 DEF Return
<1>6. ASSUME NEW p \in Procs, Hook(p) PROVE ProcMoves
  <2>1. ASSUME NEW o \in Orders, HookDone(p, o) \/ HookPartial(p, o) PROVE ProcMoves
    BY <1>3, <2>1 DEF HookDone, HookPartial, OrderSteps
  <2>2. ASSUME NEW o \in Orders, HookCancelled(p, o) PROVE ProcMoves
    <3>1. CASE o \in paid
      BY <1>3, <2>2, <3>1 DEF HookCancelled, OrderSteps
    <3>2. CASE o \notin paid
      BY <1>3, <2>2, <3>2 DEF HookCancelled, OrderSteps
    <3> QED BY <3>1, <3>2
  <2>3. CASE HookUpdate(p)
    BY <1>1, <1>2, <2>3 DEF HookUpdate, OrderSteps
  <2> QED BY <1>1, <1>6, <2>1, <2>2, <2>3 DEF Hook, HookFinalize, HookPartialUpdate
<1>7. ASSUME NEW p \in Procs, UserCancel(p) PROVE ProcMoves
  BY <1>2, <1>3, <1>7 DEF UserCancel, UserCancelRead, UserCancelCommit, OrderSteps
<1>8. ASSUME NEW p \in Procs, Restore(p) PROVE ProcMoves
  <2>1. CASE RestoreRead(p)
    <3>1. at[p] \in Orders /\ status[at[p]] # "NONE"
      BY <1>0, <2>1 DEF RestoreRead, OrderSteps
    <3>2. Unrestored(at[p]) \in [Skus -> Nat]
      BY <3>1, ExistingForm DEF Unrestored, CheckoutFacts, RowTypes
    <3> HIDE DEF Unrestored
    <3>3. ProcMove(p, "restore", at[p], draft[p], Unrestored(at[p]))
      BY <1>0, <2>1, <3>1 DEF RestoreRead, ProcMove
    <3> QED BY <1>0, <3>2, <3>3 DEF ProcMoves, OrderSteps
  <2> QED BY <1>1, <1>8, <2>1 DEF Restore, RestoreCommit
<1>9. ASSUME NEW p \in Procs, Crash(p) PROVE ProcMoves
  BY <1>1, <1>9 DEF Crash
<1>10. ASSUME NEW o \in Orders,
              HookClose(o) \/ UserCancelPending(o) \/ Expire(o) \/ CronExpire(o) \/ ConsoleCancel(o)
       PROVE  UNCHANGED procVars
  BY <1>10 DEF HookClose, UserCancelPending, Expire, CronExpire, ConsoleCancel, procVars
<1> QED BY <1>4, <1>5, <1>6, <1>7, <1>8, <1>9, <1>10 DEF Next, Procs

-----------------------------------------------------------------------------
(* What is kept of the rows by a step of Checkout and by a step of the     *)
(* administration.                                                         *)
LEMMA PaysFacts ==
  ASSUME CheckoutFacts, Pays
  PROVE  \E o \in Orders : /\ status[o] # "NONE" /\ form[o] \in Forms
                           /\ FinalizePayment(o)
BY DEF Pays, CheckoutFacts, ProcKnows, RowTypes, OrderSteps

LEMMA PayTypes ==
  ASSUME RowTypes, NEW o \in Orders, status[o] # "NONE", FinalizePayment(o)
  PROVE  RowTypes'
<1>1. /\ form[o] \in Forms /\ form[o] # None /\ form[o].items \in [Skus -> Nat]
      /\ form[o].pointUsed \in Nat /\ form[o].pointEarned \in Nat
      /\ form[o].user \in Users \cup {None} /\ form[o].coupon \in Coupons \cup {None}
  BY ExistingForm
<1> DEFINE f == form[o]
<1> USE DEF RowTypes, FinalizePayment
<1>2. stock' \in [Skus -> Nat]
  <2>1. \A s \in Skus : f.items[s] <= stock[s] /\ f.items[s] \in Nat /\ stock[s] \in Nat
    BY <1>1 DEF EnoughStock
  <2>2. \A s \in Skus : stock[s] - f.items[s] \in Nat
    BY <2>1
  <2> QED BY <2>2
<1>3. balance' \in [Users -> Int]
  <2>1. CASE f.user = None
    BY <2>1 DEF SettlePoints, memberVars
  <2>2. CASE f.user # None
    <3>1. balance' = [balance EXCEPT ![f.user] = @ - f.pointUsed + f.pointEarned] /\ f.user \in Users
      BY <1>1, <2>2 DEF SettlePoints
    <3>2. balance[f.user] - f.pointUsed + f.pointEarned \in Int
      BY <1>1, <3>1
    <3> QED BY <3>1, <3>2
  <2> QED BY <2>1, <2>2
<1>4. usedBy' \in [Coupons -> Orders \cup {None}]
  BY <1>1 DEF MarkCouponUsed
<1>5. /\ status' = [status EXCEPT ![o] = "PAID"] /\ paid' = paid \cup {o}
      /\ UNCHANGED <<form, refundedQty, refundedAmount>>
  BY DEF refundVars
<1> QED BY <1>1, <1>2, <1>3, <1>4, <1>5 DEF Statuses

(* No order disappears, and none changes after it is created.              *)
RowsLast == \A o \in Orders : /\ status[o] # "NONE" => status'[o] # "NONE"
                              /\ form[o] # None => form'[o] = form[o]

LEMMA CheckoutRowTypes ==
  ASSUME CheckoutFacts, Next
  PROVE  RowTypes' /\ RowsLast
<1> USE DEF CheckoutFacts
<1>1. CASE UNCHANGED storeVars
  BY <1>1 DEF storeVars, orderVars, refundVars, couponVars, memberVars, RowTypes, RowsLast
<1>2. ASSUME NEW o \in Orders, NEW f \in Forms, InsertOrder(o, f) PROVE RowTypes' /\ RowsLast
  BY <1>2, FormFacts DEF InsertOrder, refundVars, memberVars, RowTypes, RowsLast, Statuses
<1>3. ASSUME NEW o \in Orders, status[o] = "PENDING", CancelPendingOrder(o) PROVE RowTypes' /\ RowsLast
  BY <1>3 DEF CancelPendingOrder, refundVars, memberVars, RowTypes, RowsLast, Statuses
<1>4. ASSUME NEW o \in Orders, status[o] # "NONE", FinalizePayment(o) PROVE RowTypes' /\ RowsLast
  <2>1. RowTypes'
    BY <1>4, PayTypes
  <2> QED BY <1>4, <2>1 DEF FinalizePayment, RowTypes, RowsLast
<1>5. ASSUME NEW p \in HookProcs, HookUpdate(p) \/ HookPartialUpdate(p) PROVE RowTypes' /\ RowsLast
  <2>1. /\ at[p] \in Orders /\ status[at[p]] # "NONE" /\ form[at[p]] \in Forms
        /\ form[at[p]].total \in Nat
    <3>1. at[p] \in Orders /\ status[at[p]] # "NONE"
      BY <1>5 DEF HookUpdate, HookPartialUpdate, ProcKnows, OrderSteps, Procs
    <3> QED BY <3>1, ExistingForm
  <2>2. /\ UNCHANGED <<form, paid, refundedQty, stock, usedBy, balance>>
        /\ \E t \in {"CANCELLED", "PARTIALLY_REFUNDED"} : status' = [status EXCEPT ![at[p]] = t]
    BY <1>5 DEF HookUpdate, HookPartialUpdate, couponVars, memberVars
  <2>3. refundedAmount' \in [Orders -> Int]
    BY <1>5, <2>1 DEF HookUpdate, HookPartialUpdate, RowTypes
  <2> QED BY <2>1, <2>2, <2>3 DEF RowTypes, RowsLast, Statuses
<1>6. ASSUME NEW p \in CancelProcs, UserCancelCommit(p) PROVE RowTypes' /\ RowsLast
  <2>1. at[p] \in Orders /\ status[at[p]] # "NONE"
    BY <1>6 DEF UserCancelCommit, ProcKnows, OrderSteps, Procs
  <2> QED BY <1>6, <2>1 DEF UserCancelCommit, couponVars, memberVars, RowTypes, RowsLast, Statuses
<1>7. ASSUME NEW p \in Procs, pc[p] = "restore", RestoreStock(at[p], qty[p]) PROVE RowTypes' /\ RowsLast
  <2>1. at[p] \in Orders /\ status[at[p]] # "NONE" /\ qty[p] \in [Skus -> Nat]
    BY <1>7 DEF ProcKnows, ProcTypes, OrderSteps
  <2>2. form[at[p]].items \in [Skus -> Nat]
    BY <2>1, ExistingForm
  <2> QED BY <1>7, <2>1, <2>2
          DEF RestoreStock, orderVars, couponVars, memberVars, RowTypes, RowsLast
<1>8. ASSUME NEW o \in Orders, Expire(o) PROVE RowTypes' /\ RowsLast
  BY <1>8 DEF Expire, refundVars, couponVars, memberVars, RowTypes, RowsLast
<1> QED BY <1>1, <1>2, <1>3, <1>4, <1>5, <1>6, <1>7, <1>8, RowShape, PaysFacts
        DEF RowMoves, Inserts, Ends, Notes, Cancels, GivesBack, Ages

-----------------------------------------------------------------------------
(* The requests of the administration and of customers, and the rows of    *)
(* returns.                                                                *)
PatchJobs   == [step : {"patch"}, order : Orders, target : Statuses, restock : BOOLEAN]
RefundJobs  == [step : {"refundCall", "refund"}, order : Orders, amount : Nat, full : BOOLEAN,
                options : [points : BOOLEAN, coupon : BOOLEAN, skipPgCall : BOOLEAN],
                units : [Skus -> Nat]]
ReturnJobs  == [step : {"returnCall", "return"}, id : Returns, order : Orders,
                target : ReturnStatuses, complete : BOOLEAN, amount : Int, skipped : BOOLEAN,
                full : BOOLEAN]
RequestJobs == [step : {"request"}, row : ReturnRows]
EditJobs    == [step : {"edit"}, sku : Skus, shown : Nat]
Jobs == {Idle} \cup PatchJobs \cup RefundJobs \cup ReturnJobs \cup RequestJobs \cup EditJobs

Desk == Admins \cup Customers

(* Requests work on existing orders and returns; only an update that ends  *)
(* the order gives its units back; what is asked of the provider is not    *)
(* nothing.                                                                *)
JobKnows(j) ==
  /\ j.step = "patch" => /\ form[j.order] # None /\ j.target # "NONE"
                         /\ j.restock => j.target \in Closing
  /\ j.step \in {"refundCall", "refund"} => form[j.order] # None /\ j.amount > 0
  /\ j.step = "refundCall" => ~j.options.skipPgCall
  /\ j.step \in {"returnCall", "return"} =>
       form[j.order] # None /\ returns[j.id] # None /\ returns[j.id].order = j.order
  /\ j.step = "returnCall" => j.amount > 0 /\ j.complete /\ ~j.skipped
  /\ j.step = "request" => form[j.row.order] # None

JobsKnow == /\ job \in [Desk -> Jobs]
            /\ \A p \in Desk : JobKnows(job[p])

ReturnsKnow == /\ returns \in [Returns -> ReturnRows \cup {None}]
               /\ \A r \in Returns : returns[r] # None => form[returns[r].order] # None

(* A return never disappears, and stays with its order.                    *)
ReturnsLast == \A r \in Returns : returns[r] # None =>
                 /\ returns'[r] # None /\ returns'[r].order = returns[r].order

AfterInv ==
  /\ RowTypes /\ ProcKnows /\ MoneyTypes
  /\ JobsKnow /\ ReturnsKnow
  /\ desk \in Desks
  /\ refunds \in [Orders -> [pg : Int, manual : Int]]
  /\ backRows \in [Orders -> [spent : Nat, earned : Nat]]

LEMMA JobKind ==
  ASSUME NEW j \in Jobs
  PROVE  /\ j.step \in {"idle", "patch", "refundCall", "refund", "returnCall", "return",
                        "request", "edit"}
         /\ j.step = "patch" => j \in PatchJobs
         /\ j.step \in {"refundCall", "refund"} => j \in RefundJobs
         /\ j.step \in {"returnCall", "return"} => j \in ReturnJobs
         /\ j.step = "request" => j \in RequestJobs
         /\ j.step = "edit" => j \in EditJobs
BY DEF Jobs, Idle, PatchJobs, RefundJobs, ReturnJobs, RequestJobs, EditJobs

(* A request keeps what it knows, whatever another one does.               *)
LEMMA KnowsOn ==
  ASSUME RowsLast, ReturnsLast, NEW j \in Jobs, JobKnows(j)
  PROVE  JobKnows(j)'
<1>1. j.step = "patch" => form'[j.order] # None
  BY JobKind DEF JobKnows, RowsLast, PatchJobs
<1>2. j.step \in {"refundCall", "refund"} => form'[j.order] # None
  BY JobKind DEF JobKnows, RowsLast, RefundJobs
<1>3. j.step \in {"returnCall", "return"} =>
        form'[j.order] # None /\ returns'[j.id] # None /\ returns'[j.id].order = j.order
  BY JobKind DEF JobKnows, RowsLast, ReturnsLast, ReturnJobs
<1>4. j.step = "request" => form'[j.row.order] # None
  BY JobKind DEF JobKnows, RowsLast, RequestJobs, ReturnRows
<1> QED BY <1>1, <1>2, <1>3, <1>4 DEF JobKnows

LEMMA JobStep ==
  ASSUME JobsKnow, RowsLast, ReturnsLast,
         NEW p \in Desk, NEW j \in Jobs, JobKnows(j)', job' = [job EXCEPT ![p] = j]
  PROVE  JobsKnow'
<1>1. job' \in [Desk -> Jobs]
  BY DEF JobsKnow
<1>2. ASSUME NEW q \in Desk PROVE JobKnows(job[q])'
  <2>1. CASE q = p
    BY <2>1 DEF JobsKnow, JobKnows
  <2>2. CASE q # p
    <3>1. job'[q] = job[q] /\ job[q] \in Jobs /\ JobKnows(job[q])
      BY <2>2 DEF JobsKnow
    <3> DEFINE k == job[q]
    <3>2. PICK m \in Jobs : m = job[q]
      BY <3>1
    <3>3. JobKnows(m)'
      BY <3>1, <3>2, KnowsOn
    <3> QED BY <3>1, <3>2, <3>3 DEF JobKnows
  <2> QED BY <2>1, <2>2
<1> QED BY <1>1, <1>2 DEF JobsKnow

LEMMA JobStay ==
  ASSUME JobsKnow, RowsLast, ReturnsLast, job' = job
  PROVE  JobsKnow'
<1>1. ASSUME NEW q \in Desk PROVE JobKnows(job[q])'
  <2>1. PICK m \in Jobs : m = job[q] /\ JobKnows(m)
    BY DEF JobsKnow
  <2>2. JobKnows(m)'
    BY <2>1, KnowsOn
  <2> QED BY <2>1, <2>2 DEF JobKnows
<1> QED BY <1>1 DEF JobsKnow

LEMMA AnswerStep ==
  ASSUME JobsKnow, RowsLast, ReturnsLast, NEW p \in Desk, Answer(p)
  PROVE  JobsKnow'
<1>1. Idle \in Jobs
  BY DEF Jobs
<1>2. JobKnows(Idle)'
  BY DEF JobKnows, Idle
<1>3. job' = [job EXCEPT ![p] = Idle]
  BY DEF Answer, Take
<1> QED BY <1>1, <1>2, <1>3, JobStep

(* The requests of Checkout, in any step that leaves them alone.           *)
LEMMA ProcStay ==
  ASSUME ProcKnows, RowsLast, UNCHANGED procVars
  PROVE  ProcKnows'
BY DEF ProcKnows, ProcTypes, RowsLast, procVars

LEMMA ProcGoes ==
  ASSUME ProcKnows, RowsLast, ProcMoves
  PROVE  ProcKnows'
<1>1. PICK p \in Procs, l \in {"idle", "create"} \cup OrderSteps, a \in Orders \cup {None},
           d \in Forms \cup {None}, n \in [Skus -> Nat] : ProcMove(p, l, a, d, n)
  BY DEF ProcMoves
<1>2. ProcTypes'
  BY <1>1 DEF ProcKnows, ProcTypes, ProcMove
<1>3. ASSUME NEW q \in Procs, pc'[q] \in OrderSteps PROVE at'[q] \in Orders /\ status'[at'[q]] # "NONE"
  BY <1>1, <1>3 DEF ProcKnows, ProcTypes, ProcMove, RowsLast
<1>4. ASSUME NEW q \in Procs, pc'[q] = "create" PROVE draft'[q] \in Forms
  BY <1>1, <1>4 DEF ProcKnows, ProcTypes, ProcMove
<1> QED BY <1>2, <1>3, <1>4 DEF ProcKnows

-----------------------------------------------------------------------------
(* The money that goes back in a step of Checkout: never less than before, *)
(* never more than was paid.                                               *)
MoneyBack(o, x) ==
  /\ PgGoes(o, x)
  /\ \E a \in Nat : /\ returned' = [returned EXCEPT ![o] = a]
                    /\ returned[o] <= a /\ a <= form[o].total
                    /\ x = "approved" => a = 0

LEMMA MoneyShape ==
  ASSUME CheckoutFacts, Next, MoneyFollows
  PROVE  UNCHANGED <<pg, returned>> \/ \E o \in Orders, x \in PgStates : MoneyBack(o, x)
<1>1. CASE pg' = pg
  BY <1>1 DEF MoneyFollows
<1>2. ASSUME NEW o \in Orders, NEW x \in PgStates, PgGoes(o, x) PROVE MoneyBack(o, x)
  <2>0. /\ pg \in [Orders -> PgStates] /\ returned \in [Orders -> Nat]
        /\ pg' = [pg EXCEPT ![o] = x] /\ x # pg[o]
    BY <1>2 DEF CheckoutFacts, MoneyTypes, PgGoes
  <2>1. \A q \in Orders : pg'[q] # pg[q] <=> q = o
    BY <2>0
  <2>2. (CHOOSE q \in Orders : pg'[q] # pg[q]) = o
    BY <2>1
  <2>3. pg' # pg
    BY <2>1
  <2>4. pg'[o] = x
    BY <2>0
  <2>5. form[o].total \in Nat
    BY <1>2, ExistingForm DEF CheckoutFacts, PgGoes
  <2>6. PICK a \in CASE x = "cancelled" -> {form[o].total}
                     [] x = "partial"   -> 1..(form[o].total - 1)
                     [] OTHER           -> {0} : returned' = [returned EXCEPT ![o] = a]
    BY <2>2, <2>3, <2>4 DEF MoneyFollows
  <2>7. a \in Nat /\ returned[o] <= a /\ a <= form[o].total /\ (x = "approved" => a = 0)
    <3>1. CASE x = "cancelled"
      <4>1. a = form[o].total
        BY <2>6, <3>1
      <4>2. returned[o] <= form[o].total
        BY <1>2 DEF CheckoutFacts, MoneyTypes, PgGoes
      <4> QED BY <2>5, <3>1, <4>1, <4>2
    <3>2. CASE x = "partial"
      <4>1. a \in 1..(form[o].total - 1)
        BY <2>6, <3>2
      <4>2. returned[o] = 0
        BY <1>2, <3>2 DEF PgGoes, CheckoutFacts, MoneyTypes
      <4> QED BY <2>5, <3>2, <4>1, <4>2
    <3>3. CASE x = "approved"
      <4>1. a = 0
        BY <2>6, <3>3
      <4>2. returned[o] = 0
        BY <1>2, <3>3 DEF PgGoes, CheckoutFacts, MoneyTypes
      <4> QED BY <2>5, <4>1, <4>2
    <3> QED BY <1>2, <3>1, <3>2, <3>3 DEF PgGoes
  <2>8. returned' = [returned EXCEPT ![o] = a]
    BY <2>6
  <2> QED BY <1>2, <2>7, <2>8 DEF MoneyBack
<1> QED BY <1>1, <1>2, PgShape

LEMMA CheckoutMoney ==
  ASSUME CheckoutFacts, Next, MoneyFollows
  PROVE  MoneyTypes'
<1>0. RowTypes' /\ RowsLast
  BY CheckoutRowTypes
<1>1. CASE UNCHANGED <<pg, returned>>
  <2>1. ASSUME NEW o \in Orders, form'[o] # None PROVE returned[o] <= form'[o].total
    <3>1. CASE form[o] # None
      BY <1>0, <3>1 DEF RowsLast, CheckoutFacts, MoneyTypes
    <3>2. CASE form[o] = None
      <4>1. returned[o] = 0
        BY <3>2 DEF CheckoutFacts, MoneyTypes
      <4>2. form'[o] \in Forms
        BY <1>0, <2>1 DEF RowTypes
      <4> QED BY <4>1, <4>2, FormFacts
    <3> QED BY <3>1, <3>2
  <2>2. \A o \in Orders : form'[o] = None => form[o] = None
    BY <1>0 DEF RowsLast
  <2> QED BY <1>1, <2>1, <2>2 DEF CheckoutFacts, MoneyTypes
<1>2. ASSUME NEW o \in Orders, NEW x \in PgStates, MoneyBack(o, x) PROVE MoneyTypes'
  <2>1. form' = form
    BY <1>2 DEF MoneyBack, PgGoes, storeVars, orderVars
  <2>2. x # "none"
    BY <1>2 DEF MoneyBack, PgGoes
  <2> QED BY <1>2, <2>1, <2>2 DEF MoneyBack, PgGoes, CheckoutFacts, MoneyTypes, PgStates
<1> QED BY <1>1, <1>2, MoneyShape

(* A step of Checkout, as the rest of the shop sees it.                    *)
LEMMA CheckoutInv ==
  ASSUME AfterInv, CheckoutStep
  PROVE  AfterInv' /\ RowsLast /\ ReturnsLast
<1>1. CheckoutFacts /\ Next /\ MoneyFollows /\ UNCHANGED <<desk, job, returns, refunds, backRows>>
  BY DEF AfterInv, CheckoutFacts, CheckoutStep
<1>2. RowTypes' /\ RowsLast /\ MoneyTypes'
  BY <1>1, CheckoutRowTypes, CheckoutMoney
<1>3. ProcKnows'
  BY <1>1, <1>2, ProcShape, ProcStay, ProcGoes DEF CheckoutFacts
<1>4. ReturnsLast
  BY <1>1 DEF ReturnsLast
<1>5. JobsKnow'
  BY <1>1, <1>2, <1>4, JobStay DEF AfterInv
<1>6. ReturnsKnow'
  BY <1>1, <1>2 DEF AfterInv, ReturnsKnow, RowsLast, ReturnRows
<1> QED BY <1>1, <1>2, <1>3, <1>4, <1>5, <1>6 DEF AfterInv

-----------------------------------------------------------------------------
(* The steps of the administration and of customers.                       *)
LEMMA AmountNat ==
  ASSUME IsFiniteSet(Skus), NEW units \in [Skus -> Nat]
  PROVE  AmountOf(units) \in Nat
<1> DEFINE F == [s \in Skus |-> Price[s] * units[s]]
<1>1. \A s \in Skus : F[s] \in Nat
  <2> SUFFICES ASSUME NEW s \in Skus PROVE Price[s] * units[s] \in Nat
    OBVIOUS
  <2>1. Price[s] \in Nat /\ units[s] \in Nat
    BY AfterAssumption
  <2> QED BY <2>1
<1>2. SumFunctionOnSet(F, Skus) \in Nat
  <2> HIDE DEF F
  <2> QED BY <1>1, SumNat
<1>3. AmountOf(units) = SumFunctionOnSet(F, Skus)
  BY DEF AmountOf, SumFunction
<1> QED BY <1>2, <1>3

(* A read changes what its request knows, and nothing else.                *)
LEMMA ReadStep ==
  ASSUME AfterInv, UNCHANGED <<vars, desk, returns, returned, refunds, backRows>>,
         NEW p \in Desk, NEW j \in Jobs, JobKnows(j), Take(p, j)
  PROVE  AfterInv' /\ RowsLast /\ ReturnsLast
<1>1. /\ UNCHANGED <<status, form, paid, refundedQty, refundedAmount, stock, usedBy, balance, pg>>
      /\ UNCHANGED <<pc, at, draft, qty>>
  BY DEF vars, storeVars, orderVars, refundVars, couponVars, memberVars, procVars
<1>2. RowTypes' /\ RowsLast /\ MoneyTypes'
  BY <1>1 DEF AfterInv, RowTypes, RowsLast, MoneyTypes
<1>3. ProcKnows'
  BY <1>1, <1>2, ProcStay DEF AfterInv, procVars
<1>4. ReturnsLast
  BY DEF ReturnsLast
<1>5. JobsKnow'
  BY <1>2, <1>4, KnowsOn, JobStep DEF AfterInv, Take
<1>6. ReturnsKnow'
  BY <1>1 DEF AfterInv, ReturnsKnow
<1> QED BY <1>2, <1>3, <1>4, <1>5, <1>6 DEF AfterInv

LEMMA PatchReads ==
  ASSUME AfterInv, NEW p \in Desk, NEW o \in Orders, NEW t \in Statuses,
         PatchRead(p, o, t) \/ BulkShipRead(p, o)
  PROVE  AfterInv' /\ RowsLast /\ ReturnsLast
<1>1. ASSUME PatchRead(p, o, t)
      PROVE  AfterInv' /\ RowsLast /\ ReturnsLast
  <2> DEFINE j == [step |-> "patch", order |-> o, target |-> t,
                   restock |-> t \in Closing /\ status[o] \in PaidStatuses]
  <2>1. status[o] \in Statuses /\ t \in NextTransitions[status[o]]
    BY <1>1 DEF PatchRead, AfterInv, RowTypes
  <2>2. status[o] # "NONE" /\ t # "NONE"
    BY <2>1 DEF NextTransitions, Statuses
  <2>3. form[o] # None
    BY <2>2 DEF AfterInv, RowTypes
  <2>4. j \in PatchJobs
    BY DEF PatchJobs
  <2>5. j \in Jobs
    <3> HIDE DEF j
    <3> QED BY <2>4 DEF Jobs
  <2>6. JobKnows(j)
    BY <2>2, <2>3 DEF JobKnows
  <2>7. Take(p, j) /\ UNCHANGED <<vars, desk, returns, returned, refunds, backRows>>
    BY <1>1 DEF PatchRead
  <2> HIDE DEF j
  <2> QED BY <2>5, <2>6, <2>7, ReadStep
<1>2. ASSUME BulkShipRead(p, o)
      PROVE  AfterInv' /\ RowsLast /\ ReturnsLast
  <2> DEFINE j == [step |-> "patch", order |-> o, target |-> "SHIPPED", restock |-> FALSE]
  <2>1. form[o] # None
    BY <1>2 DEF BulkShipRead, AfterInv, RowTypes
  <2>2. j \in PatchJobs
    BY DEF PatchJobs, Statuses
  <2>3. j \in Jobs
    <3> HIDE DEF j
    <3> QED BY <2>2 DEF Jobs
  <2>4. JobKnows(j)
    BY <2>1 DEF JobKnows
  <2>5. Take(p, j) /\ UNCHANGED <<vars, desk, returns, returned, refunds, backRows>>
    BY <1>2 DEF BulkShipRead
  <2> HIDE DEF j
  <2> QED BY <2>3, <2>4, <2>5, ReadStep
<1> QED BY <1>1, <1>2

LEMMA RefundReads ==
  ASSUME AfterInv, NEW p \in Desk, NEW o \in Orders, form[o] # None,
         NEW opt \in RefundOptions, NEW a \in 1..form[o].total, RefundRead(p, o, a, opt)
  PROVE  AfterInv' /\ RowsLast /\ ReturnsLast
<1> DEFINE full == a + refundedAmount[o] = form[o].total
           j == [step |-> IF opt.skipPgCall THEN "refund" ELSE "refundCall",
                 order |-> o, amount |-> a, full |-> full, options |-> opt,
                 units |-> IF full THEN Unrestored(o) ELSE NoQty]
<1>1. form[o].items \in [Skus -> Nat] /\ form[o].total \in Nat
  BY ExistingForm DEF AfterInv
<1>2. opt \in [points : BOOLEAN, coupon : BOOLEAN, skipPgCall : BOOLEAN] /\ a \in Nat /\ a > 0
  BY <1>1, AfterAssumption
<1>3. Unrestored(o) \in [Skus -> Nat] /\ NoQty \in [Skus -> Nat]
  BY <1>1 DEF AfterInv, RowTypes, Unrestored, NoQty
<1>4. j \in RefundJobs
  <2> HIDE DEF Unrestored, NoQty
  <2> QED BY <1>2, <1>3 DEF RefundJobs
<1>5. j \in Jobs
  <2> HIDE DEF j
  <2> QED BY <1>4 DEF Jobs
<1>6. JobKnows(j)
  BY <1>2 DEF JobKnows
<1>7. Take(p, j) /\ UNCHANGED <<vars, desk, returns, returned, refunds, backRows>>
  BY DEF RefundRead
<1> HIDE DEF j
<1> QED BY <1>5, <1>6, <1>7, ReadStep

LEMMA ReturnReads ==
  ASSUME AfterInv, NEW p \in Desk, NEW r \in Returns,
         NEW t \in {"APPROVED", "PICKED_UP", "COMPLETED", "REJECTED"}, NEW skip \in BOOLEAN,
         ReturnStaffRead(p, r, t, skip)
  PROVE  AfterInv' /\ RowsLast /\ ReturnsLast
<1> DEFINE rr == returns[r]
           a == RestOf(rr)
           complete == t = "COMPLETED" /\ rr.type = "RETURN"
           j == [step |-> IF complete /\ a > 0 /\ ~skip THEN "returnCall" ELSE "return",
                 id |-> r, order |-> rr.order, target |-> t, complete |-> complete,
                 amount |-> a, skipped |-> skip,
                 full |-> complete /\ a + refundedAmount[rr.order] >= form[rr.order].total]
<1>1. rr # None /\ rr \in ReturnRows /\ rr.order \in Orders /\ rr.amount \in Nat /\ form[rr.order] # None
  BY DEF ReturnStaffRead, AfterInv, ReturnsKnow, ReturnRows
<1>2. form[rr.order].total \in Nat /\ refundedAmount[rr.order] \in Int
  BY <1>1, ExistingForm DEF AfterInv, RowTypes
<1>3. a \in Int
  BY <1>1, <1>2 DEF RestOf
<1>4. j \in ReturnJobs
  <2> HIDE DEF a, rr
  <2> QED BY <1>1, <1>3 DEF ReturnJobs, ReturnStatuses
<1>5. j \in Jobs
  <2> HIDE DEF j
  <2> QED BY <1>4 DEF Jobs
<1>6. JobKnows(j)
  <2> HIDE DEF a
  <2> QED BY <1>1 DEF JobKnows
<1>7. Take(p, j) /\ UNCHANGED <<vars, desk, returns, returned, refunds, backRows>>
  BY DEF ReturnStaffRead
<1> HIDE DEF j
<1> QED BY <1>5, <1>6, <1>7, ReadStep

LEMMA OtherReads ==
  ASSUME AfterInv, NEW p \in Desk,
         (\E s \in Skus : EditRead(p, s)) \/ Cut(p)
  PROVE  AfterInv' /\ RowsLast /\ ReturnsLast
<1>1. ASSUME NEW s \in Skus, EditRead(p, s) PROVE AfterInv' /\ RowsLast /\ ReturnsLast
  <2> DEFINE j == [step |-> "edit", sku |-> s, shown |-> stock[s]]
  <2>1. j \in EditJobs
    BY DEF EditJobs, AfterInv, RowTypes
  <2>2. j \in Jobs
    <3> HIDE DEF j
    <3> QED BY <2>1 DEF Jobs
  <2>3. JobKnows(j)
    BY DEF JobKnows
  <2>4. Take(p, j) /\ UNCHANGED <<vars, desk, returns, returned, refunds, backRows>>
    BY <1>1 DEF EditRead
  <2> HIDE DEF j
  <2> QED BY <2>2, <2>3, <2>4, ReadStep
<1>2. ASSUME Cut(p) PROVE AfterInv' /\ RowsLast /\ ReturnsLast
  <2>1. Idle \in Jobs /\ JobKnows(Idle)
    BY DEF Jobs, JobKnows, Idle
  <2>2. Take(p, Idle) /\ UNCHANGED <<vars, desk, returns, returned, refunds, backRows>>
    BY <1>2 DEF Cut, Answer
  <2> QED BY <2>1, <2>2, ReadStep
<1> QED BY <1>1, <1>2

LEMMA RequestReads ==
  ASSUME AfterInv, IsFiniteSet(Skus), NEW p \in Desk, NEW o \in Orders,
         NEW t \in {"RETURN", "EXCHANGE"}, NEW units \in [Skus -> 0..MaxUnits],
         RequestRead(p, o, units, t)
  PROVE  AfterInv' /\ RowsLast /\ ReturnsLast
<1> DEFINE row == [order |-> o, units |-> units, type |-> t, amount |-> AmountOf(units),
                   status |-> "REQUESTED"]
           j == [step |-> "request", row |-> row]
<1>1. form[o] # None
  BY DEF RequestRead, AfterInv, RowTypes
<1>2. units \in [Skus -> Nat]
  BY AfterAssumption
<1>3. AmountOf(units) \in Nat
  BY <1>2, AmountNat
<1>4. row \in ReturnRows
  BY <1>2, <1>3 DEF ReturnRows, ReturnStatuses
<1>5. j \in RequestJobs
  BY <1>4 DEF RequestJobs
<1>6. j \in Jobs
  <2> HIDE DEF j
  <2> QED BY <1>5 DEF Jobs
<1>7. JobKnows(j)
  BY <1>1 DEF JobKnows
<1>8. Take(p, j) /\ UNCHANGED <<vars, desk, returns, returned, refunds, backRows>>
  BY DEF RequestRead
<1> HIDE DEF j
<1> QED BY <1>6, <1>7, <1>8, ReadStep

(* The customer's request becomes a row.                                   *)
LEMMA RequestCommits ==
  ASSUME AfterInv, NEW p \in Desk, RequestCommit(p)
  PROVE  AfterInv' /\ RowsLast /\ ReturnsLast
<1>1. job[p].step = "request" /\ job[p] \in RequestJobs
  BY JobKind DEF RequestCommit, AfterInv, JobsKnow
<1>2. job[p].row \in ReturnRows /\ form[job[p].row.order] # None
  BY <1>1 DEF RequestJobs, AfterInv, JobsKnow, JobKnows
<1>3. PICK r \in Returns : returns[r] = None /\ returns' = [returns EXCEPT ![r] = job[p].row]
  BY DEF RequestCommit
<1>4. /\ UNCHANGED <<status, form, paid, refundedQty, refundedAmount, stock, usedBy, balance, pg>>
      /\ UNCHANGED <<pc, at, draft, qty>>
      /\ UNCHANGED <<desk, returned, refunds, backRows>>
  BY DEF RequestCommit, vars, storeVars, orderVars, refundVars, couponVars, memberVars, procVars
<1>5. RowTypes' /\ RowsLast /\ MoneyTypes'
  BY <1>4 DEF AfterInv, RowTypes, RowsLast, MoneyTypes
<1>6. ProcKnows'
  BY <1>4, <1>5, ProcStay DEF AfterInv, procVars
<1>7. ReturnsLast
  BY <1>3 DEF ReturnsLast, AfterInv, ReturnsKnow
<1>8. JobsKnow'
  BY <1>5, <1>7, AnswerStep DEF AfterInv, RequestCommit
<1>9. ReturnsKnow'
  BY <1>2, <1>3, <1>4 DEF AfterInv, ReturnsKnow
<1> QED BY <1>4, <1>5, <1>6, <1>8, <1>9, <1>7 DEF AfterInv

(* The money that a call moves.                                            *)
LEMMA PgReturnsStep ==
  ASSUME AfterInv, NEW o \in Orders, form[o] # None, NEW a \in Nat, a > 0, PgReturns(o, a),
         form' = form
  PROVE  MoneyTypes' /\ returned' = [returned EXCEPT ![o] = returned[o] + a]
<1>1. form[o].total \in Nat /\ returned[o] \in Nat
  BY ExistingForm DEF AfterInv, MoneyTypes
<1>2. /\ returned' = [returned EXCEPT ![o] = returned[o] + a]
      /\ returned[o] + a <= form[o].total
      /\ pg' = [pg EXCEPT ![o] = IF returned[o] + a = form[o].total THEN "cancelled" ELSE "partial"]
  BY DEF PgReturns
<1>3. pg' \in [Orders -> PgStates] /\ pg'[o] \in {"cancelled", "partial"}
  BY <1>2 DEF AfterInv, MoneyTypes, PgStates
<1>4. \A q \in Orders \ {o} : pg'[q] = pg[q] /\ returned'[q] = returned[q]
  BY <1>2
<1>5. returned' \in [Orders -> Nat] /\ returned'[o] = returned[o] + a
  BY <1>1, <1>2 DEF AfterInv, MoneyTypes
<1> QED BY <1>1, <1>2, <1>3, <1>4, <1>5 DEF AfterInv, MoneyTypes

LEMMA CallJob ==
  ASSUME AfterInv, NEW p \in Desk, job[p].step \in {"refundCall", "returnCall"}
  PROVE  /\ job[p].order \in Orders /\ form[job[p].order] # None
         /\ job[p].amount \in Nat /\ job[p].amount > 0
<1>1. job[p] \in Jobs /\ JobKnows(job[p])
  BY DEF AfterInv, JobsKnow
<1>2. CASE job[p].step = "refundCall"
  BY <1>1, <1>2, JobKind DEF JobKnows, RefundJobs
<1>3. CASE job[p].step = "returnCall"
  BY <1>1, <1>3, JobKind DEF JobKnows, ReturnJobs
<1> QED BY <1>2, <1>3

LEMMA Calls ==
  ASSUME AfterInv, NEW p \in Desk, CallSucceeds(p) \/ CallFails(p)
  PROVE  AfterInv' /\ RowsLast /\ ReturnsLast
<1> DEFINE j == job[p]
<1>1. j.step \in {"refundCall", "returnCall"} /\ j \in Jobs /\ JobKnows(j)
  BY DEF CallSucceeds, CallFails, AfterInv, JobsKnow
<1>2. j.order \in Orders /\ form[j.order] # None /\ j.amount \in Nat /\ j.amount > 0
  BY <1>1, CallJob
<1>3. /\ UNCHANGED <<status, form, paid, refundedQty, refundedAmount, stock, usedBy, balance>>
      /\ UNCHANGED <<pc, at, draft, qty>>
      /\ UNCHANGED <<desk, returns, refunds, backRows>>
  BY DEF CallSucceeds, CallFails, storeVars, orderVars, refundVars, couponVars, memberVars, procVars
<1>4. RowTypes' /\ RowsLast
  BY <1>3 DEF AfterInv, RowTypes, RowsLast
<1>5. MoneyTypes'
  <2>1. CASE PgReturns(j.order, j.amount)
    BY <1>2, <1>3, <2>1, PgReturnsStep
  <2>2. CASE UNCHANGED <<pg, returned>>
    BY <1>3, <2>2 DEF AfterInv, MoneyTypes
  <2> QED BY <2>1, <2>2 DEF CallSucceeds, CallFails
<1>6. ProcKnows'
  BY <1>3, <1>4, ProcStay DEF AfterInv, procVars
<1>7. ReturnsLast /\ ReturnsKnow'
  BY <1>3 DEF ReturnsLast, AfterInv, ReturnsKnow
<1>8. JobsKnow'
  <2>1. CASE CallFails(p)
    BY <1>4, <1>7, <2>1, AnswerStep DEF AfterInv, CallFails
  <2>2. CASE CallSucceeds(p)
    <3> DEFINE k == [j EXCEPT !.step = IF @ = "refundCall" THEN "refund" ELSE "return"]
    <3>1. Take(p, k)
      BY <2>2 DEF CallSucceeds
    <3>2. CASE j.step = "refundCall"
      <4>1. j \in RefundJobs
        BY <1>1, <3>2, JobKind
      <4>2. /\ k \in RefundJobs /\ k.step = "refund" /\ k.order = j.order /\ k.amount = j.amount
        BY <3>2, <4>1 DEF RefundJobs
      <4> HIDE DEF k
      <4>3. k \in Jobs /\ JobKnows(k)
        BY <1>1, <1>2, <4>2 DEF Jobs, JobKnows
      <4> QED BY <1>4, <1>7, <3>1, <4>3, KnowsOn, JobStep DEF AfterInv, Take
    <3>3. CASE j.step = "returnCall"
      <4>1. j \in ReturnJobs
        BY <1>1, <3>3, JobKind
      <4>2. k \in ReturnJobs /\ k.step = "return" /\ k.order = j.order /\ k.id = j.id
        BY <3>3, <4>1 DEF ReturnJobs
      <4> HIDE DEF k
      <4>3. k \in Jobs /\ JobKnows(k)
        BY <1>1, <1>2, <3>3, <4>2 DEF Jobs, JobKnows
      <4> QED BY <1>4, <1>7, <3>1, <4>3, KnowsOn, JobStep DEF AfterInv, Take
    <3> QED BY <1>1, <3>2, <3>3
  <2> QED BY <2>1, <2>2
<1> QED BY <1>3, <1>4, <1>5, <1>6, <1>7, <1>8 DEF AfterInv

(* The transactions: what they share.                                      *)
LEMMA PointsBackTypes ==
  ASSUME RowTypes, backRows \in [Orders -> [spent : Nat, earned : Nat]],
         NEW o \in Orders, form[o] # None, NEW usedToo \in BOOLEAN, PointsBack(o, usedToo)
  PROVE  balance' \in [Users -> Int] /\ backRows' \in [Orders -> [spent : Nat, earned : Nat]]
<1> DEFINE f == form[o]
           back == IF usedToo THEN f.pointUsed ELSE 0
<1>1. f.user \in Users \cup {None} /\ f.pointUsed \in Nat /\ f.pointEarned \in Nat
  BY ExistingForm
<1>2. back \in Nat
  BY <1>1
<1>3. CASE f.user = None
  BY <1>3 DEF PointsBack, memberVars, RowTypes
<1>4. CASE f.user # None
  <2>1. /\ balance' = [balance EXCEPT ![f.user] = balance[f.user] + back - f.pointEarned]
        /\ backRows' = [backRows EXCEPT
             ![o] = [spent  |-> backRows[o].spent + (IF back > 0 THEN 1 ELSE 0),
                     earned |-> backRows[o].earned + (IF f.pointEarned > 0 THEN 1 ELSE 0)]]
    BY <1>4 DEF PointsBack
  <2>2. balance[f.user] + back - f.pointEarned \in Int
    BY <1>1, <1>2, <1>4 DEF RowTypes
  <2>3. backRows[o].spent \in Nat /\ backRows[o].earned \in Nat
    OBVIOUS
  <2>4. [spent  |-> backRows[o].spent + (IF back > 0 THEN 1 ELSE 0),
         earned |-> backRows[o].earned + (IF f.pointEarned > 0 THEN 1 ELSE 0)]
          \in [spent : Nat, earned : Nat]
    <3> HIDE DEF back
    <3> QED BY <2>3
  <2> HIDE DEF back, f
  <2> QED BY <2>1, <2>2, <2>4 DEF RowTypes
<1> QED BY <1>3, <1>4

LEMMA CouponBackTypes ==
  ASSUME RowTypes, NEW o \in Orders, CouponBack(o) \/ UNCHANGED couponVars
  PROVE  usedBy' \in [Coupons -> Orders \cup {None}]
BY DEF CouponBack, couponVars, RowTypes

LEMMA RecordTypes ==
  ASSUME RowTypes, refunds \in [Orders -> [pg : Int, manual : Int]],
         NEW o \in Orders, NEW a \in Int, NEW skipped \in BOOLEAN, Record(o, a, skipped)
  PROVE  /\ refundedAmount' \in [Orders -> Int]
         /\ refunds' \in [Orders -> [pg : Int, manual : Int]]
<1>1. refundedAmount' = [refundedAmount EXCEPT ![o] = refundedAmount[o] + a]
  BY DEF Record
<1>2. refundedAmount[o] + a \in Int
  BY DEF RowTypes
<1> DEFINE Row == [pg : Int, manual : Int]
<1>3. refunds[o].pg + a \in Int /\ refunds[o].manual + a \in Int /\ refunds[o] \in Row
  OBVIOUS
<1>4. PICK m \in Row : refunds' = [refunds EXCEPT ![o] = m]
  <2>1. CASE skipped
    <3>1. refunds' = [refunds EXCEPT ![o] = [refunds[o] EXCEPT !.manual = refunds[o].manual + a]]
      BY <2>1 DEF Record
    <3>2. [refunds[o] EXCEPT !.manual = refunds[o].manual + a] \in Row
      BY <1>3
    <3> QED BY <3>1, <3>2
  <2>2. CASE ~skipped
    <3>1. refunds' = [refunds EXCEPT ![o] = [refunds[o] EXCEPT !.pg = refunds[o].pg + a]]
      BY <2>2 DEF Record
    <3>2. [refunds[o] EXCEPT !.pg = refunds[o].pg + a] \in Row
      BY <1>3
    <3> QED BY <3>1, <3>2
  <2> QED BY <2>1, <2>2
<1>5. refundedAmount' \in [Orders -> Int]
  BY <1>1, <1>2 DEF RowTypes
<1>6. refunds' \in [Orders -> Row]
  <2>1. refunds \in [Orders -> Row]
    OBVIOUS
  <2> HIDE DEF Row
  <2> QED BY <1>4, <2>1
<1> QED BY <1>5, <1>6

(* After a transaction the request is answered, and Checkout's requests    *)
(* and the money are as before.                                            *)
LEMMA CommitTypes ==
  ASSUME AfterInv, NEW p \in Desk, Answer(p), RowTypes',
         UNCHANGED <<form, pg, returned, procVars, desk>>,
         \A o \in Orders : status[o] # "NONE" => status'[o] # "NONE",
         ReturnsLast, ReturnsKnow',
         refunds' \in [Orders -> [pg : Int, manual : Int]],
         backRows' \in [Orders -> [spent : Nat, earned : Nat]]
  PROVE  AfterInv' /\ RowsLast /\ ReturnsLast
<1>1. RowsLast
  BY DEF RowsLast
<1>2. JobsKnow'
  BY <1>1, AnswerStep DEF AfterInv
<1>3. ProcKnows'
  BY <1>1, ProcStay DEF AfterInv
<1>4. MoneyTypes'
  BY DEF AfterInv, MoneyTypes
<1> QED BY <1>1, <1>2, <1>3, <1>4 DEF AfterInv

LEMMA PatchCommits ==
  ASSUME AfterInv, NEW p \in Desk, PatchCommit(p)
  PROVE  AfterInv' /\ RowsLast /\ ReturnsLast
<1> DEFINE j == job[p]
<1>1. j.step = "patch" /\ j \in PatchJobs /\ JobKnows(j)
  BY JobKind DEF PatchCommit, AfterInv, JobsKnow
<1>2. /\ j.order \in Orders /\ j.target \in Statuses /\ j.target # "NONE" /\ form[j.order] # None
      /\ form[j.order].items \in [Skus -> Nat] /\ status[j.order] # "NONE"
  BY <1>1, ExistingForm DEF PatchJobs, JobKnows, AfterInv
<1>3. /\ UNCHANGED <<form, paid, refundedQty, refundedAmount, pg, returned, procVars, desk, returns, refunds>>
      /\ status' = [status EXCEPT ![j.order] = j.target]
      /\ Answer(p)
  BY DEF PatchCommit, refundVars
<1>4. stock' \in [Skus -> Nat]
  <2>1. CASE j.restock
    BY <1>2, <2>1 DEF PatchCommit, AfterInv, RowTypes
  <2>2. CASE ~j.restock
    BY <2>2 DEF PatchCommit, AfterInv, RowTypes
  <2> QED BY <2>1, <2>2
<1>5. balance' \in [Users -> Int] /\ backRows' \in [Orders -> [spent : Nat, earned : Nat]]
  <2>1. CASE j.restock
    BY <1>2, <2>1, PointsBackTypes DEF PatchCommit, AfterInv
  <2>2. CASE ~j.restock
    BY <2>2 DEF PatchCommit, AfterInv, RowTypes, memberVars
  <2> QED BY <2>1, <2>2
<1>6. usedBy' \in [Coupons -> Orders \cup {None}]
  BY <1>2, CouponBackTypes DEF PatchCommit, AfterInv
<1>7. RowTypes'
  BY <1>2, <1>3, <1>4, <1>5, <1>6 DEF AfterInv, RowTypes
<1>8. \A o \in Orders : status[o] # "NONE" => status'[o] # "NONE"
  BY <1>2, <1>3 DEF AfterInv, RowTypes
<1>9. ReturnsLast /\ ReturnsKnow'
  BY <1>3 DEF ReturnsLast, ReturnsKnow, AfterInv
<1>10. refunds' \in [Orders -> [pg : Int, manual : Int]]
  BY <1>3 DEF AfterInv
<1> QED BY <1>3, <1>5, <1>7, <1>8, <1>9, <1>10, CommitTypes

LEMMA RefundCommits ==
  ASSUME AfterInv, NEW p \in Desk, RefundCommit(p)
  PROVE  AfterInv' /\ RowsLast /\ ReturnsLast
<1> DEFINE j == job[p]
           o == j.order
<1>1. j.step = "refund" /\ j \in RefundJobs /\ JobKnows(j)
  BY JobKind DEF RefundCommit, AfterInv, JobsKnow
<1>2. /\ o \in Orders /\ form[o] # None /\ j.amount \in Int /\ j.units \in [Skus -> Nat]
      /\ form[o].items \in [Skus -> Nat] /\ status[o] # "NONE"
      /\ j.options.points \in BOOLEAN /\ j.options.skipPgCall \in BOOLEAN
  BY <1>1, ExistingForm DEF RefundJobs, JobKnows, AfterInv
<1>3. /\ UNCHANGED <<form, paid, pg, returned, procVars, desk, returns>>
      /\ status' = [status EXCEPT ![o] = IF j.full THEN "REFUNDED" ELSE "PARTIALLY_REFUNDED"]
      /\ Answer(p)
      /\ stock' = [s \in Skus |-> stock[s] + j.units[s]]
      /\ refundedQty' = [refundedQty EXCEPT ![o] = [s \in Skus |->
                           IF j.units[s] > 0 THEN form[o].items[s] ELSE @[s]]]
      /\ Record(o, j.amount, j.options.skipPgCall)
  BY DEF RefundCommit
<1>4. stock' \in [Skus -> Nat] /\ refundedQty' \in [Orders -> [Skus -> Nat]]
  BY <1>2, <1>3 DEF AfterInv, RowTypes
<1>5. balance' \in [Users -> Int] /\ backRows' \in [Orders -> [spent : Nat, earned : Nat]]
  <2>1. CASE j.full
    BY <1>2, <2>1, PointsBackTypes DEF RefundCommit, AfterInv
  <2>2. CASE ~j.full
    BY <2>2 DEF RefundCommit, AfterInv, RowTypes, memberVars
  <2> QED BY <2>1, <2>2
<1>6. usedBy' \in [Coupons -> Orders \cup {None}]
  BY <1>2, CouponBackTypes DEF RefundCommit, AfterInv
<1>7. refundedAmount' \in [Orders -> Int] /\ refunds' \in [Orders -> [pg : Int, manual : Int]]
  BY <1>2, <1>3, RecordTypes DEF AfterInv
<1>8. RowTypes'
  BY <1>2, <1>3, <1>4, <1>5, <1>6, <1>7 DEF AfterInv, RowTypes, Statuses
<1>9. \A q \in Orders : status[q] # "NONE" => status'[q] # "NONE"
  BY <1>2, <1>3 DEF AfterInv, RowTypes
<1>10. ReturnsLast /\ ReturnsKnow'
  BY <1>3 DEF ReturnsLast, ReturnsKnow, AfterInv
<1> QED BY <1>3, <1>5, <1>7, <1>8, <1>9, <1>10, CommitTypes

LEMMA ReturnCommits ==
  ASSUME AfterInv, NEW p \in Desk, ReturnStaffCommit(p)
  PROVE  AfterInv' /\ RowsLast /\ ReturnsLast
<1> DEFINE j == job[p]
           o == j.order
           row == returns[j.id]
<1>1. j.step = "return" /\ j \in ReturnJobs /\ JobKnows(j)
  BY JobKind DEF ReturnStaffCommit, AfterInv, JobsKnow
<1>2. /\ o \in Orders /\ form[o] # None /\ j.amount \in Int /\ j.skipped \in BOOLEAN
      /\ j.target \in ReturnStatuses /\ j.id \in Returns /\ status[o] # "NONE"
      /\ row # None /\ row \in ReturnRows /\ row.units \in [Skus -> Nat] /\ row.order = o
  <2>1. /\ o \in Orders /\ form[o] # None /\ j.amount \in Int /\ j.skipped \in BOOLEAN
        /\ j.target \in ReturnStatuses /\ j.id \in Returns
    BY <1>1 DEF ReturnJobs, JobKnows
  <2>2. row # None /\ row \in ReturnRows /\ row.order = o
    BY <1>1, <2>1 DEF JobKnows, AfterInv, ReturnsKnow
  <2>3. row.units \in [Skus -> Nat]
    BY <2>2 DEF ReturnRows
  <2>4. status[o] # "NONE"
    BY <2>1, ExistingForm DEF AfterInv
  <2> QED BY <2>1, <2>2, <2>3, <2>4
<1>3. /\ UNCHANGED <<form, paid, pg, returned, procVars, desk, usedBy>>
      /\ returns' = [returns EXCEPT ![j.id] = [row EXCEPT !.status = j.target]]
      /\ Answer(p)
  BY DEF ReturnStaffCommit, couponVars
<1>4. [row EXCEPT !.status = j.target] \in ReturnRows /\ [row EXCEPT !.status = j.target].order = o
  BY <1>2 DEF ReturnRows
<1>5. ReturnsLast /\ ReturnsKnow'
  <2>1. ASSUME NEW r \in Returns
        PROVE  /\ returns'[r] \in ReturnRows \cup {None}
               /\ returns[r] # None => returns'[r] # None /\ returns'[r].order = returns[r].order
               /\ returns'[r] # None => form[returns'[r].order] # None
    <3>1. CASE r = j.id
      <4>1. returns'[r] = [row EXCEPT !.status = j.target]
        BY <1>2, <1>3, <3>1 DEF AfterInv, ReturnsKnow
      <4>2. [row EXCEPT !.status = j.target] # None
        <5>1. None \notin ReturnRows
          BY AfterAssumption
        <5> QED BY <1>4, <5>1
      <4> QED BY <1>2, <1>4, <3>1, <4>1, <4>2
    <3>2. CASE r # j.id
      BY <1>2, <1>3, <3>2 DEF AfterInv, ReturnsKnow
    <3> QED BY <3>1, <3>2
  <2>2. returns' \in [Returns -> ReturnRows \cup {None}]
    BY <1>3, <2>1 DEF AfterInv, ReturnsKnow
  <2> QED BY <1>3, <2>1, <2>2 DEF ReturnsLast, ReturnsKnow
<1>6. CASE j.complete
  <2>1. /\ refundedQty' = [refundedQty EXCEPT ![o] = [s \in Skus |-> @[s] + row.units[s]]]
        /\ stock' = [s \in Skus |-> stock[s] + row.units[s]]
        /\ Record(o, j.amount, j.skipped)
        /\ status' = [status EXCEPT ![o] = IF j.full THEN "REFUNDED" ELSE "PARTIALLY_REFUNDED"]
    BY <1>6 DEF ReturnStaffCommit
  <2>2. stock' \in [Skus -> Nat] /\ refundedQty' \in [Orders -> [Skus -> Nat]]
    BY <1>2, <2>1 DEF AfterInv, RowTypes
  <2>3. balance' \in [Users -> Int] /\ backRows' \in [Orders -> [spent : Nat, earned : Nat]]
    <3>1. CASE j.full
      BY <1>2, <1>6, <3>1, PointsBackTypes DEF ReturnStaffCommit, AfterInv
    <3>2. CASE ~j.full
      BY <1>6, <3>2 DEF ReturnStaffCommit, AfterInv, RowTypes, memberVars
    <3> QED BY <3>1, <3>2
  <2>4. refundedAmount' \in [Orders -> Int] /\ refunds' \in [Orders -> [pg : Int, manual : Int]]
    BY <1>2, <2>1, RecordTypes DEF AfterInv
  <2>5. RowTypes'
    BY <1>2, <1>3, <2>1, <2>2, <2>3, <2>4 DEF AfterInv, RowTypes, Statuses
  <2>6. \A q \in Orders : status[q] # "NONE" => status'[q] # "NONE"
    BY <1>2, <2>1 DEF AfterInv, RowTypes
  <2> QED BY <1>3, <1>5, <2>3, <2>4, <2>5, <2>6, CommitTypes
<1>7. CASE ~j.complete
  <2>1. UNCHANGED <<refundedQty, refundedAmount, stock, refunds, status, balance, backRows>>
    BY <1>7 DEF ReturnStaffCommit, refundVars, memberVars
  <2>2. RowTypes'
    BY <1>3, <2>1 DEF AfterInv, RowTypes
  <2> QED BY <1>3, <1>5, <2>1, <2>2, CommitTypes DEF AfterInv
<1> QED BY <1>6, <1>7

LEMMA EditCommits ==
  ASSUME AfterInv, NEW p \in Desk, EditCommit(p)
  PROVE  AfterInv' /\ RowsLast /\ ReturnsLast
<1>1. job[p].step = "edit" /\ job[p] \in EditJobs
  BY JobKind DEF EditCommit, AfterInv, JobsKnow
<1>2. job[p].sku \in Skus /\ job[p].shown \in Nat
  BY <1>1 DEF EditJobs
<1>3. /\ UNCHANGED <<status, form, paid, refundedQty, refundedAmount, usedBy, balance>>
      /\ UNCHANGED <<pg, returned, procVars, desk, returns, refunds, backRows>>
      /\ Answer(p)
  BY DEF EditCommit, orderVars, refundVars, couponVars, memberVars
<1>4. stock' \in [Skus -> Nat]
  BY <1>2 DEF EditCommit, AfterInv, RowTypes
<1>5. RowTypes'
  BY <1>3, <1>4 DEF AfterInv, RowTypes
<1>6. ReturnsLast /\ ReturnsKnow'
  BY <1>3 DEF ReturnsLast, ReturnsKnow, AfterInv
<1> QED BY <1>3, <1>5, <1>6, CommitTypes DEF AfterInv

-----------------------------------------------------------------------------
(* AfterInv is inductive.                                                  *)
LEMMA AfterStart ==
  ASSUME AfterInit
  PROVE  AfterInv
<1>1. RowTypes
  BY StoreAssumption DEF AfterInit, Init, StoreInit, RowTypes, NoQty, Statuses
<1>2. ProcKnows
  BY DEF AfterInit, Init, ProcKnows, ProcTypes, OrderSteps, NoQty
<1>3. MoneyTypes
  BY DEF AfterInit, Init, StoreInit, MoneyTypes, PgStates
<1>4. JobsKnow /\ ReturnsKnow
  <2>1. \A p \in Desk : job[p] = Idle
    BY DEF AfterInit, Desk
  <2>2. \A p \in Desk : JobKnows(job[p])
    BY <2>1 DEF JobKnows, Idle
  <2> QED BY <2>1, <2>2 DEF AfterInit, JobsKnow, ReturnsKnow, Jobs, Desk
<1> QED BY <1>1, <1>2, <1>3, <1>4 DEF AfterInit, AfterInv

LEMMA StaffSteps ==
  ASSUME AfterInv, NEW p \in Admins, Staff(p)
  PROVE  AfterInv' /\ RowsLast /\ ReturnsLast
<1>0. p \in Desk
  BY DEF Desk
<1>1. CASE \E o \in Orders : (\E t \in Statuses : PatchRead(p, o, t)) \/ BulkShipRead(p, o)
  <2>1. "PAID" \in Statuses
    BY DEF Statuses
  <2> QED BY <1>0, <1>1, <2>1, PatchReads
<1>2. CASE \E o \in Orders : /\ form[o] # None
                             /\ \E opt \in RefundOptions, a \in 1..form[o].total : RefundRead(p, o, a, opt)
  BY <1>0, <1>2, RefundReads
<1>3. CASE \E r \in Returns, t \in {"APPROVED", "PICKED_UP", "COMPLETED", "REJECTED"} :
             \E skip \in BOOLEAN : ReturnStaffRead(p, r, t, skip)
  BY <1>0, <1>3, ReturnReads
<1>4. CASE (\E s \in Skus : EditRead(p, s)) \/ Cut(p)
  BY <1>0, <1>4, OtherReads
<1>5. CASE CallSucceeds(p) \/ CallFails(p)
  BY <1>0, <1>5, Calls
<1>6. CASE PatchCommit(p) \/ RefundCommit(p) \/ ReturnStaffCommit(p) \/ EditCommit(p)
  BY <1>0, <1>6, PatchCommits, RefundCommits, ReturnCommits, EditCommits
<1> QED BY <1>1, <1>2, <1>3, <1>4, <1>5, <1>6 DEF Staff

LEMMA CustomerSteps ==
  ASSUME AfterInv, IsFiniteSet(Skus), NEW p \in Customers, Customer(p)
  PROVE  AfterInv' /\ RowsLast /\ ReturnsLast
<1>0. p \in Desk
  BY DEF Desk
<1> QED BY <1>0, RequestReads, RequestCommits, OtherReads DEF Customer

LEMMA AfterStay ==
  ASSUME AfterInv, UNCHANGED allVars
  PROVE  AfterInv' /\ RowsLast /\ ReturnsLast
<1>1. /\ UNCHANGED <<status, form, paid, refundedQty, refundedAmount, stock, usedBy, balance, pg>>
      /\ UNCHANGED procVars /\ job' = job
      /\ UNCHANGED <<desk, returns, returned, refunds, backRows>>
  BY DEF allVars, afterVars, vars, storeVars, orderVars, refundVars, couponVars, memberVars, procVars
<1>2. RowTypes' /\ RowsLast /\ MoneyTypes'
  BY <1>1 DEF AfterInv, RowTypes, RowsLast, MoneyTypes
<1>3. ReturnsLast /\ ReturnsKnow'
  BY <1>1 DEF ReturnsLast, ReturnsKnow, AfterInv
<1>4. ProcKnows' /\ JobsKnow'
  BY <1>1, <1>2, <1>3, ProcStay, JobStay DEF AfterInv
<1> QED BY <1>1, <1>2, <1>3, <1>4 DEF AfterInv

LEMMA AfterStep ==
  ASSUME AfterInv, IsFiniteSet(Skus), [AfterNext]_allVars
  PROVE  AfterInv' /\ RowsLast /\ ReturnsLast
BY CheckoutInv, StaffSteps, CustomerSteps, AfterStay DEF AfterNext

LEMMA AfterAlways ==
  ASSUME IsFiniteSet(Skus)
  PROVE  AfterSpec => []AfterInv
<1>1. AfterInit => AfterInv
  BY AfterStart
<1>2. AfterInv /\ [AfterNext]_allVars => AfterInv'
  BY AfterStep
<1> QED BY <1>1, <1>2, PTL DEF AfterSpec

(* Rows, requests, returns and money keep their types for every set of     *)
(* orders, administrators, returns and screens; the stock never becomes    *)
(* negative.  (Skus is finite because the amount of a return is a sum.)    *)
THEOREM AfterTypeCorrect ==
  ASSUME IsFiniteSet(Skus)
  PROVE  AfterSpec => []AfterTypeOK
<1>1. AfterInv => AfterTypeOK
  <2> SUFFICES ASSUME AfterInv PROVE AfterTypeOK
    OBVIOUS
  <2>1. \A p \in Desk : job[p].step \in {"idle", "patch", "refundCall", "refund",
                                         "returnCall", "return", "request", "edit"}
    BY JobKind DEF AfterInv, JobsKnow
  <2>2. DOMAIN job = Desk
    BY DEF AfterInv, JobsKnow
  <2> QED BY <2>1, <2>2 DEF AfterInv, AfterTypeOK, RowTypes, MoneyTypes, ReturnsKnow
<1> QED BY <1>1, AfterAlways, PTL

-----------------------------------------------------------------------------
(* The refunds on record are covered.  While a request is between its call *)
(* and its transaction, the money it moved is not on record yet: InFlight. *)
InFlight(j, o) ==
  IF \/ j.step = "refund" /\ ~j.options.skipPgCall /\ j.order = o
     \/ j.step = "return" /\ j.complete /\ ~j.skipped /\ j.amount > 0 /\ j.order = o
  THEN j.amount ELSE 0

Flying(o) == SumFunctionOnSet([p \in Desk |-> InFlight(job[p], o)], Desk)

Backed == \A o \in Orders : refunds[o].pg + Flying(o) <= returned[o]

LEMMA InFlightNat ==
  ASSUME NEW j \in Jobs, NEW o
  PROVE  InFlight(j, o) \in Nat
<1>1. CASE j.step = "refund"
  BY <1>1, JobKind DEF InFlight, RefundJobs
<1>2. CASE j.step = "return"
  BY <1>2, JobKind DEF InFlight, ReturnJobs
<1> QED BY <1>1, <1>2 DEF InFlight

LEMMA FlyingNat ==
  ASSUME JobsKnow, IsFiniteSet(Desk), NEW o
  PROVE  Flying(o) \in Nat
<1> DEFINE F == [p \in Desk |-> InFlight(job[p], o)]
<1>1. \A p \in Desk : F[p] \in Nat
  BY InFlightNat DEF JobsKnow
<1> HIDE DEF F
<1>2. SumFunctionOnSet(F, Desk) \in Nat
  BY <1>1, SumNat
<1> QED BY <1>2 DEF F, Flying

LEMMA FlyingStep ==
  ASSUME JobsKnow, IsFiniteSet(Desk), NEW p \in Desk, NEW k \in Jobs, Take(p, k), NEW o
  PROVE  Flying(o)' = Flying(o) - InFlight(job[p], o) + InFlight(k, o)
<1> DEFINE F == [q \in Desk |-> InFlight(job[q], o)]
           H == [q \in Desk |-> InFlight(job'[q], o)]
<1>1. /\ job'[p] = k /\ job' \in [Desk -> Jobs] /\ job \in [Desk -> Jobs]
      /\ \A q \in Desk \ {p} : job'[q] = job[q]
  BY DEF JobsKnow, Take
<1>2. /\ \A q \in Desk : F[q] \in Int /\ H[q] \in Int
      /\ \A q \in Desk \ {p} : F[q] = H[q]
      /\ F[p] = InFlight(job[p], o) /\ H[p] = InFlight(k, o)
  <2>1. \A q \in Desk : job[q] \in Jobs /\ job'[q] \in Jobs
    BY <1>1
  <2>2. \A q \in Desk : InFlight(job[q], o) \in Int /\ InFlight(job'[q], o) \in Int
    <3> SUFFICES ASSUME NEW q \in Desk
                 PROVE  InFlight(job[q], o) \in Nat /\ InFlight(job'[q], o) \in Nat
      OBVIOUS
    <3>1. job[q] \in Jobs /\ job'[q] \in Jobs
      BY <2>1
    <3> QED BY <3>1, InFlightNat
  <2> QED BY <1>1, <2>2
<1>3. SumFunctionOnSet(H, Desk) = SumFunctionOnSet(F, Desk) - F[p] + H[p]
  <2> HIDE DEF F, H
  <2>1. PICK f, h : f = F /\ h = H
    OBVIOUS
  <2>2. /\ \A q \in Desk : f[q] \in Int /\ h[q] \in Int
        /\ \A q \in Desk \ {p} : f[q] = h[q]
    BY <1>2, <2>1
  <2>3. SumFunctionOnSet(h, Desk) = SumFunctionOnSet(f, Desk) - f[p] + h[p]
    BY <2>2, SumChange
  <2> QED BY <2>1, <2>3
<1>4. Flying(o) = SumFunctionOnSet(F, Desk) /\ Flying(o)' = SumFunctionOnSet(H, Desk)
  BY DEF Flying
<1> QED BY <1>2, <1>3, <1>4

(* What a request may do to the books in one of its steps.                 *)
LEMMA BackedStep ==
  ASSUME AfterInv, AfterInv', Backed, IsFiniteSet(Desk), NEW p \in Desk, NEW k \in Jobs, Take(p, k),
         \A o \in Orders : refunds'[o].pg + InFlight(k, o) + returned[o]
                             <= refunds[o].pg + InFlight(job[p], o) + returned'[o]
  PROVE  Backed'
<1> SUFFICES ASSUME NEW o \in Orders
             PROVE  refunds'[o].pg + Flying(o)' <= returned'[o]
  BY DEF Backed
<1>1. Flying(o)' = Flying(o) - InFlight(job[p], o) + InFlight(k, o)
  BY FlyingStep DEF AfterInv
<1>2. Flying(o) \in Nat
  BY FlyingNat DEF AfterInv
<1>3. InFlight(job[p], o) \in Nat /\ InFlight(k, o) \in Nat
  <2>1. job[p] \in Jobs
    BY DEF AfterInv, JobsKnow
  <2> QED BY <2>1, InFlightNat
<1>4. refunds[o].pg \in Int /\ refunds'[o].pg \in Int /\ returned[o] \in Nat /\ returned'[o] \in Nat
  BY DEF AfterInv, MoneyTypes
<1>5. /\ refunds[o].pg + Flying(o) <= returned[o]
      /\ refunds'[o].pg + InFlight(k, o) + returned[o] <= refunds[o].pg + InFlight(job[p], o) + returned'[o]
  BY DEF Backed
<1> QED BY <1>1, <1>2, <1>3, <1>4, <1>5

(* A step that records nothing and carries nothing on.                     *)
LEMMA BooksQuiet ==
  ASSUME AfterInv, AfterInv', Backed, IsFiniteSet(Desk), NEW p \in Desk, NEW k \in Jobs, Take(p, k),
         refunds' = refunds, \A o \in Orders : returned[o] <= returned'[o],
         \A o \in Orders : InFlight(k, o) = 0
  PROVE  Backed'
<1>1. ASSUME NEW o \in Orders
      PROVE  refunds'[o].pg + InFlight(k, o) + returned[o]
               <= refunds[o].pg + InFlight(job[p], o) + returned'[o]
  <2>1. job[p] \in Jobs
    BY DEF AfterInv, JobsKnow
  <2>2. InFlight(job[p], o) \in Nat
    BY <2>1, InFlightNat
  <2>3. refunds[o].pg \in Int /\ refunds' = refunds
        /\ returned[o] \in Nat /\ returned'[o] \in Nat
    BY DEF AfterInv, MoneyTypes
  <2>4. returned[o] <= returned'[o] /\ InFlight(k, o) = 0
    OBVIOUS
  <2> QED BY <2>2, <2>3, <2>4
<1>2. QED BY <1>1, BackedStep

LEMMA AnswerQuiet == Idle \in Jobs /\ \A o : InFlight(Idle, o) = 0
BY DEF Jobs, Idle, InFlight

LEMMA BackedReads ==
  ASSUME AfterInv, AfterInv', Backed, IsFiniteSet(Desk), NEW p \in Desk,
         \/ \E o \in Orders : (\E t \in Statuses : PatchRead(p, o, t)) \/ BulkShipRead(p, o)
         \/ \E o \in Orders : /\ form[o] # None
                              /\ \E opt \in RefundOptions, a \in 1..form[o].total : RefundRead(p, o, a, opt)
         \/ \E r \in Returns, t \in {"APPROVED", "PICKED_UP", "COMPLETED", "REJECTED"} :
              \E skip \in BOOLEAN : ReturnStaffRead(p, r, t, skip)
         \/ \E s \in Skus : EditRead(p, s)
         \/ \E o \in Orders, t \in {"RETURN", "EXCHANGE"}, units \in [Skus -> 0..MaxUnits] :
              RequestRead(p, o, units, t)
  PROVE  Backed'
<1>1. PICK k : /\ Take(p, k)
               /\ k.step \notin {"refund", "return"} \/ \A o \in Orders : InFlight(k, o) = 0
               /\ UNCHANGED <<returned, refunds>>
  <2>1. ASSUME NEW o \in Orders, NEW t \in Statuses, PatchRead(p, o, t) \/ BulkShipRead(p, o)
        PROVE  \E k : /\ Take(p, k) /\ k.step \notin {"refund", "return"}
                      /\ UNCHANGED <<returned, refunds>>
    <3>1. CASE PatchRead(p, o, t)
      <4> WITNESS [step |-> "patch", order |-> o, target |-> t,
                   restock |-> t \in Closing /\ status[o] \in PaidStatuses]
      <4> QED BY <3>1 DEF PatchRead
    <3>2. CASE BulkShipRead(p, o)
      <4> WITNESS [step |-> "patch", order |-> o, target |-> "SHIPPED", restock |-> FALSE]
      <4> QED BY <3>2 DEF BulkShipRead
    <3> QED BY <2>1, <3>1, <3>2
  <2>2. ASSUME NEW o \in Orders, NEW opt \in RefundOptions, NEW a, RefundRead(p, o, a, opt)
        PROVE  \E k : /\ Take(p, k)
                      /\ k.step \notin {"refund", "return"} \/ \A q \in Orders : InFlight(k, q) = 0
                      /\ UNCHANGED <<returned, refunds>>
    <3> DEFINE full == a + refundedAmount[o] = form[o].total
               k == [step |-> IF opt.skipPgCall THEN "refund" ELSE "refundCall",
                     order |-> o, amount |-> a, full |-> full, options |-> opt,
                     units |-> IF full THEN Unrestored(o) ELSE NoQty]
    <3>1. Take(p, k) /\ UNCHANGED <<returned, refunds>>
      BY <2>2 DEF RefundRead
    <3>2. CASE opt.skipPgCall
      <4>1. k.step = "refund" /\ k.options.skipPgCall
        BY <3>2
      <4>2. \A q \in Orders : InFlight(k, q) = 0
        BY <4>1 DEF InFlight
      <4> HIDE DEF k
      <4> QED BY <3>1, <4>2
    <3>3. CASE ~opt.skipPgCall
      <4>1. k.step = "refundCall"
        BY <3>3
      <4> HIDE DEF k
      <4> QED BY <3>1, <4>1
    <3> QED BY <3>2, <3>3
  <2>3. ASSUME NEW r \in Returns, NEW t, NEW skip \in BOOLEAN, ReturnStaffRead(p, r, t, skip)
        PROVE  \E k : /\ Take(p, k)
                      /\ k.step \notin {"refund", "return"} \/ \A q \in Orders : InFlight(k, q) = 0
                      /\ UNCHANGED <<returned, refunds>>
    <3> DEFINE rr == returns[r]
               a == RestOf(rr)
               complete == t = "COMPLETED" /\ rr.type = "RETURN"
               k == [step |-> IF complete /\ a > 0 /\ ~skip THEN "returnCall" ELSE "return",
                     id |-> r, order |-> rr.order, target |-> t, complete |-> complete,
                     amount |-> a, skipped |-> skip,
                     full |-> complete /\ a + refundedAmount[rr.order] >= form[rr.order].total]
    <3>1. Take(p, k) /\ UNCHANGED <<returned, refunds>>
      BY <2>3 DEF ReturnStaffRead
    <3>2. k.step = "return" => ~(k.complete /\ ~k.skipped /\ k.amount > 0)
      <4> HIDE DEF a
      <4> QED OBVIOUS
    <3>3. k.step \in {"returnCall", "return"}
      OBVIOUS
    <3>4. k.step # "return" \/ \A q \in Orders : InFlight(k, q) = 0
      <4> HIDE DEF k
      <4> QED BY <3>2, <3>3 DEF InFlight
    <3> HIDE DEF k
    <3> QED BY <3>1, <3>3, <3>4
  <2>4. ASSUME NEW s \in Skus, EditRead(p, s)
        PROVE  \E k : /\ Take(p, k) /\ k.step \notin {"refund", "return"}
                      /\ UNCHANGED <<returned, refunds>>
    <3> WITNESS [step |-> "edit", sku |-> s, shown |-> stock[s]]
    <3> QED BY <2>4 DEF EditRead
  <2>5. ASSUME NEW o \in Orders, NEW t, NEW units, RequestRead(p, o, units, t)
        PROVE  \E k : /\ Take(p, k) /\ k.step \notin {"refund", "return"}
                      /\ UNCHANGED <<returned, refunds>>
    <3> WITNESS [step |-> "request", row |-> [order |-> o, units |-> units, type |-> t,
                                              amount |-> AmountOf(units), status |-> "REQUESTED"]]
    <3> QED BY <2>5 DEF RequestRead
  <2>6. "PAID" \in Statuses
    BY DEF Statuses
  <2> QED BY <2>1, <2>2, <2>3, <2>4, <2>5, <2>6
<1>2. k \in Jobs
  <2>1. job' = [job EXCEPT ![p] = k] /\ job \in [Desk -> Jobs] /\ job' \in [Desk -> Jobs]
    BY <1>1 DEF Take, AfterInv, JobsKnow
  <2> QED BY <2>1
<1>3. \A o \in Orders : InFlight(k, o) = 0
  BY <1>1 DEF InFlight
<1>4. refunds' = refunds /\ \A o \in Orders : returned[o] <= returned'[o]
  BY <1>1 DEF AfterInv, MoneyTypes
<1> QED BY <1>1, <1>2, <1>3, <1>4, BooksQuiet

LEMMA BackedAnswers ==
  ASSUME AfterInv, AfterInv', Backed, IsFiniteSet(Desk), NEW p \in Desk,
         CallFails(p) \/ PatchCommit(p) \/ EditCommit(p) \/ RequestCommit(p) \/ Cut(p)
  PROVE  Backed'
<1>1. Take(p, Idle) /\ refunds' = refunds
  BY DEF CallFails, PatchCommit, EditCommit, RequestCommit, Cut, Answer
<1>2. \A o \in Orders : returned[o] <= returned'[o]
  <2>1. CASE CallFails(p)
    <3>1. CASE PgReturns(job[p].order, job[p].amount)
      <4>1. /\ job[p].order \in Orders /\ job[p].amount \in Nat
        BY <2>1, CallJob DEF CallFails
      <4>2. returned' = [returned EXCEPT ![job[p].order] = returned[job[p].order] + job[p].amount]
        BY <3>1 DEF PgReturns
      <4> QED BY <4>1, <4>2 DEF AfterInv, MoneyTypes
    <3>2. CASE UNCHANGED <<pg, returned>>
      BY <3>2 DEF AfterInv, MoneyTypes
    <3> QED BY <2>1, <3>1, <3>2 DEF CallFails
  <2>2. CASE UNCHANGED returned
    BY <2>2 DEF AfterInv, MoneyTypes
  <2> QED BY <2>1, <2>2 DEF PatchCommit, EditCommit, RequestCommit, Cut
<1> QED BY <1>1, <1>2, AnswerQuiet, BooksQuiet

LEMMA BackedCall ==
  ASSUME AfterInv, AfterInv', Backed, IsFiniteSet(Desk), NEW p \in Desk, CallSucceeds(p)
  PROVE  Backed'
<1> DEFINE j == job[p]
<1>1. PICK k : /\ k = [j EXCEPT !.step = IF @ = "refundCall" THEN "refund" ELSE "return"]
               /\ Take(p, k)
  BY DEF CallSucceeds
<1>2. k \in Jobs
  <2>1. job' = [job EXCEPT ![p] = k] /\ job \in [Desk -> Jobs] /\ job' \in [Desk -> Jobs]
    BY <1>1 DEF Take, AfterInv, JobsKnow
  <2> QED BY <2>1
<1>3. j.order \in Orders /\ j.amount \in Nat /\ j.amount > 0 /\ j \in Jobs
      /\ j.step \in {"refundCall", "returnCall"}
  BY CallJob DEF CallSucceeds, AfterInv, JobsKnow
<1>4. k.order = j.order /\ k.amount = j.amount
  BY <1>1, <1>3, JobKind DEF RefundJobs, ReturnJobs
<1>5. /\ returned' = [returned EXCEPT ![j.order] = returned[j.order] + j.amount]
      /\ refunds' = refunds
  BY DEF CallSucceeds, PgReturns
<1>6. \A o \in Orders : refunds'[o].pg + InFlight(k, o) + returned[o]
                          <= refunds[o].pg + InFlight(j, o) + returned'[o]
  <2> SUFFICES ASSUME NEW o \in Orders
               PROVE  refunds'[o].pg + InFlight(k, o) + returned[o]
                        <= refunds[o].pg + InFlight(j, o) + returned'[o]
    OBVIOUS
  <2>1. refunds[o].pg \in Int /\ returned[o] \in Nat /\ InFlight(j, o) \in Nat
    BY <1>3, InFlightNat DEF AfterInv, MoneyTypes
  <2>2. InFlight(k, o) + returned[o] <= returned'[o]
    <3>1. CASE o = j.order
      <4>1. InFlight(k, o) \in {0, j.amount}
        BY <1>4 DEF InFlight
      <4>2. returned'[o] = returned[o] + j.amount
        BY <1>3, <1>5, <3>1 DEF AfterInv, MoneyTypes
      <4> QED BY <1>3, <2>1, <4>1, <4>2
    <3>2. CASE o # j.order
      <4>1. InFlight(k, o) = 0
        BY <1>4, <3>2 DEF InFlight
      <4>2. returned'[o] = returned[o]
        BY <1>3, <1>5, <3>2 DEF AfterInv, MoneyTypes
      <4> QED BY <2>1, <4>1, <4>2
    <3> QED BY <3>1, <3>2
  <2>3. InFlight(k, o) \in Nat /\ returned'[o] \in Nat
    BY <1>2, InFlightNat DEF AfterInv, MoneyTypes
  <2> QED BY <1>5, <2>1, <2>2, <2>3
<1> QED BY <1>1, <1>2, <1>6, BackedStep

(* The transaction puts on record what its request has moved.              *)
LEMMA BackedRecord ==
  ASSUME AfterInv, AfterInv', Backed, IsFiniteSet(Desk), NEW p \in Desk, Answer(p),
         NEW skipped \in BOOLEAN, job[p].order \in Orders, job[p].amount \in Int,
         Record(job[p].order, job[p].amount, skipped), returned' = returned,
         ~skipped => job[p].amount <= InFlight(job[p], job[p].order)
  PROVE  Backed'
<1> DEFINE j == job[p]
<1>1. j \in Jobs /\ Take(p, Idle)
  BY DEF Answer, AfterInv, JobsKnow
<1>2. \A o \in Orders : refunds'[o].pg + InFlight(Idle, o) + returned[o]
                          <= refunds[o].pg + InFlight(j, o) + returned'[o]
  <2> SUFFICES ASSUME NEW o \in Orders
               PROVE  refunds'[o].pg + InFlight(Idle, o) + returned[o]
                        <= refunds[o].pg + InFlight(j, o) + returned'[o]
    OBVIOUS
  <2>1. /\ refunds[o].pg \in Int /\ returned[o] \in Nat /\ InFlight(j, o) \in Nat
        /\ InFlight(Idle, o) = 0
    BY <1>1, InFlightNat, AnswerQuiet DEF AfterInv, MoneyTypes
  <2>2. refunds'[o].pg \in Int /\ refunds'[o].pg <= refunds[o].pg + InFlight(j, o)
    <3>1. CASE skipped
      <4>1. refunds'[o].pg = refunds[o].pg
        <5>1. refunds' = [refunds EXCEPT ![j.order] = [refunds[j.order] EXCEPT !.manual = refunds[j.order].manual + j.amount]]
          BY <3>1 DEF Record
        <5>2. refunds[j.order] \in [pg : Int, manual : Int]
          BY DEF AfterInv
        <5> QED BY <5>1, <5>2 DEF AfterInv
      <4> QED BY <2>1, <4>1
    <3>2. CASE ~skipped
      <4>1. refunds'[o].pg = IF o = j.order THEN refunds[o].pg + j.amount ELSE refunds[o].pg
        <5>1. refunds' = [refunds EXCEPT ![j.order] = [refunds[j.order] EXCEPT !.pg = refunds[j.order].pg + j.amount]]
          BY <3>2 DEF Record
        <5>2. refunds[j.order] \in [pg : Int, manual : Int]
          BY DEF AfterInv
        <5> QED BY <5>1, <5>2 DEF AfterInv
      <4>2. j.amount \in Int /\ j.amount <= InFlight(j, j.order)
        BY <3>2
      <4> QED BY <2>1, <4>1, <4>2
    <3> QED BY <3>1, <3>2
  <2> QED BY <2>1, <2>2
<1> QED BY <1>1, <1>2, AnswerQuiet, BackedStep

LEMMA BackedCommits ==
  ASSUME AfterInv, AfterInv', Backed, IsFiniteSet(Desk), NEW p \in Desk,
         RefundCommit(p) \/ ReturnStaffCommit(p)
  PROVE  Backed'
<1> DEFINE j == job[p]
<1>0. j \in Jobs
  BY DEF AfterInv, JobsKnow
<1>1. CASE RefundCommit(p)
  <2>1. j.step = "refund" /\ j \in RefundJobs
    BY <1>0, <1>1, JobKind DEF RefundCommit
  <2>2. j.order \in Orders /\ j.amount \in Int /\ j.options.skipPgCall \in BOOLEAN
    BY <2>1 DEF RefundJobs
  <2>3. /\ Record(j.order, j.amount, j.options.skipPgCall)
        /\ Answer(p) /\ returned' = returned
    BY <1>1 DEF RefundCommit
  <2>4. ~j.options.skipPgCall => InFlight(j, j.order) = j.amount
    BY <2>1 DEF InFlight
  <2> QED BY <2>2, <2>3, <2>4, BackedRecord
<1>2. CASE ReturnStaffCommit(p)
  <2>1. j.step = "return" /\ j \in ReturnJobs /\ Answer(p) /\ returned' = returned
    BY <1>0, <1>2, JobKind DEF ReturnStaffCommit
  <2>2. j.order \in Orders /\ j.amount \in Int /\ j.skipped \in BOOLEAN
    BY <2>1 DEF ReturnJobs
  <2>3. CASE j.complete
    <3>1. Record(j.order, j.amount, j.skipped)
      BY <1>2, <2>3 DEF ReturnStaffCommit
    <3>2. ~j.skipped => j.amount <= InFlight(j, j.order)
      BY <2>1, <2>2, <2>3 DEF InFlight
    <3> QED BY <2>1, <2>2, <3>1, <3>2, BackedRecord
  <2>4. CASE ~j.complete
    <3>1. refunds' = refunds /\ Take(p, Idle)
      BY <1>2, <2>1, <2>4 DEF ReturnStaffCommit, Answer
    <3>2. \A o \in Orders : returned[o] <= returned'[o]
      BY <2>1 DEF AfterInv, MoneyTypes
    <3> QED BY <3>1, <3>2, AnswerQuiet, BooksQuiet
  <2> QED BY <2>3, <2>4
<1> QED BY <1>1, <1>2

LEMMA BackedStays ==
  ASSUME AfterInv, AfterInv', Backed, UNCHANGED <<job, refunds>>,
         \A o \in Orders : returned[o] <= returned'[o], IsFiniteSet(Desk)
  PROVE  Backed'
<1> SUFFICES ASSUME NEW o \in Orders PROVE refunds'[o].pg + Flying(o)' <= returned'[o]
  BY DEF Backed
<1>1. Flying(o)' = Flying(o)
  BY DEF Flying
<1>2. Flying(o) \in Nat
  BY FlyingNat DEF AfterInv
<1>3. /\ refunds'[o].pg = refunds[o].pg /\ refunds[o].pg \in Int /\ returned[o] \in Nat
      /\ returned'[o] \in Nat
  BY DEF AfterInv, MoneyTypes
<1>4. refunds[o].pg + Flying(o) <= returned[o] /\ returned[o] <= returned'[o]
  BY DEF Backed
<1> QED BY <1>1, <1>2, <1>3, <1>4

(* Whatever Checkout does, the money given back of an order never shrinks. *)
LEMMA CheckoutReturns ==
  ASSUME AfterInv, CheckoutStep
  PROVE  \A o \in Orders : returned[o] <= returned'[o]
<1>1. CheckoutFacts /\ Next /\ MoneyFollows
  BY DEF AfterInv, CheckoutFacts, CheckoutStep
<1>2. CASE UNCHANGED <<pg, returned>>
  BY <1>2 DEF AfterInv, MoneyTypes
<1>3. ASSUME NEW o \in Orders, NEW x \in PgStates, MoneyBack(o, x)
      PROVE  \A q \in Orders : returned[q] <= returned'[q]
  BY <1>3 DEF MoneyBack, AfterInv, MoneyTypes
<1> QED BY <1>1, <1>2, <1>3, MoneyShape

LEMMA BackedNext ==
  ASSUME AfterInv, AfterInv', Backed, IsFiniteSet(Desk), [AfterNext]_allVars
  PROVE  Backed'
<1>1. CASE CheckoutStep
  BY <1>1, CheckoutReturns, BackedStays DEF CheckoutStep
<1>2. ASSUME NEW p \in Admins, Staff(p) PROVE Backed'
  <2>0. p \in Desk
    BY DEF Desk
  <2>1. CASE \/ \E o \in Orders : (\E t \in Statuses : PatchRead(p, o, t)) \/ BulkShipRead(p, o)
             \/ \E o \in Orders : /\ form[o] # None
                                  /\ \E opt \in RefundOptions, a \in 1..form[o].total : RefundRead(p, o, a, opt)
             \/ \E r \in Returns, t \in {"APPROVED", "PICKED_UP", "COMPLETED", "REJECTED"} :
                  \E skip \in BOOLEAN : ReturnStaffRead(p, r, t, skip)
             \/ \E s \in Skus : EditRead(p, s)
    BY <2>0, <2>1, BackedReads
  <2>2. CASE CallFails(p) \/ PatchCommit(p) \/ EditCommit(p) \/ Cut(p)
    BY <2>0, <2>2, BackedAnswers
  <2>3. CASE CallSucceeds(p)
    BY <2>0, <2>3, BackedCall
  <2>4. CASE RefundCommit(p) \/ ReturnStaffCommit(p)
    BY <2>0, <2>4, BackedCommits
  <2> QED BY <1>2, <2>1, <2>2, <2>3, <2>4 DEF Staff
<1>3. ASSUME NEW p \in Customers, Customer(p) PROVE Backed'
  <2>0. p \in Desk
    BY DEF Desk
  <2>1. CASE \E o \in Orders, t \in {"RETURN", "EXCHANGE"}, units \in [Skus -> 0..MaxUnits] :
               RequestRead(p, o, units, t)
    BY <2>0, <2>1, BackedReads
  <2>2. CASE RequestCommit(p) \/ Cut(p)
    BY <2>0, <2>2, BackedAnswers
  <2> QED BY <1>3, <2>1, <2>2 DEF Customer
<1>4. CASE UNCHANGED allVars
  <2>1. \A o \in Orders : returned[o] <= returned'[o]
    BY <1>4 DEF allVars, afterVars, AfterInv, MoneyTypes
  <2> QED BY <1>4, <2>1, BackedStays DEF allVars, afterVars
<1> QED BY <1>1, <1>2, <1>3, <1>4 DEF AfterNext

LEMMA BackedAlways ==
  ASSUME IsFiniteSet(Skus), IsFiniteSet(Desk)
  PROVE  AfterSpec => []Backed
<1>1. AfterInit => Backed
  <2> SUFFICES ASSUME AfterInit PROVE Backed
    OBVIOUS
  <2>1. ASSUME NEW o \in Orders PROVE Flying(o) = 0
    <3> DEFINE F == [p \in Desk |-> InFlight(job[p], o)]
    <3>1. \A p \in Desk : F[p] = 0
      BY AnswerQuiet DEF AfterInit, Desk
    <3> HIDE DEF F
    <3>2. SumFunctionOnSet(F, Desk) = 0
      BY <3>1, SumZero
    <3> QED BY <3>2 DEF F, Flying
  <2>2. \A o \in Orders : refunds[o].pg = 0 /\ returned[o] = 0
    BY DEF AfterInit
  <2> SUFFICES ASSUME NEW o \in Orders PROVE refunds[o].pg + Flying(o) <= returned[o]
    BY DEF Backed
  <2> QED BY <2>1, <2>2
<1>2. AfterInv /\ AfterInv' /\ Backed /\ [AfterNext]_allVars => Backed'
  BY BackedNext
<1> QED BY <1>1, <1>2, AfterAlways, PTL DEF AfterSpec

(* Every refund on record as paid by the provider is covered by money the  *)
(* provider has given back, and never more goes back than was paid, for    *)
(* every number of refunds and returns whose calls fail, are refused or    *)
(* are lost, and with any of them in flight (admin/refunds/route.ts).      *)
THEOREM RefundsAreBacked ==
  ASSUME IsFiniteSet(Skus), IsFiniteSet(Admins \cup Customers)
  PROVE  AfterSpec => []RefundsBacked
<1>0. IsFiniteSet(Desk)
  BY DEF Desk
<1>1. AfterInv /\ Backed => RefundsBacked
  <2> SUFFICES ASSUME AfterInv, Backed, NEW o \in Orders
               PROVE  /\ refunds[o].pg <= returned[o]
                      /\ form[o] # None => returned[o] <= form[o].total
    BY DEF RefundsBacked
  <2>1. Flying(o) \in Nat
    BY <1>0, FlyingNat DEF AfterInv
  <2>2. refunds[o].pg + Flying(o) <= returned[o]
    BY DEF Backed
  <2>3. refunds[o].pg \in Int /\ returned[o] \in Nat
    BY DEF AfterInv, MoneyTypes
  <2> QED BY <2>1, <2>2, <2>3 DEF AfterInv, MoneyTypes
<1> QED BY <1>0, <1>1, AfterAlways, BackedAlways, PTL

-----------------------------------------------------------------------------
(* Coupons come back only with the end of their order.                     *)
CouponStep == \A c \in Coupons : usedBy[c] # None /\ usedBy'[c] = None
                                  => status'[usedBy[c]] \in Closing

LEMMA CheckoutKeepsUse ==
  ASSUME AfterInv, CheckoutStep
  PROVE  \A c \in Coupons : usedBy[c] # None => usedBy'[c] # None
<1>1. CheckoutFacts /\ Next
  BY DEF AfterInv, CheckoutFacts, CheckoutStep
<1>2. CASE usedBy' = usedBy
  BY <1>2
<1>3. CASE Pays
  <2>1. PICK o \in Orders : FinalizePayment(o)
    BY <1>1, <1>3, PaysFacts
  <2>2. MarkCouponUsed(o, form[o].coupon)
    BY <2>1 DEF FinalizePayment
  <2>3. o # None /\ usedBy \in [Coupons -> Orders \cup {None}]
    BY NoneAssumption DEF AfterInv, RowTypes
  <2> QED BY <2>2, <2>3 DEF MarkCouponUsed
<1>4. usedBy' = usedBy \/ Pays
  BY <1>1, RowShape DEF RowMoves, Inserts, Ends, Notes, Cancels, GivesBack, Ages, storeVars, couponVars,
     InsertOrder, CancelPendingOrder, HookUpdate, HookPartialUpdate, UserCancelCommit, RestoreStock, Expire
<1> QED BY <1>2, <1>3, <1>4

LEMMA CommitsReturnCoupons ==
  ASSUME AfterInv, NEW p \in Desk, PatchCommit(p) \/ RefundCommit(p)
  PROVE  CouponStep
<1> DEFINE j == job[p]
           o == j.order
<1>1. j \in Jobs /\ JobKnows(j) /\ status \in [Orders -> Statuses]
  BY DEF AfterInv, JobsKnow, RowTypes
<1>2. CASE usedBy' = usedBy
  BY <1>2 DEF CouponStep
<1>3. CASE PatchCommit(p) /\ CouponBack(o) /\ j.restock
  <2>1. o \in Orders /\ j.target \in Closing
    BY <1>1, <1>3, JobKind DEF PatchCommit, PatchJobs, JobKnows
  <2>2. status'[o] = j.target
    BY <1>1, <1>3, <2>1 DEF PatchCommit
  <2>3. ASSUME NEW c \in Coupons, usedBy[c] # None, usedBy'[c] = None PROVE usedBy[c] = o
    BY <1>3, <2>3 DEF CouponBack
  <2> QED BY <2>1, <2>2, <2>3 DEF CouponStep
<1>4. CASE RefundCommit(p) /\ CouponBack(o) /\ j.full
  <2>1. o \in Orders
    BY <1>1, <1>4, JobKind DEF RefundCommit, RefundJobs
  <2>2. status'[o] = "REFUNDED"
    BY <1>1, <1>4, <2>1 DEF RefundCommit
  <2>3. ASSUME NEW c \in Coupons, usedBy[c] # None, usedBy'[c] = None PROVE usedBy[c] = o
    BY <1>4, <2>3 DEF CouponBack
  <2> QED BY <2>2, <2>3 DEF CouponStep, Closing
<1>5. PatchCommit(p) => usedBy' = usedBy \/ (CouponBack(o) /\ j.restock)
  <2> SUFFICES ASSUME PatchCommit(p) PROVE usedBy' = usedBy \/ (CouponBack(o) /\ j.restock)
    OBVIOUS
  <2>1. CASE j.restock /\ form[o].coupon # None
    BY <2>1 DEF PatchCommit
  <2>2. CASE j.restock /\ form[o].coupon = None
    BY <2>2 DEF PatchCommit, couponVars
  <2>3. CASE ~j.restock
    BY <2>3 DEF PatchCommit, couponVars
  <2> QED BY <2>1, <2>2, <2>3
<1>6. RefundCommit(p) => usedBy' = usedBy \/ (CouponBack(o) /\ j.full)
  <2> SUFFICES ASSUME RefundCommit(p) PROVE usedBy' = usedBy \/ (CouponBack(o) /\ j.full)
    OBVIOUS
  <2>1. CASE GivesCouponBack(j)
    BY <2>1 DEF RefundCommit, GivesCouponBack
  <2>2. CASE ~GivesCouponBack(j)
    BY <2>2 DEF RefundCommit, couponVars
  <2> QED BY <2>1, <2>2
<1> QED BY <1>2, <1>3, <1>4, <1>5, <1>6

LEMMA CouponNext ==
  ASSUME AfterInv, [AfterNext]_allVars
  PROVE  CouponStep
<1>0. (\A c \in Coupons : usedBy[c] # None => usedBy'[c] # None) => CouponStep
  BY DEF CouponStep
<1>1. CASE CheckoutStep
  BY <1>0, <1>1, CheckoutKeepsUse
<1>2. ASSUME NEW p \in Admins, Staff(p) PROVE CouponStep
  <2>1. CASE PatchCommit(p) \/ RefundCommit(p)
    BY <2>1, CommitsReturnCoupons DEF Desk
  <2>2. usedBy' = usedBy \/ PatchCommit(p) \/ RefundCommit(p)
    BY <1>2 DEF Staff, PatchRead, BulkShipRead, RefundRead, ReturnStaffRead, EditRead, CallSucceeds,
       CallFails, ReturnStaffCommit, EditCommit, Cut, vars, storeVars, couponVars
  <2> QED BY <1>0, <2>1, <2>2
<1>3. ASSUME NEW p \in Customers, Customer(p) PROVE CouponStep
  <2>1. usedBy' = usedBy
    BY <1>3 DEF Customer, RequestRead, RequestCommit, Cut, vars, storeVars, couponVars
  <2> QED BY <1>0, <2>1
<1>4. CASE UNCHANGED allVars
  BY <1>0, <1>4 DEF allVars, vars, storeVars, couponVars
<1> QED BY <1>1, <1>2, <1>3, <1>4 DEF AfterNext

(* On every screen, and whatever is in flight, a used coupon becomes       *)
(* usable again only in the step that closes the order that used it        *)
(* (admin/orders/[id]/route.ts line 114, admin/refunds/route.ts line 144). *)
THEOREM CouponsComeBack ==
  ASSUME IsFiniteSet(Skus)
  PROVE  AfterSpec => CouponBackWhenClosed
<1>1. AfterInv /\ [AfterNext]_allVars => [CouponStep]_allVars
  BY CouponNext
<1>2. AfterSpec => [][CouponStep]_allVars
  BY <1>1, AfterAlways, PTL DEF AfterSpec
<1> QED BY <1>2 DEF CouponBackWhenClosed, CouponStep

-----------------------------------------------------------------------------
(* A shop that gives units and points back on one screen.  What its        *)
(* requests are doing: the buyers' requests only buy, and a staff request  *)
(* knows what the screen has checked, as far as it still holds when it     *)
(* commits.                                                                *)
BuyerSteps == {"idle", "create", "approve", "finalize", "commit", "cancelPayment",
               "netCancel", "cancelOrder"}

(* Units that can still come back.                                         *)
Asked(o, units) == \A s \in Skus : units[s] <= form[o].items[s] - refundedQty[o][s]

DeskKnows(p, j) ==
  /\ j.step = "patch" => j.order \in paid /\ j.target \in Shipping /\ ~j.restock
  /\ j.step \in {"refundCall", "refund"} =>
       /\ desk = {"refund"} /\ j.order \in paid /\ ~j.options.skipPgCall
       /\ j.full => j.amount + refundedAmount[j.order] >= form[j.order].total
       /\ j.units = IF j.full THEN form[j.order].items ELSE NoQty
  /\ j.step \in {"returnCall", "return"} =>
       /\ desk = {"return"} /\ p \in ReturnStaff /\ ~j.skipped /\ j.amount >= 0
       /\ j.target \in ReturnTransitions[returns[j.id].status]
       /\ j.complete => j.target = "COMPLETED"
       /\ j.full => j.complete /\ j.amount + refundedAmount[j.order] >= form[j.order].total
  /\ j.step = "request" =>
       /\ desk = {"return"} /\ p \in Customers /\ j.row.order \in paid
       /\ NoneRunning(j.row.order) /\ Asked(j.row.order, j.row.units)
  /\ j.step # "edit"

(* One return of an order at a time, of units that can come back.          *)
Active(r) == returns[r] # None /\ returns[r].status \in ActiveReturn

ReturnsApart ==
  /\ \A r \in Returns : returns[r] # None =>
       /\ desk = {"return"} /\ returns[r].order \in paid
       /\ Active(r) => Asked(returns[r].order, returns[r].units)
  /\ \A q, r \in Returns :
       Active(q) /\ Active(r) /\ returns[q].order = returns[r].order => q = r

Unsettled(o) == backRows[o].spent = 0 /\ backRows[o].earned = 0

(* The books of an order: all refunds are on record at the provider, units *)
(* come back of paid orders only, on the refund screen with the last of    *)
(* the money.                                                              *)
BooksKept ==
  \A o \in Orders :
    /\ refundedAmount[o] = refunds[o].pg
    /\ status[o] \in PaidStatuses \cup {"PARTIALLY_REFUNDED", "REFUNDED"} => o \in paid
    /\ o \notin paid => Unsettled(o) /\ \A s \in Skus : refundedQty[o][s] = 0
    /\ o \in paid => \A s \in Skus : refundedQty[o][s] <= form[o].items[s]
    /\ desk = {"refund"} /\ o \in paid /\ refundedAmount[o] < form[o].total
         => \A s \in Skus : refundedQty[o][s] = 0

DeskInv ==
  /\ \A p \in Procs : pc[p] \in BuyerSteps
  /\ \A p \in Desk : DeskKnows(p, job[p])
  /\ ReturnsApart
  /\ BooksKept

(* The points are settled once, after the last of the money; on the return *)
(* screen no other return of the order is under way then.                  *)
PointsInv ==
  \A o \in Orders :
    /\ backRows[o].spent <= 1 /\ backRows[o].earned <= 1
    /\ ~Unsettled(o) =>
         /\ o \in paid /\ refundedAmount[o] >= form[o].total
         /\ desk = {"return"} =>
              /\ NoneRunning(o)
              /\ \A p \in Desk : job[p].step = "request" => job[p].row.order # o

(* An order whose points were settled is not opened again: no status       *)
(* change that was read before the settlement is committed after it.       *)
NotReopened == desk = {"return"} =>
  \A o \in Orders : status[o] = "DELIVERED" => Unsettled(o)

(* Where goods come back on the return screen: one clerk for returns and   *)
(* one customer at a time.                                                 *)
Apart == {"return"} \in Desks => /\ \A p, q \in ReturnStaff : p = q
                                 /\ \A p, q \in Customers : p = q

(* What has been refunded and what a request is about to put on record is  *)
(* never more than the order cost.                                         *)
LEMMA Room ==
  ASSUME AfterInv, Backed, BooksKept, IsFiniteSet(Desk), NEW p \in Desk, NEW o \in Orders,
         form[o] # None
  PROVE  /\ refundedAmount[o] + InFlight(job[p], o) <= returned[o]
         /\ returned[o] <= form[o].total
         /\ refundedAmount[o] \in Int /\ InFlight(job[p], o) \in Nat
         /\ returned[o] \in Nat /\ form[o].total \in Nat
<1> DEFINE F == [q \in Desk |-> InFlight(job[q], o)]
<1>1. \A q \in Desk : F[q] \in Nat
  BY InFlightNat DEF AfterInv, JobsKnow
<1>2. F[p] = InFlight(job[p], o) /\ Flying(o) = SumFunctionOnSet(F, Desk)
  BY DEF Flying
<1>3. F[p] <= SumFunctionOnSet(F, Desk) /\ SumFunctionOnSet(F, Desk) \in Nat
  <2> HIDE DEF F
  <2>1. PICK f : f = F
    OBVIOUS
  <2>2. SumFunctionOnSet(f, Desk) = f[p] + SumFunctionOnSet(f, Desk \ {p})
    BY <1>1, <2>1, SumRemove
  <2>3. IsFiniteSet(Desk \ {p}) /\ \A q \in Desk \ {p} : f[q] \in Nat
    BY <1>1, <2>1, FS_RemoveElement
  <2>4. SumFunctionOnSet(f, Desk \ {p}) \in Nat
    BY <2>3, SumNat
  <2> QED BY <1>1, <2>1, <2>2, <2>4
<1>4. refunds[o].pg + Flying(o) <= returned[o]
  BY DEF Backed
<1>5. /\ refundedAmount[o] = refunds[o].pg /\ refundedAmount[o] \in Int
      /\ returned[o] \in Nat /\ returned[o] <= form[o].total /\ form[o].total \in Nat
  BY ExistingForm DEF BooksKept, AfterInv, RowTypes, MoneyTypes
<1>6. F[p] \in Nat
  BY <1>1
<1> HIDE DEF F
<1> QED BY <1>2, <1>3, <1>4, <1>5, <1>6

LEMMA DeskFixed ==
  ASSUME [AfterNext]_allVars
  PROVE  desk' = desk
<1>1. ASSUME NEW p \in Admins, Staff(p) PROVE desk' = desk
  BY <1>1 DEF Staff, PatchRead, BulkShipRead, RefundRead, ReturnStaffRead, EditRead, PatchCommit,
     CallSucceeds, CallFails, RefundCommit, ReturnStaffCommit, EditCommit, Cut
<1>2. ASSUME NEW p \in Customers, Customer(p) PROVE desk' = desk
  BY <1>2 DEF Customer, RequestRead, RequestCommit, Cut
<1> QED BY <1>1, <1>2 DEF AfterNext, CheckoutStep, allVars, afterVars

(* A step in which one request goes on and nothing else changes of what    *)
(* the others know.                                                        *)
DeskStill == /\ UNCHANGED <<status, form, paid, refundedQty, refundedAmount>>
             /\ UNCHANGED <<refunds, backRows, returns, desk, pc>>

DeskStep == DeskInv' /\ (PointsInv /\ NotReopened => PointsInv')

LEMMA JobGoes ==
  ASSUME AfterInv, DeskInv, DeskStill, NEW p \in Desk, NEW k, Take(p, k), DeskKnows(p, k),
         k.step = "request" /\ NotReopened => Unsettled(k.row.order)
  PROVE  DeskStep
<1>1. \A q \in Desk : DeskKnows(q, job'[q])
  BY DEF Take, AfterInv, JobsKnow, DeskInv
<1>2. \A q \in Desk : DeskKnows(q, job[q])'
  BY <1>1 DEF DeskKnows, DeskStill, Asked, NoneRunning
<1>3. ReturnsApart'
  BY DEF DeskInv, ReturnsApart, DeskStill, Asked, Active
<1>4. BooksKept'
  BY DEF DeskInv, BooksKept, DeskStill, Unsettled
<1>5. \A q \in Procs : pc'[q] \in BuyerSteps
  BY DEF DeskInv, DeskStill
<1>6. ASSUME PointsInv, NotReopened PROVE PointsInv'
  <2>1. \A q \in Desk : job'[q] = IF q = p THEN k ELSE job[q]
    BY DEF Take, AfterInv, JobsKnow
  <2>2. ASSUME NEW o \in Orders, ~Unsettled(o), NEW q \in Desk, desk = {"return"}, job'[q].step = "request"
        PROVE  job'[q].row.order # o
    BY <1>6, <2>1, <2>2 DEF PointsInv
  <2> QED BY <1>6, <2>2 DEF PointsInv, DeskStill, Unsettled, NoneRunning
<1> QED BY <1>2, <1>3, <1>4, <1>5, <1>6 DEF DeskInv, DeskStep

LEMMA StillReads ==
  ASSUME UNCHANGED <<vars, desk, returns, returned, refunds, backRows>>
  PROVE  DeskStill
BY DEF DeskStill, vars, storeVars, orderVars, refundVars, procVars

LEMMA DeskPatchRead ==
  ASSUME AfterInv, DeskInv, OneDesk, NEW p \in Desk, NEW o \in Orders, NEW t \in Statuses,
         PatchRead(p, o, t) \/ BulkShipRead(p, o)
  PROVE  DeskStep
<1>0. "manual" \notin desk /\ status[o] \in Statuses
  BY DEF OneDesk, AfterInv, RowTypes
<1>1. ASSUME PatchRead(p, o, t) PROVE DeskStep
  <2>1. t \in NextTransitions[status[o]] /\ t \in Shipping
    BY <1>0, <1>1 DEF PatchRead
  <2>2. status[o] \in PaidStatuses /\ t \notin Closing
    BY <1>0, <2>1 DEF NextTransitions, Statuses, Shipping, PaidStatuses, Closing
  <2>3. o \in paid
    BY <2>2 DEF DeskInv, BooksKept
  <2> DEFINE k == [step |-> "patch", order |-> o, target |-> t,
                   restock |-> t \in Closing /\ status[o] \in PaidStatuses]
  <2>4. DeskKnows(p, k)
    BY <2>1, <2>2, <2>3 DEF DeskKnows
  <2>5. Take(p, k) /\ DeskStill /\ k.step # "request"
    BY <1>1, StillReads DEF PatchRead
  <2> HIDE DEF k
  <2> QED BY <2>4, <2>5, JobGoes
<1>2. ASSUME BulkShipRead(p, o) PROVE DeskStep
  <2>1. o \in paid
    BY <1>2 DEF BulkShipRead, DeskInv, BooksKept, PaidStatuses
  <2> DEFINE k == [step |-> "patch", order |-> o, target |-> "SHIPPED", restock |-> FALSE]
  <2>2. DeskKnows(p, k)
    BY <2>1 DEF DeskKnows, Shipping
  <2>3. Take(p, k) /\ DeskStill /\ k.step # "request"
    BY <1>2, StillReads DEF BulkShipRead
  <2> HIDE DEF k
  <2> QED BY <2>2, <2>3, JobGoes
<1> QED BY <1>1, <1>2

LEMMA DeskRefundRead ==
  ASSUME AfterInv, DeskInv, OneDesk, NEW p \in Desk, NEW o \in Orders, form[o] # None,
         NEW opt \in RefundOptions, NEW a \in 1..form[o].total, RefundRead(p, o, a, opt)
  PROVE  DeskStep
<1> DEFINE full == a + refundedAmount[o] = form[o].total
           k == [step |-> IF opt.skipPgCall THEN "refund" ELSE "refundCall",
                 order |-> o, amount |-> a, full |-> full, options |-> opt,
                 units |-> IF full THEN Unrestored(o) ELSE NoQty]
<1>1. desk = {"refund"} /\ ~opt.skipPgCall
  BY DEF OneDesk, RefundRead
<1>2. o \in paid
  BY DEF RefundRead, DeskInv, BooksKept
<1>3. form[o].items \in [Skus -> Nat] /\ form[o].total \in Nat /\ refundedAmount[o] \in Int
  BY ExistingForm DEF AfterInv, RowTypes
<1>4. full => Unrestored(o) = form[o].items
  <2> SUFFICES ASSUME full PROVE Unrestored(o) = form[o].items
    OBVIOUS
  <2>1. refundedAmount[o] < form[o].total
    BY <1>3
  <2>2. \A s \in Skus : refundedQty[o][s] = 0
    BY <1>1, <1>2, <2>1 DEF DeskInv, BooksKept
  <2>3. \A s \in Skus : Unrestored(o)[s] = form[o].items[s]
    BY <1>3, <2>2 DEF Unrestored
  <2>4. Unrestored(o) = [s \in Skus |-> Unrestored(o)[s]]
    BY DEF Unrestored
  <2> QED BY <1>3, <2>3, <2>4
<1>5. full => a + refundedAmount[o] >= form[o].total
  BY <1>3
<1>6. DeskKnows(p, k)
  <2>1. k.step = "refundCall" /\ k.order = o /\ k.amount = a /\ k.full = full /\ k.options = opt
        /\ k.units = IF full THEN form[o].items ELSE NoQty
    BY <1>1, <1>4
  <2> HIDE DEF k
  <2> QED BY <1>1, <1>2, <1>5, <2>1 DEF DeskKnows
<1>7. Take(p, k) /\ DeskStill /\ k.step # "request"
  BY StillReads DEF RefundRead
<1> HIDE DEF k
<1> QED BY <1>6, <1>7, JobGoes

LEMMA DeskReturnRead ==
  ASSUME AfterInv, DeskInv, Backed, OneDesk, IsFiniteSet(Desk), NEW p \in Desk, NEW r \in Returns,
         NEW t, NEW skip \in BOOLEAN, ReturnStaffRead(p, r, t, skip)
  PROVE  DeskStep
<1> DEFINE rr == returns[r]
           a == RestOf(rr)
           complete == t = "COMPLETED" /\ rr.type = "RETURN"
           k == [step |-> IF complete /\ a > 0 /\ ~skip THEN "returnCall" ELSE "return",
                 id |-> r, order |-> rr.order, target |-> t, complete |-> complete,
                 amount |-> a, skipped |-> skip,
                 full |-> complete /\ a + refundedAmount[rr.order] >= form[rr.order].total]
<1>1. /\ rr # None /\ rr \in ReturnRows /\ rr.order \in Orders /\ rr.amount \in Nat
      /\ form[rr.order] # None /\ p \in ReturnStaff /\ t \in ReturnTransitions[rr.status]
  BY DEF ReturnStaffRead, AfterInv, ReturnsKnow, ReturnRows
<1>2. desk = {"return"} /\ ~skip
  BY <1>1 DEF DeskInv, ReturnsApart, ReturnStaffRead
<1>3. a >= 0
  <2>1. /\ refundedAmount[rr.order] + InFlight(job[p], rr.order) <= returned[rr.order]
        /\ returned[rr.order] <= form[rr.order].total
        /\ refundedAmount[rr.order] \in Int /\ InFlight(job[p], rr.order) \in Nat
        /\ returned[rr.order] \in Nat /\ form[rr.order].total \in Nat
    BY <1>1, Room DEF DeskInv
  <2>2. form[rr.order].total - refundedAmount[rr.order] >= 0
    BY <2>1
  <2> QED BY <1>1, <2>1, <2>2 DEF RestOf
<1>4. DeskKnows(p, k)
  <2>1. k.step \in {"returnCall", "return"} /\ k.id = r /\ k.order = rr.order /\ k.target = t
        /\ k.complete = complete /\ k.amount = a /\ k.skipped = skip
        /\ k.full = (complete /\ a + refundedAmount[rr.order] >= form[rr.order].total)
    <3> HIDE DEF a
    <3> QED OBVIOUS
  <2> HIDE DEF k, a
  <2> QED BY <1>1, <1>2, <1>3, <2>1 DEF DeskKnows
<1>5. Take(p, k) /\ DeskStill /\ k.step # "request"
  BY StillReads DEF ReturnStaffRead
<1> HIDE DEF k
<1> QED BY <1>4, <1>5, JobGoes

LEMMA DeskRequestRead ==
  ASSUME AfterInv, DeskInv, OneDesk, NEW p \in Desk, p \in Customers, NEW o \in Orders, NEW t, NEW units,
         RequestRead(p, o, units, t)
  PROVE  DeskStep
<1> DEFINE k == [step |-> "request", row |-> [order |-> o, units |-> units, type |-> t,
                                              amount |-> AmountOf(units), status |-> "REQUESTED"]]
<1>1. desk = {"return"} /\ NoneRunning(o) /\ Listings = 1
  BY DEF OneDesk, RequestRead
<1>2. o \in paid /\ Asked(o, units)
  <2>1. o \in paid
    BY DEF RequestRead, DeskInv, BooksKept, PaidStatuses
  <2>2. ASSUME NEW s \in Skus PROVE units[s] <= form[o].items[s] - refundedQty[o][s]
    <3>1. \/ units[s] = 0
          \/ units[s] <= Listings * (form[o].items[s] - refundedQty[o][s])
      BY DEF RequestRead
    <3>2. form[o].items[s] \in Nat /\ refundedQty[o][s] \in Nat /\ refundedQty[o][s] <= form[o].items[s]
      BY <2>1, ExistingForm DEF RequestRead, DeskInv, BooksKept, AfterInv, RowTypes
    <3> QED BY <1>1, <3>1, <3>2
  <2> QED BY <2>1, <2>2 DEF Asked
<1>3. DeskKnows(p, k)
  <2>1. k.step = "request" /\ k.row.order = o /\ k.row.units = units
    OBVIOUS
  <2> HIDE DEF k
  <2> QED BY <1>1, <1>2, <2>1 DEF DeskKnows
<1>4. Take(p, k) /\ DeskStill
  BY StillReads DEF RequestRead
<1>5. NotReopened => Unsettled(k.row.order)
  BY <1>1 DEF NotReopened, RequestRead
<1> HIDE DEF k
<1> QED BY <1>3, <1>4, <1>5, JobGoes

LEMMA IdleKnows == \A p : DeskKnows(p, Idle) /\ Idle.step = "idle"
BY DEF DeskKnows, Idle

LEMMA DeskCalls ==
  ASSUME AfterInv, DeskInv, NEW p \in Desk, CallSucceeds(p) \/ CallFails(p) \/ Cut(p)
  PROVE  DeskStep
<1> DEFINE j == job[p]
<1>1. DeskKnows(p, j) /\ j \in Jobs
  BY DEF DeskInv, AfterInv, JobsKnow
<1>2. DeskStill
  BY DEF CallSucceeds, CallFails, Cut, DeskStill, vars, storeVars, orderVars, refundVars, procVars
<1>3. CASE CallFails(p) \/ Cut(p)
  BY <1>2, <1>3, IdleKnows, JobGoes DEF CallFails, Cut, Answer
<1>4. CASE CallSucceeds(p)
  <2> DEFINE k == [j EXCEPT !.step = IF @ = "refundCall" THEN "refund" ELSE "return"]
  <2>1. Take(p, k) /\ j.step \in {"refundCall", "returnCall"}
    BY <1>4 DEF CallSucceeds
  <2>2. CASE j.step = "refundCall"
    <3>1. j \in RefundJobs
      BY <1>1, <2>2, JobKind
    <3>2. /\ k.step = "refund" /\ k.order = j.order /\ k.amount = j.amount /\ k.full = j.full
          /\ k.options = j.options /\ k.units = j.units
      BY <2>2, <3>1 DEF RefundJobs
    <3> HIDE DEF k
    <3>3. DeskKnows(p, k)
      BY <1>1, <2>2, <3>2 DEF DeskKnows
    <3> QED BY <1>2, <2>1, <3>2, <3>3, JobGoes
  <2>3. CASE j.step = "returnCall"
    <3>1. j \in ReturnJobs
      BY <1>1, <2>3, JobKind
    <3>2. /\ k.step = "return" /\ k.id = j.id /\ k.order = j.order /\ k.target = j.target
          /\ k.complete = j.complete /\ k.amount = j.amount /\ k.skipped = j.skipped /\ k.full = j.full
      BY <2>3, <3>1 DEF ReturnJobs
    <3> HIDE DEF k
    <3>3. DeskKnows(p, k)
      BY <1>1, <2>3, <3>2 DEF DeskKnows
    <3> QED BY <1>2, <2>1, <3>2, <3>3, JobGoes
  <2> QED BY <2>1, <2>2, <2>3
<1> QED BY <1>3, <1>4

(* A status change: the order was paid, and nothing comes back.            *)
LEMMA DeskPatch ==
  ASSUME AfterInv, DeskInv, NEW p \in Desk, PatchCommit(p)
  PROVE  DeskStep
<1> DEFINE j == job[p]
<1>1. /\ j.step = "patch" /\ j.order \in paid /\ j.target \in Shipping /\ ~j.restock
      /\ Take(p, Idle)
  BY DEF DeskInv, DeskKnows, PatchCommit, Answer
<1>2. /\ status' = [status EXCEPT ![j.order] = j.target]
      /\ UNCHANGED <<form, paid, refundedQty, refundedAmount>>
      /\ UNCHANGED <<refunds, backRows, returns, desk, pc>>
  BY <1>1 DEF PatchCommit, refundVars, procVars
<1>3. \A q \in Desk : DeskKnows(q, job'[q])
  BY <1>1, IdleKnows DEF Take, AfterInv, JobsKnow, DeskInv
<1>4. \A q \in Desk : DeskKnows(q, job[q])'
  BY <1>2, <1>3 DEF DeskKnows, Asked, NoneRunning
<1>5. ReturnsApart'
  BY <1>2 DEF DeskInv, ReturnsApart, Asked, Active
<1>6. BooksKept'
  <2>1. \A o \in Orders : status'[o] \in PaidStatuses \cup {"PARTIALLY_REFUNDED", "REFUNDED"} => o \in paid
    <3> SUFFICES ASSUME NEW o \in Orders, o # j.order,
                        status'[o] \in PaidStatuses \cup {"PARTIALLY_REFUNDED", "REFUNDED"}
                 PROVE  o \in paid
      BY <1>1
    <3>1. status'[o] = status[o]
      BY <1>2 DEF AfterInv, RowTypes
    <3> QED BY <3>1 DEF DeskInv, BooksKept
  <2> QED BY <1>2, <2>1 DEF DeskInv, BooksKept, Unsettled
<1>7. ASSUME PointsInv PROVE PointsInv'
  <2>1. \A q \in Desk : job'[q] = IF q = p THEN Idle ELSE job[q]
    BY <1>1 DEF Take, AfterInv, JobsKnow
  <2>2. ASSUME NEW o \in Orders, ~Unsettled(o), NEW q \in Desk, desk = {"return"}, job'[q].step = "request"
        PROVE  job'[q].row.order # o
    BY <1>7, <2>1, <2>2, IdleKnows DEF PointsInv
  <2> QED BY <1>2, <1>7, <2>2 DEF PointsInv, Unsettled, NoneRunning
<1>8. \A q \in Procs : pc'[q] \in BuyerSteps
  BY <1>2 DEF DeskInv
<1> QED BY <1>4, <1>5, <1>6, <1>7, <1>8 DEF DeskInv, DeskStep

(* The customer's request becomes the one running return of the order.     *)
LEMMA DeskRequest ==
  ASSUME AfterInv, DeskInv, Apart, NEW p \in Desk, RequestCommit(p)
  PROVE  DeskStep
<1> DEFINE row == job[p].row
<1>1. /\ job[p].step = "request" /\ desk = {"return"} /\ p \in Customers /\ row.order \in paid
      /\ NoneRunning(row.order) /\ Asked(row.order, row.units) /\ Take(p, Idle)
  BY DEF DeskInv, DeskKnows, RequestCommit, Answer
<1>2. row \in ReturnRows
  BY <1>1, JobKind DEF AfterInv, JobsKnow, RequestJobs
<1>3. PICK r \in Returns : returns[r] = None /\ returns' = [returns EXCEPT ![r] = row]
  BY DEF RequestCommit
<1>4. UNCHANGED <<status, form, paid, refundedQty, refundedAmount, refunds, backRows, desk, pc>>
  BY DEF RequestCommit, vars, storeVars, orderVars, refundVars, procVars
<1>5. \A q \in Desk : job'[q] = IF q = p THEN Idle ELSE job[q]
  BY <1>1 DEF Take, AfterInv, JobsKnow
<1>6. /\ \A q \in Returns : returns'[q] = IF q = r THEN row ELSE returns[q]
      /\ row # None /\ None \notin ReturnRows
  BY <1>2, <1>3, AfterAssumption DEF AfterInv, ReturnsKnow
<1> HIDE DEF row
<1>7. ASSUME NEW q \in Desk PROVE DeskKnows(q, job[q])'
  <2>1. CASE q = p
    BY <1>5, <2>1, IdleKnows DEF DeskKnows
  <2>2. CASE q # p
    <3>1. job'[q] = job[q] /\ DeskKnows(q, job[q]) /\ JobKnows(job[q]) /\ job[q] \in Jobs
      BY <1>5, <2>2 DEF DeskInv, AfterInv, JobsKnow
    <3>2. job[q].step # "request"
      BY <1>1, <2>2, <3>1 DEF DeskKnows, Apart, AfterInv
    <3>3. job[q].step \in {"returnCall", "return"} => returns'[job[q].id] = returns[job[q].id]
      BY <1>3, <1>6, <3>1, JobKind DEF JobKnows, ReturnJobs
    <3> QED BY <1>4, <3>1, <3>2, <3>3 DEF DeskKnows
  <2> QED BY <2>1, <2>2
<1>8. ReturnsApart'
  <2>1. ASSUME NEW q \in Returns, returns'[q] # None
        PROVE  /\ desk' = {"return"} /\ returns'[q].order \in paid
               /\ returns'[q].status \in ActiveReturn =>
                    \A s \in Skus : returns'[q].units[s] <=
                      form[returns'[q].order].items[s] - refundedQty[returns'[q].order][s]
    <3>1. CASE q = r
      BY <1>1, <1>4, <1>6, <3>1 DEF Asked
    <3>2. CASE q # r
      BY <1>4, <1>6, <2>1, <3>2 DEF DeskInv, ReturnsApart, Asked, Active
    <3> QED BY <3>1, <3>2
  <2>2. ASSUME NEW q \in Returns, NEW t \in Returns, Active(q)', Active(t)',
               returns'[q].order = returns'[t].order
        PROVE  q = t
    <3>1. CASE q # r /\ t # r
      BY <1>6, <2>2, <3>1 DEF DeskInv, ReturnsApart, Active
    <3>2. ASSUME NEW u \in Returns, u # r, Active(u)' PROVE returns'[u].order # row.order
      BY <1>1, <1>6, <3>2 DEF NoneRunning, Active
    <3> QED BY <1>6, <2>2, <3>1, <3>2
  <2> QED BY <1>4, <2>1, <2>2 DEF ReturnsApart, Asked, Active
<1>9. BooksKept'
  BY <1>4 DEF DeskInv, BooksKept, Unsettled
<1>10. ASSUME PointsInv PROVE PointsInv'
  <2>1. ASSUME NEW o \in Orders, ~Unsettled(o), desk = {"return"} PROVE NoneRunning(o)'
    <3>1. row.order # o
      BY <1>1, <1>10, <2>1 DEF PointsInv, row
    <3> QED BY <1>6, <1>10, <2>1, <3>1 DEF PointsInv, NoneRunning
  <2>2. ASSUME NEW o \in Orders, ~Unsettled(o), NEW q \in Desk, desk = {"return"}, job'[q].step = "request"
        PROVE  job'[q].row.order # o
    BY <1>5, <1>10, <2>2, IdleKnows DEF PointsInv
  <2> QED BY <1>4, <1>10, <2>1, <2>2 DEF PointsInv, Unsettled
<1>11. \A q \in Procs : pc'[q] \in BuyerSteps
  BY <1>4 DEF DeskInv
<1> QED BY <1>7, <1>8, <1>9, <1>10, <1>11 DEF DeskInv, DeskStep

(* What a refund at the provider adds to the books, and a settlement to    *)
(* the points.                                                             *)
LEMMA RecordAdds ==
  ASSUME AfterInv, NEW o \in Orders, NEW a \in Int, Record(o, a, FALSE)
  PROVE  \A q \in Orders : /\ refundedAmount'[q] = IF q = o THEN refundedAmount[q] + a ELSE refundedAmount[q]
                           /\ refunds'[q].pg = IF q = o THEN refunds[q].pg + a ELSE refunds[q].pg
<1>1. refunds' = [refunds EXCEPT ![o] = [refunds[o] EXCEPT !.pg = refunds[o].pg + a]]
  BY DEF Record
<1>2. refunds[o] \in [pg : Int, manual : Int] /\ refunds \in [Orders -> [pg : Int, manual : Int]]
  BY DEF AfterInv
<1>3. \A q \in Orders : refunds'[q].pg = IF q = o THEN refunds[q].pg + a ELSE refunds[q].pg
  BY <1>1, <1>2
<1>4. refundedAmount' = [refundedAmount EXCEPT ![o] = refundedAmount[o] + a]
  BY DEF Record
<1> QED BY <1>3, <1>4 DEF AfterInv, RowTypes

LEMMA PointsBackAdds ==
  ASSUME AfterInv, NEW o \in Orders, form[o] # None, NEW b \in BOOLEAN, PointsBack(o, b)
  PROVE  /\ \A q \in Orders : q # o => backRows'[q] = backRows[q]
         /\ backRows'[o].spent \in {backRows[o].spent, backRows[o].spent + 1}
         /\ backRows'[o].earned \in {backRows[o].earned, backRows[o].earned + 1}
<1>1. CASE form[o].user = None
  BY <1>1 DEF PointsBack
<1>2. CASE form[o].user # None
  <2>1. backRows \in [Orders -> [spent : Nat, earned : Nat]]
    BY DEF AfterInv
  <2>2. backRows' = [backRows EXCEPT ![o] =
          [spent  |-> backRows[o].spent + (IF (IF b THEN form[o].pointUsed ELSE 0) > 0 THEN 1 ELSE 0),
           earned |-> backRows[o].earned + (IF form[o].pointEarned > 0 THEN 1 ELSE 0)]]
    BY <1>2 DEF PointsBack
  <2> QED BY <2>1, <2>2
<1> QED BY <1>1, <1>2

(* What a refund knows when it commits: the units it brings back with the  *)
(* last of the money have not come back before.                            *)
LEMMA RefundFacts ==
  ASSUME AfterInv, DeskInv, Backed, IsFiniteSet(Desk), NEW p \in Desk, RefundCommit(p),
         NEW o, o = job[p].order
  PROVE  /\ job[p].step = "refund" /\ desk = {"refund"} /\ o \in paid
         /\ job[p].options.skipPgCall = FALSE
         /\ job[p].full => job[p].amount + refundedAmount[o] >= form[o].total
         /\ job[p].units = IF job[p].full THEN form[o].items ELSE NoQty
         /\ Take(p, Idle) /\ Record(o, job[p].amount, job[p].options.skipPgCall)
         /\ o \in Orders /\ job[p].amount \in Nat /\ job[p].amount > 0 /\ job[p].full \in BOOLEAN
         /\ job[p].options.points \in BOOLEAN /\ form[o] # None
         /\ refundedAmount[o] < form[o].total /\ form[o].items \in [Skus -> Nat]
         /\ refundedAmount[o] \in Int /\ form[o].total \in Nat
         /\ \A s \in Skus : refundedQty[o][s] = 0
<1> DEFINE j == job[p]
<1>0. o = j.order
  OBVIOUS
<1>1. /\ j.step = "refund" /\ desk = {"refund"} /\ o \in paid /\ j.options.skipPgCall = FALSE
      /\ j.full => j.amount + refundedAmount[o] >= form[o].total
      /\ j.units = IF j.full THEN form[o].items ELSE NoQty
      /\ Take(p, Idle) /\ Record(o, j.amount, j.options.skipPgCall)
  <2>1. j \in RefundJobs
    BY JobKind DEF RefundCommit, AfterInv, JobsKnow
  <2>2. j.options.skipPgCall \in BOOLEAN
    BY <2>1 DEF RefundJobs
  <2> QED BY <1>0, <2>2 DEF DeskInv, DeskKnows, RefundCommit, Answer
<1>2. /\ o \in Orders /\ j.amount \in Nat /\ j.amount > 0 /\ j.full \in BOOLEAN
      /\ j.options.points \in BOOLEAN /\ form[o] # None
  <2>1. j \in RefundJobs /\ JobKnows(j)
    BY <1>1, JobKind DEF AfterInv, JobsKnow
  <2> QED BY <1>0, <1>1, <2>1 DEF RefundJobs, JobKnows
<1>3. refundedAmount[o] < form[o].total /\ form[o].items \in [Skus -> Nat] /\ refundedAmount[o] \in Int
      /\ form[o].total \in Nat
  <2>1. InFlight(j, o) = j.amount
    BY <1>0, <1>1 DEF InFlight
  <2>2. /\ refundedAmount[o] + InFlight(job[p], o) <= returned[o] /\ returned[o] <= form[o].total
        /\ refundedAmount[o] \in Int /\ returned[o] \in Nat /\ form[o].total \in Nat
    BY <1>2, Room DEF DeskInv
  <2>3. form[o].items \in [Skus -> Nat]
    BY <1>2, ExistingForm DEF AfterInv
  <2> QED BY <1>2, <2>1, <2>2, <2>3
<1>4. \A s \in Skus : refundedQty[o][s] = 0
  BY <1>1, <1>2, <1>3 DEF DeskInv, BooksKept
<1> QED BY <1>1, <1>2, <1>3, <1>4

(* The refund screen: the last of the money brings the units back.         *)
LEMMA DeskRefund ==
  ASSUME AfterInv, DeskInv, Backed, IsFiniteSet(Desk), NEW p \in Desk, RefundCommit(p)
  PROVE  DeskStep
<1> DEFINE j == job[p]
<1>0. PICK o : o = j.order
  OBVIOUS
<1>1. /\ j.step = "refund" /\ desk = {"refund"} /\ o \in paid /\ j.options.skipPgCall = FALSE
      /\ j.full => j.amount + refundedAmount[o] >= form[o].total
      /\ j.units = IF j.full THEN form[o].items ELSE NoQty
      /\ Take(p, Idle) /\ Record(o, j.amount, j.options.skipPgCall)
  BY <1>0, RefundFacts
<1>2. /\ o \in Orders /\ j.amount \in Nat /\ j.amount > 0 /\ j.full \in BOOLEAN
      /\ j.options.points \in BOOLEAN /\ form[o] # None
  BY <1>0, RefundFacts
<1>3. /\ refundedAmount[o] < form[o].total /\ form[o].items \in [Skus -> Nat]
      /\ refundedAmount[o] \in Int /\ form[o].total \in Nat
  BY <1>0, RefundFacts
<1>4. \A q \in Orders : /\ refundedAmount'[q] = IF q = o THEN refundedAmount[q] + j.amount ELSE refundedAmount[q]
                        /\ refunds'[q].pg = IF q = o THEN refunds[q].pg + j.amount ELSE refunds[q].pg
  <2>1. PICK c \in Orders, a \in Int : c = o /\ a = j.amount
    BY <1>2
  <2>2. Record(c, a, FALSE)
    BY <1>0, <1>1, <2>1 DEF Record
  <2> HIDE DEF j
  <2> QED BY <2>1, <2>2, RecordAdds
<1>5. /\ UNCHANGED <<form, paid, returns, desk, pc>>
      /\ status' = [status EXCEPT ![o] = IF j.full THEN "REFUNDED" ELSE "PARTIALLY_REFUNDED"]
      /\ refundedQty' = [refundedQty EXCEPT ![o] = [s \in Skus |->
                           IF j.units[s] > 0 THEN form[o].items[s] ELSE refundedQty[o][s]]]
  BY <1>0 DEF RefundCommit, procVars
<1>6. \A q \in Desk : job'[q] = IF q = p THEN Idle ELSE job[q]
  BY <1>1 DEF Take, AfterInv, JobsKnow
<1>7. \A s \in Skus : refundedQty[o][s] = 0
  BY <1>0, RefundFacts
<1>8. ASSUME NEW q \in Desk PROVE DeskKnows(q, job[q])'
  <2>1. CASE q = p
    BY <1>6, <2>1, IdleKnows DEF DeskKnows
  <2>2. CASE q # p
    <3>1. job'[q] = job[q] /\ DeskKnows(q, job[q])
      BY <1>6, <2>2 DEF DeskInv
    <3>2. /\ job[q].step \notin {"returnCall", "return", "request", "edit"}
          /\ job[q].step = "patch" => job[q].order \in paid /\ job[q].target \in Shipping /\ ~job[q].restock
      BY <1>1, <3>1 DEF DeskKnows
    <3>3. job[q].step \in {"refundCall", "refund"} /\ job[q].full =>
            job[q].amount + refundedAmount'[job[q].order] >= form[job[q].order].total
      <4> SUFFICES ASSUME job[q].step \in {"refundCall", "refund"}, job[q].full
                   PROVE  job[q].amount + refundedAmount'[job[q].order] >= form[job[q].order].total
        OBVIOUS
      <4>1. job[q] \in RefundJobs
        BY JobKind DEF AfterInv, JobsKnow
      <4>2. job[q].order \in Orders /\ job[q].amount \in Nat /\ form[job[q].order] # None
        BY <4>1 DEF RefundJobs, AfterInv, JobsKnow, JobKnows
      <4>3. refundedAmount[job[q].order] \in Int /\ form[job[q].order].total \in Nat
        BY <4>2, ExistingForm DEF AfterInv, RowTypes
      <4>4. job[q].amount + refundedAmount[job[q].order] >= form[job[q].order].total
        BY <3>1 DEF DeskKnows
      <4> HIDE DEF j
      <4> QED BY <1>2, <1>4, <4>2, <4>3, <4>4
    <3> QED BY <1>5, <3>1, <3>2, <3>3 DEF DeskKnows
  <2> QED BY <2>1, <2>2
<1>9. ReturnsApart'
  <2>1. \A r \in Returns : returns'[r] = None
    BY <1>1, <1>5 DEF DeskInv, ReturnsApart
  <2> QED BY <2>1 DEF ReturnsApart, Active
<1>10. \/ backRows' = backRows
       \/ /\ j.full
          /\ \A q \in Orders : q # o => backRows'[q] = backRows[q]
          /\ backRows'[o].spent \in {backRows[o].spent, backRows[o].spent + 1}
          /\ backRows'[o].earned \in {backRows[o].earned, backRows[o].earned + 1}
  <2>1. CASE j.full
    <3>1. PICK c \in Orders, b \in BOOLEAN : c = o /\ b = j.options.points
      BY <1>2
    <3>2. PointsBack(o, j.options.points)
      BY <1>0, <2>1 DEF RefundCommit
    <3>3. PointsBack(c, b)
      BY <3>1, <3>2 DEF PointsBack
    <3> HIDE DEF j
    <3> QED BY <1>2, <2>1, <3>1, <3>3, PointsBackAdds
  <2>2. CASE ~j.full
    BY <2>2 DEF RefundCommit
  <2> QED BY <2>1, <2>2
<1>11. \A q \in Orders : q # o => backRows'[q] = backRows[q]
  BY <1>10
<1>12. BooksKept'
  <2>1. ASSUME NEW q \in Orders, q # o
        PROVE  /\ UNCHANGED <<status[q], refundedQty[q], refundedAmount[q], refunds[q].pg, backRows[q]>>
    BY <1>4, <1>5, <1>11, <2>1 DEF AfterInv, RowTypes
  <2>2. ASSUME NEW q \in Orders
        PROVE  /\ refundedAmount'[q] = refunds'[q].pg
               /\ status'[q] \in PaidStatuses \cup {"PARTIALLY_REFUNDED", "REFUNDED"} => q \in paid
               /\ q \notin paid => Unsettled(q)' /\ \A s \in Skus : refundedQty'[q][s] = 0
               /\ q \in paid => \A s \in Skus : refundedQty'[q][s] <= form[q].items[s]
               /\ desk = {"refund"} /\ q \in paid /\ refundedAmount'[q] < form[q].total
                    => \A s \in Skus : refundedQty'[q][s] = 0
    <3>1. CASE q # o
      BY <2>1, <3>1 DEF DeskInv, BooksKept, Unsettled
    <3>2. CASE q = o
      <4>1. refundedAmount'[o] = refundedAmount[o] + j.amount /\ refunds'[o].pg = refunds[o].pg + j.amount
        BY <1>2, <1>4
      <4>2. refundedAmount[o] = refunds[o].pg
        BY <1>2 DEF DeskInv, BooksKept
      <4>3. \A s \in Skus : refundedQty'[o][s] =
              IF j.units[s] > 0 THEN form[o].items[s] ELSE refundedQty[o][s]
        BY <1>2, <1>5 DEF AfterInv, RowTypes
      <4>4. \A s \in Skus : refundedQty'[o][s] <= form[o].items[s]
        BY <1>3, <1>7, <4>3
      <4>5. ASSUME refundedAmount'[o] < form[o].total, NEW s \in Skus PROVE refundedQty'[o][s] = 0
        <5>1. ~j.full
          BY <1>1, <1>2, <1>3, <4>1, <4>5
        <5> QED BY <1>1, <1>7, <4>3, <5>1 DEF NoQty
      <4> HIDE DEF j
      <4> QED BY <1>1, <1>2, <3>2, <4>1, <4>2, <4>4, <4>5
    <3> QED BY <3>1, <3>2
  <2> QED BY <1>5, <2>2 DEF BooksKept
<1>13. ASSUME PointsInv PROVE PointsInv'
  <2>1. Unsettled(o)
    BY <1>2, <1>3, <1>13 DEF PointsInv
  <2>2. j.full => refundedAmount'[o] >= form[o].total
    BY <1>1, <1>2, <1>3, <1>4
  <2>3. backRows'[o].spent <= 1 /\ backRows'[o].earned <= 1
    BY <1>10, <2>1 DEF Unsettled
  <2>4. ~Unsettled(o)' => refundedAmount'[o] >= form[o].total
    BY <1>10, <2>1, <2>2 DEF Unsettled
  <2>5. ASSUME NEW q \in Orders, q # o
        PROVE  refundedAmount'[q] = refundedAmount[q] /\ backRows'[q] = backRows[q]
    BY <1>4, <1>11, <2>5
  <2> HIDE DEF j
  <2>6. ASSUME NEW q \in Orders
        PROVE  /\ backRows'[q].spent <= 1 /\ backRows'[q].earned <= 1
               /\ ~Unsettled(q)' => q \in paid /\ refundedAmount'[q] >= form[q].total
    <3>1. CASE q = o
      BY <1>1, <2>3, <2>4, <3>1 DEF Unsettled
    <3>2. CASE q # o
      BY <1>13, <2>5, <3>2 DEF PointsInv, Unsettled
    <3> QED BY <3>1, <3>2
  <2> QED BY <1>1, <1>5, <2>6 DEF PointsInv
<1>14. \A q \in Procs : pc'[q] \in BuyerSteps
  BY <1>5 DEF DeskInv
<1> QED BY <1>8, <1>9, <1>12, <1>13, <1>14 DEF DeskInv, DeskStep

(* What the clerk's commit knows: the return is still running, its units   *)
(* can come back.                                                          *)
LEMMA ReturnFacts ==
  ASSUME AfterInv, DeskInv, NEW p \in Desk, ReturnStaffCommit(p)
  PROVE  LET j == job[p]
             row == returns[j.id] IN
         /\ j.step = "return" /\ desk = {"return"} /\ p \in ReturnStaff
         /\ j.skipped = FALSE /\ j.amount >= 0
         /\ j.target \in ReturnTransitions[row.status] /\ j.target \in ReturnStatuses
         /\ j.complete => j.target = "COMPLETED"
         /\ j.full => j.complete /\ j.amount + refundedAmount[j.order] >= form[j.order].total
         /\ Take(p, Idle)
         /\ j.id \in Returns /\ j.order \in Orders /\ j.amount \in Int
         /\ j.full \in BOOLEAN /\ j.complete \in BOOLEAN
         /\ row # None /\ row.order = j.order /\ form[j.order] # None
         /\ row \in ReturnRows /\ row.status \in ActiveReturn /\ j.order \in paid
         /\ Asked(j.order, row.units) /\ Active(j.id) /\ row.units \in [Skus -> Nat]
<1> DEFINE j == job[p]
<1>0. PICK o, r, a, t : o = j.order /\ r = j.id /\ a = j.amount /\ t = j.target
  OBVIOUS
<1>1. /\ j.step = "return" /\ desk = {"return"} /\ p \in ReturnStaff /\ j.skipped = FALSE /\ a >= 0
      /\ t \in ReturnTransitions[returns[r].status]
      /\ j.complete => t = "COMPLETED"
      /\ j.full => j.complete /\ a + refundedAmount[o] >= form[o].total
      /\ Take(p, Idle)
  <2>1. j.step = "return" /\ j \in ReturnJobs
    BY JobKind DEF ReturnStaffCommit, AfterInv, JobsKnow
  <2>2. DeskKnows(p, j)
    BY DEF DeskInv
  <2> QED BY <1>0, <2>1, <2>2 DEF DeskKnows, ReturnStaffCommit, Answer, ReturnJobs
<1>2. /\ r \in Returns /\ o \in Orders /\ a \in Int /\ j.full \in BOOLEAN /\ j.complete \in BOOLEAN
      /\ returns[r] # None /\ returns[r].order = o /\ form[o] # None
  <2>1. j \in ReturnJobs /\ JobKnows(j)
    BY <1>1, JobKind DEF AfterInv, JobsKnow
  <2> QED BY <1>0, <1>1, <2>1 DEF ReturnJobs, JobKnows
<1>3. /\ returns[r] \in ReturnRows /\ returns[r].status \in ActiveReturn /\ o \in paid
      /\ Asked(o, returns[r].units) /\ Active(r) /\ returns[r].units \in [Skus -> Nat]
      /\ t \in ReturnStatuses
  <2>1. returns[r] \in ReturnRows /\ returns[r].status \in ReturnStatuses
        /\ returns[r].units \in [Skus -> Nat]
    BY <1>2 DEF AfterInv, ReturnsKnow, ReturnRows
  <2>2. returns[r].status \in ActiveReturn /\ t \in ReturnStatuses
    BY <1>1, <2>1 DEF ReturnStatuses, ReturnTransitions, ActiveReturn
  <2> QED BY <1>2, <2>1, <2>2 DEF DeskInv, ReturnsApart, Active
<1> QED BY <1>0, <1>1, <1>2, <1>3

(* The return screen: the clerk's commit moves the one running return of   *)
(* the order on; a completed one brings its units and its money back.      *)
LEMMA DeskReturn ==
  ASSUME AfterInv, DeskInv, Apart, NEW p \in Desk, ReturnStaffCommit(p)
  PROVE  DeskStep
<1> DEFINE j == job[p]
<1>0. PICK o, r, a, t : o = j.order /\ r = j.id /\ a = j.amount /\ t = j.target
  OBVIOUS
<1>1. /\ j.step = "return" /\ desk = {"return"} /\ p \in ReturnStaff /\ j.skipped = FALSE /\ a >= 0
      /\ t \in ReturnTransitions[returns[r].status]
      /\ j.complete => t = "COMPLETED"
      /\ j.full => j.complete /\ a + refundedAmount[o] >= form[o].total
      /\ Take(p, Idle)
  BY <1>0, ReturnFacts
<1>2. /\ r \in Returns /\ o \in Orders /\ a \in Int /\ j.full \in BOOLEAN /\ j.complete \in BOOLEAN
      /\ returns[r] # None /\ returns[r].order = o /\ form[o] # None
  BY <1>0, ReturnFacts
<1>3. /\ returns[r] \in ReturnRows /\ returns[r].status \in ActiveReturn /\ o \in paid
      /\ Asked(o, returns[r].units) /\ Active(r) /\ returns[r].units \in [Skus -> Nat]
      /\ t \in ReturnStatuses
  BY <1>0, ReturnFacts
<1>4. /\ \A q \in Returns : q # r => returns'[q] = returns[q]
      /\ returns'[r].order = o /\ returns'[r].units = returns[r].units /\ returns'[r].status = t
      /\ returns'[r] # None
  <2>1. returns' = [returns EXCEPT ![r] = [returns[r] EXCEPT !.status = t]]
    BY <1>0 DEF ReturnStaffCommit
  <2>2. [returns[r] EXCEPT !.status = t] \in ReturnRows
    BY <1>3 DEF ReturnRows
  <2>3. /\ [returns[r] EXCEPT !.status = t].order = o
        /\ [returns[r] EXCEPT !.status = t].units = returns[r].units
        /\ [returns[r] EXCEPT !.status = t].status = t
    BY <1>2, <1>3 DEF ReturnRows
  <2>4. returns \in [Returns -> ReturnRows \cup {None}] /\ None \notin ReturnRows
    BY AfterAssumption DEF AfterInv, ReturnsKnow
  <2>5. PICK k : k = [returns[r] EXCEPT !.status = t]
    OBVIOUS
  <2> QED BY <1>2, <2>1, <2>2, <2>3, <2>4, <2>5
<1>5. UNCHANGED <<form, paid, desk, pc>>
  BY DEF ReturnStaffCommit, procVars
<1>6. \A q \in Desk : job'[q] = IF q = p THEN Idle ELSE job[q]
  BY <1>1 DEF Take, AfterInv, JobsKnow
<1>7. \A q \in Orders : q # o => UNCHANGED <<status[q], refundedQty[q], refundedAmount[q], refunds[q].pg, backRows[q]>>
  <2>1. CASE j.complete
    <3>1. /\ refundedQty' = [refundedQty EXCEPT ![o] = [s \in Skus |-> @[s] + returns[r].units[s]]]
          /\ status' = [status EXCEPT ![o] = IF j.full THEN "REFUNDED" ELSE "PARTIALLY_REFUNDED"]
          /\ Record(o, a, FALSE) /\ (backRows' = backRows \/ PointsBack(o, TRUE))
      BY <1>0, <1>1, <2>1 DEF ReturnStaffCommit, Record, PointsBack
    <3>2. \A q \in Orders : q # o => backRows'[q] = backRows[q]
      BY <1>2, <3>1, PointsBackAdds
    <3> HIDE DEF j
    <3>3. \A q \in Orders : q # o => UNCHANGED <<refundedAmount[q], refunds[q].pg>>
      BY <1>2, <3>1, RecordAdds
    <3>4. \A q \in Orders : q # o => UNCHANGED <<status[q], refundedQty[q]>>
      BY <3>1 DEF AfterInv, RowTypes
    <3> QED BY <3>2, <3>3, <3>4
  <2>2. CASE ~j.complete
    BY <2>2 DEF ReturnStaffCommit, refundVars
  <2> QED BY <2>1, <2>2
<1>8. ~j.complete => UNCHANGED <<status, refundedQty, refundedAmount, refunds, backRows>>
  BY DEF ReturnStaffCommit, refundVars
<1>9. j.complete => /\ refundedAmount'[o] = refundedAmount[o] + a /\ refunds'[o].pg = refunds[o].pg + a
                    /\ \A s \in Skus : refundedQty'[o][s] = refundedQty[o][s] + returns[r].units[s]
                    /\ backRows'[o] = backRows[o]
                       \/ /\ j.full
                          /\ backRows'[o].spent \in {backRows[o].spent, backRows[o].spent + 1}
                          /\ backRows'[o].earned \in {backRows[o].earned, backRows[o].earned + 1}
  <2> SUFFICES ASSUME j.complete
      PROVE /\ refundedAmount'[o] = refundedAmount[o] + a /\ refunds'[o].pg = refunds[o].pg + a
            /\ \A s \in Skus : refundedQty'[o][s] = refundedQty[o][s] + returns[r].units[s]
            /\ backRows'[o] = backRows[o]
               \/ /\ j.full
                  /\ backRows'[o].spent \in {backRows[o].spent, backRows[o].spent + 1}
                  /\ backRows'[o].earned \in {backRows[o].earned, backRows[o].earned + 1}
    OBVIOUS
  <2>1. /\ refundedQty' = [refundedQty EXCEPT ![o] = [s \in Skus |-> @[s] + returns[r].units[s]]]
        /\ Record(o, a, FALSE) /\ IF j.full THEN PointsBack(o, TRUE) ELSE backRows' = backRows
    BY <1>0, <1>1 DEF ReturnStaffCommit, Record, PointsBack
  <2>2. refundedAmount'[o] = refundedAmount[o] + a /\ refunds'[o].pg = refunds[o].pg + a
    BY <1>2, <2>1, RecordAdds
  <2>3. \A s \in Skus : refundedQty'[o][s] = refundedQty[o][s] + returns[r].units[s]
    BY <1>2, <2>1 DEF AfterInv, RowTypes
  <2> HIDE DEF j
  <2>4. CASE j.full
    BY <1>2, <2>1, <2>2, <2>3, <2>4, PointsBackAdds
  <2> QED BY <2>1, <2>2, <2>3, <2>4
<1>10. \A q \in Returns : Active(q) /\ returns[q].order = o => q = r
  BY <1>2, <1>3 DEF DeskInv, ReturnsApart
<1>11. \A q \in Desk : job[q].step = "request" => job[q].row.order \in Orders /\ job[q].row.order # o
  <2> SUFFICES ASSUME NEW q \in Desk, job[q].step = "request"
               PROVE  job[q].row.order \in Orders /\ job[q].row.order # o
    OBVIOUS
  <2>1. job[q] \in RequestJobs
    BY JobKind DEF AfterInv, JobsKnow
  <2>2. NoneRunning(job[q].row.order)
    BY DEF DeskInv, DeskKnows
  <2> QED BY <1>2, <1>3, <2>1, <2>2 DEF RequestJobs, ReturnRows, NoneRunning
<1> HIDE DEF j
<1>12. ASSUME NEW q \in Desk PROVE DeskKnows(q, job[q])'
  <2>1. CASE q = p
    BY <1>6, <2>1, IdleKnows DEF DeskKnows
  <2>2. CASE q # p
    <3>1. job'[q] = job[q] /\ DeskKnows(q, job[q])
      BY <1>6, <2>2 DEF DeskInv
    <3>2. job[q].step \notin {"refundCall", "refund", "returnCall", "return", "edit"}
      BY <1>1, <2>2, <3>1 DEF DeskKnows, Apart, AfterInv
    <3>3. CASE job[q].step = "request"
      <4>1. PICK c : c = job[q].row.order
        OBVIOUS
      <4>2. c \in Orders /\ c # o /\ NoneRunning(c) /\ Asked(c, job[q].row.units) /\ c \in paid
        BY <1>11, <3>1, <3>3, <4>1 DEF DeskKnows
      <4>3. NoneRunning(c)'
        BY <1>4, <4>2 DEF NoneRunning
      <4>4. \A s \in Skus : job'[q].row.units[s] <= form'[c].items[s] - refundedQty'[c][s]
        BY <1>5, <1>7, <3>1, <4>2 DEF Asked
      <4> QED BY <1>5, <3>1, <3>3, <4>1, <4>2, <4>3, <4>4 DEF DeskKnows, NoneRunning, Asked
    <3>4. CASE job[q].step # "request"
      BY <1>5, <3>1, <3>2, <3>4 DEF DeskKnows
    <3> QED BY <3>3, <3>4
  <2> QED BY <2>1, <2>2
<1>13. \A q \in Returns : Active(q)' => /\ Active(q)
                                        /\ returns'[q].order = returns[q].order
                                        /\ returns'[q].units = returns[q].units
                                        /\ (q = r => ~j.complete)
  BY <1>1, <1>2, <1>3, <1>4 DEF Active, ActiveReturn
<1>14. ReturnsApart'
  <2>1. ASSUME NEW q \in Returns, returns'[q] # None
        PROVE  /\ desk' = {"return"} /\ returns'[q].order \in paid'
               /\ Active(q)' =>
                    \A s \in Skus : returns'[q].units[s] <=
                      form'[returns'[q].order].items[s] - refundedQty'[returns'[q].order][s]
    <3>1. returns[q] # None /\ returns'[q].order = returns[q].order
      BY <1>2, <1>4, <2>1
    <3>2. desk' = {"return"} /\ returns'[q].order \in paid'
      BY <1>1, <1>5, <3>1 DEF DeskInv, ReturnsApart
    <3>3. ASSUME Active(q)'
          PROVE  \A s \in Skus : returns'[q].units[s] <=
                      form'[returns'[q].order].items[s] - refundedQty'[returns'[q].order][s]
      <4>1. Asked(returns[q].order, returns[q].units) /\ returns[q].order \in Orders
        BY <1>13, <3>3 DEF DeskInv, ReturnsApart, AfterInv, ReturnsKnow, ReturnRows, Active
      <4>2. CASE q = r
        BY <1>5, <1>8, <1>13, <3>3, <4>1, <4>2 DEF Asked
      <4>3. CASE q # r
        <5>1. returns[q].order # o
          BY <1>10, <1>13, <3>3, <4>3
        <5> QED BY <1>5, <1>7, <1>13, <3>3, <4>1, <5>1 DEF Asked
      <4> QED BY <4>2, <4>3
    <3> QED BY <3>2, <3>3
  <2>2. ASSUME NEW q \in Returns, NEW u \in Returns, Active(q)', Active(u)',
               returns'[q].order = returns'[u].order
        PROVE  q = u
    BY <1>13, <2>2 DEF DeskInv, ReturnsApart
  <2> QED BY <2>1, <2>2 DEF ReturnsApart, Asked
<1>15. BooksKept'
  <2>1. ASSUME NEW q \in Orders
        PROVE  /\ refundedAmount'[q] = refunds'[q].pg
               /\ status'[q] \in PaidStatuses \cup {"PARTIALLY_REFUNDED", "REFUNDED"} => q \in paid
               /\ q \notin paid => Unsettled(q)' /\ \A s \in Skus : refundedQty'[q][s] = 0
               /\ q \in paid => \A s \in Skus : refundedQty'[q][s] <= form[q].items[s]
    <3>1. CASE q # o
      BY <1>7, <3>1 DEF DeskInv, BooksKept, Unsettled
    <3>2. CASE q = o /\ ~j.complete
      BY <1>3, <1>8, <3>2 DEF DeskInv, BooksKept, Unsettled
    <3>3. CASE q = o /\ j.complete
      <4>1. refundedAmount[o] = refunds[o].pg
        BY <1>2 DEF DeskInv, BooksKept
      <4>2. \A s \in Skus : refundedQty'[o][s] <= form[o].items[s]
        <5>1. form[o].items \in [Skus -> Nat] /\ refundedQty[o] \in [Skus -> Nat]
          BY <1>2, ExistingForm DEF AfterInv, RowTypes
        <5> QED BY <1>3, <1>9, <3>3, <5>1 DEF Asked
      <4> QED BY <1>3, <1>9, <3>3, <4>1, <4>2
    <3> QED BY <3>1, <3>2, <3>3
  <2> QED BY <1>1, <1>5, <2>1 DEF BooksKept
<1>16. ASSUME PointsInv PROVE PointsInv'
  <2>1. Unsettled(o)
    BY <1>1, <1>2, <1>3, <1>16 DEF PointsInv, NoneRunning
  <2>2. \A q \in Desk : job'[q].step = "request" => job[q].step = "request" /\ job'[q] = job[q]
    BY <1>6, IdleKnows
  <2>3. ASSUME NEW q \in Orders, NoneRunning(q) \/ (q = o /\ j.complete) PROVE NoneRunning(q)'
    <3>1. ASSUME NEW u \in Returns, Active(u)', returns'[u].order = q PROVE FALSE
      BY <1>10, <1>13, <2>3, <3>1 DEF NoneRunning, Active
    <3> QED BY <3>1 DEF NoneRunning, Active
  <2>4. ASSUME NEW q \in Orders
        PROVE  /\ backRows'[q].spent <= 1 /\ backRows'[q].earned <= 1
               /\ ~Unsettled(q)' =>
                    /\ q \in paid' /\ refundedAmount'[q] >= form'[q].total
                    /\ desk' = {"return"} =>
                         /\ NoneRunning(q)'
                         /\ \A u \in Desk : job'[u].step = "request" => job'[u].row.order # q
    <3>1. CASE q # o
      <4>1. UNCHANGED <<form, paid, refundedAmount[q], backRows[q]>>
        BY <1>5, <1>7, <3>1
      <4>2. ASSUME ~Unsettled(q), NEW u \in Desk, job'[u].step = "request" PROVE job'[u].row.order # q
        BY <1>1, <1>16, <2>2, <4>2 DEF PointsInv
      <4>3. ASSUME ~Unsettled(q)
            PROVE  q \in paid /\ refundedAmount[q] >= form[q].total /\ NoneRunning(q)'
        <5>1. q \in paid /\ refundedAmount[q] >= form[q].total /\ NoneRunning(q)
          BY <1>1, <1>16, <4>3 DEF PointsInv
        <5> QED BY <2>3, <5>1
      <4>4. Unsettled(q)' = Unsettled(q) /\ backRows'[q].spent <= 1 /\ backRows'[q].earned <= 1
        BY <1>16, <4>1 DEF PointsInv, Unsettled
      <4> QED BY <4>1, <4>2, <4>3, <4>4
    <3>2. CASE q = o
      <4>1. backRows'[o].spent <= 1 /\ backRows'[o].earned <= 1
        BY <1>8, <1>9, <2>1 DEF Unsettled
      <4>2. ~Unsettled(o)' => j.full /\ j.complete
        BY <1>1, <1>8, <1>9, <2>1 DEF Unsettled
      <4>3. refundedAmount[o] \in Int /\ form[o].total \in Nat
        BY <1>2, ExistingForm DEF AfterInv, RowTypes
      <4>4. j.full => refundedAmount'[o] >= form[o].total
        BY <1>1, <1>2, <1>9, <4>3
      <4> QED BY <1>2, <1>3, <1>5, <1>11, <2>2, <2>3, <3>2, <4>1, <4>2, <4>4
    <3> QED BY <3>1, <3>2
  <2> QED BY <2>4 DEF PointsInv
<1>17. \A q \in Procs : pc'[q] \in BuyerSteps
  BY <1>5 DEF DeskInv
<1> QED BY <1>12, <1>14, <1>15, <1>16, <1>17 DEF DeskInv, DeskStep

-----------------------------------------------------------------------------
(* Meanwhile the customers of such a shop buy: none of them can cancel a   *)
(* paid order, and no notification of the provider arrives.                *)
LEMMA BuyersBuy ==
  ASSUME AfterInv, DeskInv, OneDesk, CheckoutStep
  PROVE  \A q \in Procs : pc'[q] \in BuyerSteps
<1>0. /\ pc \in [Procs -> {"idle", "create"} \cup OrderSteps]
      /\ \A q \in Procs : pc[q] \in BuyerSteps
      /\ HookProcs = {} /\ \A q \in CancelProcs : pc'[q] # "userCancel"
  BY DEF AfterInv, ProcKnows, ProcTypes, DeskInv, OneDesk, CheckoutStep
<1>1. ASSUME NEW p \in Procs, NEW l \in BuyerSteps, pc' = [pc EXCEPT ![p] = l]
      PROVE  \A q \in Procs : pc'[q] \in BuyerSteps
  BY <1>0, <1>1
<1>2. "idle" \in BuyerSteps
  BY DEF BuyerSteps
<1>3. ASSUME NEW p \in Procs, Done(p) PROVE \A q \in Procs : pc'[q] \in BuyerSteps
  BY <1>1, <1>2, <1>3 DEF Done
<1>4. ASSUME NEW p \in CreateProcs, Create(p) PROVE \A q \in Procs : pc'[q] \in BuyerSteps
  <2>1. ASSUME NEW f \in Forms, CreateRead(p, f) PROVE \A q \in Procs : pc'[q] \in BuyerSteps
    BY <1>1, <2>1 DEF CreateRead, BuyerSteps, Procs
  <2> QED BY <1>3, <1>4, <2>1 DEF Create, CreateCommit, CreateRefused, Procs
<1>5. ASSUME NEW p \in ReturnProcs, Return(p) PROVE \A q \in Procs : pc'[q] \in BuyerSteps
  <2>0. p \in Procs
    BY DEF Procs
  <2>1. ASSUME NEW o \in Orders, ReturnRead(p, o) \/ ReturnClosed(p, o)
        PROVE  \A q \in Procs : pc'[q] \in BuyerSteps
    BY <1>0, <1>1, <2>0, <2>1 DEF ReturnRead, ReturnClosed, Start, BuyerSteps, procVars
  <2>2. CASE ReturnApproved(p) \/ ReturnMismatch(p) \/ ReturnRefused(p) \/ ReturnLost(p)
    BY <1>1, <1>3, <2>0, <2>2 DEF ReturnApproved, ReturnMismatch, ReturnRefused, ReturnLost, Goto, BuyerSteps
  <2>3. CASE ReturnFinalizeRead(p) \/ ReturnFinalizeFails(p) \/ ReturnCancelPayment(p)
    BY <1>1, <1>3, <2>0, <2>3 DEF ReturnFinalizeRead, ReturnFinalizeFails, ReturnCancelPayment, Goto, BuyerSteps
  <2>4. CASE ReturnFinalizeCommit(p) \/ ReturnCancelOrder(p)
    BY <1>3, <2>0, <2>4 DEF ReturnFinalizeCommit, ReturnCancelOrder
  <2> QED BY <1>5, <2>1, <2>2, <2>3, <2>4 DEF Return
<1>6. ASSUME NEW p \in CancelProcs, UserCancel(p) PROVE FALSE
  <2>1. p \in Procs /\ pc[p] # "userCancel" /\ pc'[p] # "userCancel"
    BY <1>0 DEF BuyerSteps, Procs
  <2> QED BY <1>0, <1>6, <2>1 DEF UserCancel, UserCancelRead, UserCancelCommit, Start
<1>7. ASSUME NEW p \in CancelProcs, Restore(p) PROVE FALSE
  BY <1>0, <1>7 DEF Restore, RestoreRead, RestoreCommit, BuyerSteps, Procs
<1>8. ASSUME NEW p \in Procs, Crash(p) PROVE \A q \in Procs : pc'[q] \in BuyerSteps
  BY <1>3, <1>8 DEF Crash
<1>9. ASSUME NEW o \in Orders,
             HookClose(o) \/ UserCancelPending(o) \/ Expire(o) \/ CronExpire(o) \/ ConsoleCancel(o)
      PROVE  \A q \in Procs : pc'[q] \in BuyerSteps
  BY <1>0, <1>9 DEF HookClose, UserCancelPending, Expire, CronExpire, ConsoleCancel, procVars
<1>10. Next
  BY DEF CheckoutStep
<1> QED BY <1>0, <1>4, <1>5, <1>6, <1>7, <1>8, <1>9, <1>10 DEF Next

(* An order is created, closed while it is unpaid, or paid.                *)
BuyerRows == \/ UNCHANGED <<status, form, paid, stock>>
             \/ \E o \in Orders, f \in Forms : InsertOrder(o, f)
             \/ \E o \in Orders : status[o] = "PENDING" /\ CancelPendingOrder(o)
             \/ \E p \in Procs : pc[p] = "commit" /\ FinalizePayment(at[p])

LEMMA BuyersRows ==
  ASSUME AfterInv, DeskInv, OneDesk, CheckoutStep
  PROVE  BuyerRows /\ UNCHANGED <<refundedQty, refundedAmount>>
<1>1. RowMoves
  BY RowShape DEF AfterInv, CheckoutFacts, CheckoutStep
<1>2. \A p \in Procs : pc[p] \notin {"hookCommit", "restore", "userCancel"}
  BY DEF DeskInv, BuyerSteps
<1>3. HookProcs = {}
  BY DEF OneDesk
<1>4. CASE UNCHANGED storeVars \/ Ages
  BY <1>4 DEF BuyerRows, Ages, Expire, storeVars, orderVars, refundVars
<1>5. CASE Inserts
  BY <1>5 DEF BuyerRows, Inserts, InsertOrder, refundVars
<1>6. CASE Ends
  BY <1>6 DEF BuyerRows, Ends, CancelPendingOrder, refundVars
<1>7. CASE Pays
  BY <1>2, <1>7 DEF Pays, BuyerRows, FinalizePayment, refundVars
<1>8. ~Notes /\ ~Cancels /\ ~GivesBack
  BY <1>2, <1>3 DEF Notes, Cancels, UserCancelCommit, GivesBack, Procs
<1> QED BY <1>1, <1>4, <1>5, <1>6, <1>7, <1>8 DEF RowMoves

LEMMA DeskCheckout ==
  ASSUME AfterInv, DeskInv, OneDesk, CheckoutStep
  PROVE  DeskStep
<1>1. RowsLast
  BY CheckoutRowTypes DEF AfterInv, CheckoutFacts, CheckoutStep
<1>2. UNCHANGED <<desk, job, returns, refunds, backRows, refundedQty, refundedAmount>>
  BY BuyersRows DEF CheckoutStep
<1>3. /\ paid \subseteq paid'
      /\ \A o \in Orders : \/ status'[o] = status[o]
                           \/ status'[o] \in {"PENDING", "CANCELLED"}
                           \/ o \in paid'
  <2>1. CASE UNCHANGED <<status, form, paid, stock>>
    BY <2>1
  <2>2. CASE \E o \in Orders, f \in Forms : InsertOrder(o, f)
    BY <2>2 DEF InsertOrder, AfterInv, RowTypes
  <2>3. CASE \E o \in Orders : status[o] = "PENDING" /\ CancelPendingOrder(o)
    BY <2>3 DEF CancelPendingOrder, AfterInv, RowTypes
  <2>4. CASE \E p \in Procs : pc[p] = "commit" /\ FinalizePayment(at[p])
    BY <2>4 DEF FinalizePayment, AfterInv, RowTypes
  <2> QED BY <2>1, <2>2, <2>3, <2>4, BuyersRows DEF BuyerRows
<1>4. \A o \in Orders : o \in paid => form'[o] = form[o] /\ form[o] # None
  BY <1>1 DEF RowsLast, AfterInv, RowTypes
<1>5. ASSUME NEW q \in Desk PROVE DeskKnows(q, job[q])'
  <2>1. job[q] \in Jobs /\ DeskKnows(q, job[q]) /\ JobKnows(job[q]) /\ job'[q] = job[q]
    BY <1>2 DEF DeskInv, AfterInv, JobsKnow
  <2>2. CASE job[q].step = "idle"
    BY <2>1, <2>2 DEF DeskKnows
  <2>3. CASE job[q].step = "patch"
    BY <1>3, <2>1, <2>3 DEF DeskKnows
  <2>4. CASE job[q].step \in {"refundCall", "refund"}
    <3>1. job[q].order \in Orders /\ job[q].order \in paid
      BY <2>1, <2>4, JobKind DEF DeskKnows, RefundJobs
    <3> QED BY <1>2, <1>3, <1>4, <2>1, <2>4, <3>1 DEF DeskKnows
  <2>5. CASE job[q].step \in {"returnCall", "return"}
    <3>1. form'[job[q].order] = form[job[q].order]
      BY <1>1, <2>1, <2>5, JobKind DEF JobKnows, ReturnJobs, RowsLast
    <3> QED BY <1>2, <2>1, <2>5, <3>1 DEF DeskKnows
  <2>6. CASE job[q].step = "request"
    <3>1. job[q].row.order \in paid /\ job[q].row.order \in Orders
      BY <2>1, <2>6 DEF DeskKnows, AfterInv, RowTypes
    <3> QED BY <1>2, <1>3, <1>4, <2>1, <2>6, <3>1 DEF DeskKnows, Asked, NoneRunning
  <2> QED BY <2>1, <2>2, <2>3, <2>4, <2>5, <2>6, JobKind DEF DeskKnows
<1>6. ReturnsApart'
  <2>1. \A r \in Returns : returns[r] # None => /\ returns[r].order \in paid
                                               /\ form'[returns[r].order] = form[returns[r].order]
    BY <1>4 DEF DeskInv, ReturnsApart, AfterInv, RowTypes
  <2> QED BY <1>2, <1>3, <2>1 DEF DeskInv, ReturnsApart, Asked, Active
<1>7. BooksKept'
  <2>1. ASSUME NEW o \in Orders
        PROVE  /\ refundedAmount'[o] = refunds'[o].pg
               /\ status'[o] \in PaidStatuses \cup {"PARTIALLY_REFUNDED", "REFUNDED"} => o \in paid'
               /\ o \notin paid' => Unsettled(o)' /\ \A s \in Skus : refundedQty'[o][s] = 0
               /\ o \in paid' => \A s \in Skus : refundedQty'[o][s] <= form'[o].items[s]
               /\ desk' = {"refund"} /\ o \in paid' /\ refundedAmount'[o] < form'[o].total
                    => \A s \in Skus : refundedQty'[o][s] = 0
    <3>1. status'[o] \in PaidStatuses \cup {"PARTIALLY_REFUNDED", "REFUNDED"} => o \in paid'
      BY <1>3 DEF DeskInv, BooksKept, PaidStatuses
    <3>2. CASE o \in paid
      BY <1>2, <1>3, <1>4, <3>1, <3>2 DEF DeskInv, BooksKept
    <3>3. CASE o \notin paid
      <4>1. (\A s \in Skus : refundedQty'[o][s] = 0) /\ Unsettled(o)'
        BY <1>2, <3>3 DEF DeskInv, BooksKept, Unsettled
      <4>2. o \in paid' => \A s \in Skus : refundedQty'[o][s] <= form'[o].items[s]
        <5> SUFFICES ASSUME o \in paid' PROVE \A s \in Skus : refundedQty'[o][s] <= form'[o].items[s]
          OBVIOUS
        <5>1. RowTypes'
          BY CheckoutRowTypes DEF AfterInv, CheckoutFacts, CheckoutStep
        <5>2. form'[o] \in Forms
          BY <5>1 DEF RowTypes
        <5>3. form'[o].items \in [Skus -> Nat]
          BY <5>2, FormFacts
        <5> QED BY <4>1, <5>3
      <4> QED BY <1>2, <3>1, <4>1, <4>2 DEF DeskInv, BooksKept
    <3> QED BY <3>2, <3>3
  <2> QED BY <2>1 DEF BooksKept
<1>8. ASSUME PointsInv PROVE PointsInv'
  <2>1. \A o \in Orders : ~Unsettled(o) => o \in paid' /\ form'[o] = form[o]
    BY <1>3, <1>4, <1>8 DEF PointsInv
  <2> QED BY <1>2, <1>8, <2>1 DEF PointsInv, Unsettled, NoneRunning
<1> QED BY <1>5, <1>6, <1>7, <1>8, BuyersBuy DEF DeskInv, DeskStep

LEMMA DeskNext ==
  ASSUME AfterInv, DeskInv, Backed, OneDesk, Apart, IsFiniteSet(Desk), [AfterNext]_allVars
  PROVE  DeskStep
<1>1. CASE CheckoutStep
  BY <1>1, DeskCheckout
<1>2. ASSUME NEW p \in Admins, Staff(p) PROVE DeskStep
  <2>0. p \in Desk
    BY DEF Desk
  <2>1. CASE \E o \in Orders : (\E t \in Statuses : PatchRead(p, o, t)) \/ BulkShipRead(p, o)
    BY <2>0, <2>1, DeskPatchRead DEF Statuses
  <2>2. CASE \E o \in Orders : /\ form[o] # None
                               /\ \E opt \in RefundOptions, a \in 1..form[o].total : RefundRead(p, o, a, opt)
    BY <2>0, <2>2, DeskRefundRead
  <2>3. CASE \E r \in Returns, t \in {"APPROVED", "PICKED_UP", "COMPLETED", "REJECTED"} :
               \E skip \in BOOLEAN : ReturnStaffRead(p, r, t, skip)
    BY <2>0, <2>3, DeskReturnRead
  <2>4. ~EditCommit(p) /\ \A s \in Skus : ~EditRead(p, s)
    BY <2>0 DEF EditCommit, EditRead, OneDesk, DeskInv, DeskKnows
  <2>5. CASE CallSucceeds(p) \/ CallFails(p) \/ Cut(p)
    BY <2>0, <2>5, DeskCalls
  <2>6. CASE PatchCommit(p)
    BY <2>0, <2>6, DeskPatch
  <2>7. CASE RefundCommit(p)
    BY <2>0, <2>7, DeskRefund
  <2>8. CASE ReturnStaffCommit(p)
    BY <2>0, <2>8, DeskReturn
  <2> QED BY <1>2, <2>1, <2>2, <2>3, <2>4, <2>5, <2>6, <2>7, <2>8 DEF Staff
<1>3. ASSUME NEW p \in Customers, Customer(p) PROVE DeskStep
  <2>0. p \in Desk /\ p \in Customers
    BY DEF Desk
  <2>1. CASE \E o \in Orders, t \in {"RETURN", "EXCHANGE"}, units \in [Skus -> 0..MaxUnits] :
               RequestRead(p, o, units, t)
    BY <2>0, <2>1, DeskRequestRead
  <2>2. CASE Cut(p)
    BY <2>0, <2>2, DeskCalls
  <2>3. CASE RequestCommit(p)
    BY <2>0, <2>3, DeskRequest
  <2> QED BY <1>3, <2>1, <2>2, <2>3 DEF Customer
<1>4. CASE UNCHANGED allVars
  <2>1. DeskInv'
    BY <1>4 DEF allVars, afterVars, vars, storeVars, orderVars, refundVars, procVars, DeskInv, DeskKnows,
       Asked, NoneRunning, ReturnsApart, Active, BooksKept, Unsettled
  <2>2. PointsInv => PointsInv'
    BY <1>4 DEF allVars, afterVars, vars, storeVars, orderVars, refundVars, PointsInv, Unsettled, NoneRunning
  <2> QED BY <2>1, <2>2 DEF DeskStep
<1> QED BY <1>1, <1>2, <1>3, <1>4 DEF AfterNext

LEMMA DeskStart ==
  ASSUME AfterInit
  PROVE  DeskInv /\ PointsInv
<1> USE DEF AfterInit, Init, StoreInit
<1>1. \A p \in Procs : pc[p] \in BuyerSteps
  BY DEF BuyerSteps
<1>2. \A p \in Desk : DeskKnows(p, job[p])
  BY IdleKnows DEF Desk
<1>3. ReturnsApart
  BY DEF ReturnsApart, Active
<1>4. BooksKept
  BY DEF BooksKept, Unsettled, PaidStatuses
<1>5. PointsInv
  <2>1. \A o \in Orders : backRows[o].spent = 0 /\ backRows[o].earned = 0
    OBVIOUS
  <2> HIDE DEF AfterInit, Init, StoreInit
  <2>2. ASSUME NEW o \in Orders PROVE Unsettled(o) /\ backRows[o].spent <= 1 /\ backRows[o].earned <= 1
    <3>1. backRows[o].spent = 0 /\ backRows[o].earned = 0
      BY <2>1
    <3>2. backRows[o].spent <= 1 /\ backRows[o].earned <= 1
      BY <3>1
    <3> QED BY <3>1, <3>2 DEF Unsettled
  <2> QED BY <2>2 DEF PointsInv
<1> QED BY <1>1, <1>2, <1>3, <1>4, <1>5 DEF DeskInv

LEMMA DeskAlways ==
  ASSUME IsFiniteSet(Skus), IsFiniteSet(Desk), Apart
  PROVE  AfterSpec => [](OneDesk => DeskInv)
<1>1. AfterInit => (OneDesk => DeskInv)
  BY DeskStart
<1>2. AfterInv /\ Backed /\ (OneDesk => DeskInv) /\ [AfterNext]_allVars => (OneDesk => DeskInv)'
  BY DeskNext, DeskFixed DEF OneDesk, DeskStep
<1> QED BY <1>1, <1>2, AfterAlways, BackedAlways, PTL DEF AfterSpec

(* The points of an order come back once, and only after all of its money  *)
(* has gone back: for every number of refunds that are decided, retried    *)
(* and cut off on the same reading of refundedAmount                       *)
(* (admin/refunds/route.ts line 59).  Where goods come back on the return  *)
(* screen, one clerk works on it, and no status change decided before a    *)
(* settlement opens the order again after it.                              *)
THEOREM PointsComeBackOnce ==
  ASSUME IsFiniteSet(Skus), IsFiniteSet(Admins \cup Customers), Apart
  PROVE  AfterSpec /\ [](OneDesk => NotReopened) => []PointsBackOnce
<1>0. IsFiniteSet(Desk)
  BY DEF Desk
<1>1. AfterInit => (OneDesk => PointsInv)
  BY DeskStart
<1>2. AfterInv /\ Backed /\ (OneDesk => NotReopened) /\ (OneDesk => DeskInv) /\ (OneDesk => PointsInv)
        /\ [AfterNext]_allVars => (OneDesk => PointsInv)'
  BY <1>0, DeskNext, DeskFixed DEF OneDesk, DeskStep
<1>3. AfterInv /\ Backed /\ (OneDesk => DeskInv) /\ (OneDesk => PointsInv) => PointsBackOnce
  <2> SUFFICES ASSUME AfterInv, Backed, DeskInv, PointsInv, NEW o \in Orders
               PROVE  /\ backRows[o].spent <= 1 /\ backRows[o].earned <= 1
                      /\ backRows[o].earned = 1 => returned[o] = form[o].total
    BY DEF PointsBackOnce
  <2>1. backRows[o].spent <= 1 /\ backRows[o].earned <= 1
    BY DEF PointsInv
  <2> SUFFICES ASSUME backRows[o].earned = 1 PROVE returned[o] = form[o].total
    BY <2>1
  <2>2. o \in paid /\ refundedAmount[o] >= form[o].total
    BY DEF PointsInv, Unsettled
  <2>3. refundedAmount[o] = refunds[o].pg /\ form[o] # None
    BY <2>2 DEF DeskInv, BooksKept, AfterInv, RowTypes
  <2>4. refunds[o].pg + Flying(o) <= returned[o] /\ Flying(o) \in Nat
    BY <1>0, FlyingNat DEF Backed, AfterInv
  <2>5. /\ returned[o] <= form[o].total /\ returned[o] \in Nat /\ form[o].total \in Nat
        /\ refundedAmount[o] \in Int
    BY <2>3, ExistingForm DEF AfterInv, RowTypes, MoneyTypes
  <2> QED BY <2>2, <2>3, <2>4, <2>5
<1> QED BY <1>0, <1>1, <1>2, <1>3, AfterAlways, BackedAlways, DeskAlways, PTL DEF AfterSpec

-----------------------------------------------------------------------------
(* The units.  No two requests settle the payment of one order at the same *)
(* time (the second settlement is counted by DoubleFinalize of Checkout).  *)
PaidOnce ==
  \A p, q \in Procs : pc[p] = "commit" /\ pc[q] = "commit" /\ at[p] = at[q] => p = q

SettledOnce == /\ \A o \in Orders : status[o] = "PENDING" => o \notin paid
               /\ \A p \in Procs : pc[p] = "commit" => at[p] \notin paid

UnitsOut(s) == SumFunctionOnSet([o \in paid |-> form[o].items[s] - refundedQty[o][s]], paid)

UnitsInv == SettledOnce /\ \A s \in Skus : UnitsOut(s) = InitialStock[s] - stock[s]

(* The units that are out, after a step that does not touch them, ...      *)
LEMMA UnitsStay ==
  ASSUME AfterInv, RowsLast, UNCHANGED <<paid, stock, refundedQty>>,
         \A s \in Skus : UnitsOut(s) = InitialStock[s] - stock[s]
  PROVE  \A s \in Skus : UnitsOut(s)' = InitialStock[s] - stock'[s]
<1> SUFFICES ASSUME NEW s \in Skus PROVE UnitsOut(s)' = UnitsOut(s)
  OBVIOUS
<1>1. \A o \in paid : form'[o] = form[o]
  BY DEF AfterInv, RowTypes, RowsLast
<1>2. [o \in paid' |-> form'[o].items[s] - refundedQty'[o][s]] =
        [o \in paid |-> form[o].items[s] - refundedQty[o][s]]
  BY <1>1
<1> QED BY <1>2 DEF UnitsOut

(* ... after one that brings units of one paid order back, ...             *)
LEMMA UnitsReturn ==
  ASSUME AfterInv, AfterInv', RowsLast, IsFiniteSet(Orders), paid' = paid, NEW c \in paid,
         \A o \in Orders : o # c => refundedQty'[o] = refundedQty[o],
         \A s \in Skus : refundedQty'[c][s] - refundedQty[c][s] = stock'[s] - stock[s],
         \A s \in Skus : UnitsOut(s) = InitialStock[s] - stock[s]
  PROVE  \A s \in Skus : UnitsOut(s)' = InitialStock[s] - stock'[s]
<1> SUFFICES ASSUME NEW s \in Skus PROVE UnitsOut(s)' = InitialStock[s] - stock'[s]
  OBVIOUS
<1>1. \A o \in paid : /\ o \in Orders /\ form'[o] = form[o] /\ form[o].items[s] \in Nat
                      /\ refundedQty[o][s] \in Nat /\ refundedQty'[o][s] \in Nat
  <2> SUFFICES ASSUME NEW o \in paid
               PROVE  /\ o \in Orders /\ form'[o] = form[o] /\ form[o].items[s] \in Nat
                      /\ refundedQty[o][s] \in Nat /\ refundedQty'[o][s] \in Nat
    OBVIOUS
  <2>1. o \in Orders /\ status[o] # "NONE" /\ RowTypes /\ RowTypes'
    BY DEF AfterInv, RowTypes
  <2>2. form[o].items \in [Skus -> Nat] /\ form[o] # None
    BY <2>1, ExistingForm
  <2> QED BY <2>1, <2>2 DEF RowTypes, RowsLast
<1>2. PICK F, H : /\ F = [o \in paid |-> form[o].items[s] - refundedQty[o][s]]
                  /\ H = [o \in paid' |-> form'[o].items[s] - refundedQty'[o][s]]
  OBVIOUS
<1>3. PICK S : S = paid
  OBVIOUS
<1>4. /\ \A o \in S : F[o] \in Int /\ H[o] \in Int
      /\ \A o \in S \ {c} : F[o] = H[o]
  BY <1>1, <1>2, <1>3
<1>5. IsFiniteSet(S) /\ c \in S
  BY <1>3, FS_Subset DEF AfterInv, RowTypes
<1>6. SumFunctionOnSet(H, S) = SumFunctionOnSet(F, S) - F[c] + H[c] /\ SumFunctionOnSet(F, S) \in Int
  BY <1>4, <1>5, SumChange, SumInt
<1>7. UnitsOut(s) = SumFunctionOnSet(F, S) /\ UnitsOut(s)' = SumFunctionOnSet(H, S)
  BY <1>2, <1>3 DEF UnitsOut
<1>8. H[c] = F[c] - (stock'[s] - stock[s]) /\ F[c] \in Int
  <2>1. F[c] = form[c].items[s] - refundedQty[c][s] /\ H[c] = form[c].items[s] - refundedQty'[c][s]
    BY <1>1, <1>2
  <2>2. /\ form[c].items[s] \in Nat /\ refundedQty[c][s] \in Nat /\ refundedQty'[c][s] \in Nat
        /\ stock[s] \in Nat /\ stock'[s] \in Nat
        /\ refundedQty'[c][s] - refundedQty[c][s] = stock'[s] - stock[s]
    BY <1>1 DEF AfterInv, RowTypes
  <2> QED BY <2>1, <2>2
<1>9. stock[s] \in Nat /\ stock'[s] \in Nat /\ InitialStock[s] \in Nat
  BY StoreAssumption DEF AfterInv, RowTypes
<1>10. SumFunctionOnSet(F, S) = InitialStock[s] - stock[s]
  BY <1>7
<1>11. SumFunctionOnSet(H, S) = InitialStock[s] - stock'[s]
  BY <1>6, <1>8, <1>9, <1>10
<1> QED BY <1>7, <1>11

(* ... and after one that takes the units of an order for its payment.     *)
LEMMA UnitsTaken ==
  ASSUME AfterInv, AfterInv', RowsLast, IsFiniteSet(Orders), NEW c \in Orders, c \notin paid,
         form[c] # None, paid' = paid \cup {c}, refundedQty' = refundedQty,
         \A s \in Skus : refundedQty[c][s] = 0,
         \A s \in Skus : stock'[s] = stock[s] - form[c].items[s],
         \A s \in Skus : UnitsOut(s) = InitialStock[s] - stock[s]
  PROVE  \A s \in Skus : UnitsOut(s)' = InitialStock[s] - stock'[s]
<1> SUFFICES ASSUME NEW s \in Skus PROVE UnitsOut(s)' = InitialStock[s] - stock'[s]
  OBVIOUS
<1>1. \A o \in paid \cup {c} : /\ o \in Orders /\ form'[o] = form[o] /\ form[o].items[s] \in Nat
                              /\ refundedQty[o][s] \in Nat
  <2> SUFFICES ASSUME NEW o \in paid \cup {c}
               PROVE  /\ o \in Orders /\ form'[o] = form[o] /\ form[o].items[s] \in Nat
                      /\ refundedQty[o][s] \in Nat
    OBVIOUS
  <2>1. o \in Orders /\ (status[o] # "NONE" \/ form[o] # None) /\ RowTypes
    BY DEF AfterInv, RowTypes
  <2>2. form[o].items \in [Skus -> Nat] /\ form[o] # None
    BY <2>1, ExistingForm
  <2> QED BY <2>1, <2>2 DEF RowTypes, RowsLast
<1>2. PICK F, H : /\ F = [o \in paid |-> form[o].items[s] - refundedQty[o][s]]
                  /\ H = [o \in paid' |-> form'[o].items[s] - refundedQty'[o][s]]
  OBVIOUS
<1>3. PICK S : S = paid
  OBVIOUS
<1>4. /\ \A o \in S \cup {c} : H[o] \in Int
      /\ \A o \in S : F[o] = H[o] /\ F[o] \in Int
      /\ H[c] = form[c].items[s]
  BY <1>1, <1>2, <1>3
<1>5. IsFiniteSet(S) /\ c \notin S
  BY <1>3, FS_Subset DEF AfterInv, RowTypes
<1>6. /\ SumFunctionOnSet(H, S \cup {c}) = H[c] + SumFunctionOnSet(H, S)
      /\ SumFunctionOnSet(F, S) = SumFunctionOnSet(H, S)
      /\ SumFunctionOnSet(F, S) \in Int
  <2>1. SumFunctionOnSet(H, S \cup {c}) = H[c] + SumFunctionOnSet(H, S)
    BY <1>4, <1>5, SumAdd
  <2> QED BY <1>4, <1>5, <2>1, SumSame, SumInt
<1>7. UnitsOut(s) = SumFunctionOnSet(F, S) /\ UnitsOut(s)' = SumFunctionOnSet(H, S \cup {c})
  BY <1>2, <1>3 DEF UnitsOut
<1>8. /\ stock[s] \in Nat /\ stock'[s] = stock[s] - form[c].items[s] /\ InitialStock[s] \in Nat
      /\ form[c].items[s] \in Nat
  BY <1>1, StoreAssumption DEF AfterInv, RowTypes
<1>9. SumFunctionOnSet(F, S) = InitialStock[s] - stock[s]
  BY <1>7
<1>10. SumFunctionOnSet(H, S \cup {c}) = InitialStock[s] - stock'[s]
  BY <1>4, <1>6, <1>8, <1>9
<1> QED BY <1>7, <1>10

(* A request begins to settle an order that it sees PENDING.               *)
LEMMA CommitShape ==
  ASSUME CheckoutFacts, Next, NEW q \in Procs, pc'[q] = "commit"
  PROVE  /\ at'[q] = at[q]
         /\ \/ pc[q] = "commit"
            \/ /\ q \in ReturnProcs /\ at[q] \in Orders
               /\ status[at[q]] = "PENDING" /\ UNCHANGED storeVars
<1> DEFINE Goal == /\ at'[q] = at[q]
                   /\ \/ pc[q] = "commit"
                      \/ /\ q \in ReturnProcs /\ at[q] \in Orders
                         /\ status[at[q]] = "PENDING" /\ UNCHANGED storeVars
<1>0. /\ pc \in [Procs -> {"idle", "create"} \cup OrderSteps] /\ at \in [Procs -> Orders \cup {None}]
      /\ \A p \in Procs : pc[p] \in OrderSteps => at[p] \in Orders
  BY DEF CheckoutFacts, ProcKnows, ProcTypes
<1>1. ASSUME NEW p \in Procs, NEW l, l # "commit", pc' = [pc EXCEPT ![p] = l],
             \A r \in Procs \ {p} : at'[r] = at[r]
      PROVE  Goal
  BY <1>0, <1>1
<1>2. ASSUME UNCHANGED <<pc, at>> PROVE Goal
  BY <1>2
<1> HIDE DEF Goal
<1>3. ASSUME NEW p \in Procs, Done(p) PROVE Goal
  <2>1. \A r \in Procs \ {p} : at'[r] = at[r]
    BY <1>0, <1>3 DEF Done
  <2> QED BY <1>1, <1>3, <2>1 DEF Done
<1>4. ASSUME NEW p \in Procs, NEW o, NEW l, l # "commit", Start(p, o, l) PROVE Goal
  <2>1. \A r \in Procs \ {p} : at'[r] = at[r]
    BY <1>0, <1>4 DEF Start
  <2> QED BY <1>1, <1>4, <2>1 DEF Start
<1>5. ASSUME NEW p \in Procs, NEW l, l # "commit", Goto(p, l) PROVE Goal
  BY <1>1, <1>5 DEF Goto
<1>6. ASSUME NEW p \in Procs, Create(p) PROVE Goal
  <2>1. CASE \E f \in Forms : CreateRead(p, f)
    BY <1>1, <2>1 DEF CreateRead
  <2> QED BY <1>3, <1>6, <2>1 DEF Create, CreateCommit, CreateRefused
<1>7. ASSUME NEW p \in ReturnProcs, Return(p) PROVE Goal
  <2>0. p \in Procs
    BY DEF Procs
  <2>1. CASE \E o \in Orders : ReturnRead(p, o) \/ ReturnClosed(p, o)
    BY <1>2, <1>4, <2>1, <2>0 DEF ReturnRead, ReturnClosed, procVars
  <2>2. CASE ReturnApproved(p) \/ ReturnMismatch(p) \/ ReturnRefused(p) \/ ReturnLost(p)
    BY <1>3, <1>5, <2>2, <2>0 DEF ReturnApproved, ReturnMismatch, ReturnRefused, ReturnLost
  <2>3. CASE ReturnFinalizeFails(p) \/ ReturnCancelPayment(p)
    BY <1>3, <1>5, <2>3, <2>0 DEF ReturnFinalizeFails, ReturnCancelPayment
  <2>4. CASE ReturnFinalizeCommit(p) \/ ReturnCancelOrder(p)
    BY <1>3, <2>4, <2>0 DEF ReturnFinalizeCommit, ReturnCancelOrder
  <2>5. CASE ReturnFinalizeRead(p)
    <3>1. CASE status[at[p]] = "PENDING"
      <4>1. at[p] \in Orders /\ pc' = [pc EXCEPT ![p] = "commit"] /\ at' = at /\ UNCHANGED storeVars
        BY <1>0, <2>5, <3>1, <2>0 DEF ReturnFinalizeRead, Goto, OrderSteps
      <4>2. q = p \/ pc[q] = "commit"
        BY <1>0, <4>1
      <4> QED BY <3>1, <4>1, <4>2 DEF Goal
    <3>2. CASE status[at[p]] # "PENDING"
      BY <1>3, <2>5, <3>2, <2>0 DEF ReturnFinalizeRead
    <3> QED BY <3>1, <3>2
  <2> QED BY <1>7, <2>1, <2>2, <2>3, <2>4, <2>5 DEF Return
<1>8. ASSUME NEW p \in Procs, Hook(p) PROVE Goal
  <2>1. CASE \E o \in Orders : HookDone(p, o) \/ HookPartial(p, o)
    BY <1>4, <2>1 DEF HookDone, HookPartial
  <2>2. ASSUME NEW o \in Orders, HookCancelled(p, o) PROVE Goal
    <3>1. CASE o \in paid
      BY <1>4, <2>2, <3>1 DEF HookCancelled
    <3>2. CASE o \notin paid
      BY <1>4, <2>2, <3>2 DEF HookCancelled
    <3> QED BY <3>1, <3>2
  <2>3. CASE HookFinalize(p) \/ HookUpdate(p) \/ HookPartialUpdate(p)
    BY <1>3, <1>5, <2>3 DEF HookFinalize, HookUpdate, HookPartialUpdate
  <2> QED BY <1>8, <2>1, <2>2, <2>3 DEF Hook
<1>9. ASSUME NEW p \in Procs, UserCancel(p) PROVE Goal
  BY <1>4, <1>5, <1>9 DEF UserCancel, UserCancelRead, UserCancelCommit
<1>10. ASSUME NEW p \in Procs, Restore(p) PROVE Goal
  <2>1. CASE RestoreRead(p)
    BY <1>1, <2>1 DEF RestoreRead
  <2> QED BY <1>3, <1>10, <2>1 DEF Restore, RestoreCommit
<1>11. ASSUME NEW p \in Procs, Crash(p) PROVE Goal
  BY <1>3, <1>11 DEF Crash
<1>12. ASSUME NEW o \in Orders,
              HookClose(o) \/ UserCancelPending(o) \/ Expire(o) \/ CronExpire(o) \/ ConsoleCancel(o)
       PROVE  Goal
  BY <1>2, <1>12 DEF HookClose, UserCancelPending, Expire, CronExpire, ConsoleCancel, procVars
<1>13. Goal
  BY <1>6, <1>7, <1>8, <1>9, <1>10, <1>11, <1>12 DEF Next, Procs
<1> QED BY <1>13 DEF Goal

(* An order becomes paid by the request that settles it, which ends.       *)
LEMMA PaidShape ==
  ASSUME Next
  PROVE  \/ paid' = paid
         \/ \E p \in Procs : pc[p] \in {"commit", "hookCommit"} /\ FinalizePayment(at[p]) /\ Done(p)
<1> DEFINE Pay == \E p \in Procs : pc[p] \in {"commit", "hookCommit"} /\ FinalizePayment(at[p]) /\ Done(p)
<1>0. UNCHANGED storeVars => paid' = paid
  BY DEF storeVars, orderVars
<1>1. ASSUME NEW o, CancelPendingOrder(o) PROVE paid' = paid
  BY <1>0, <1>1 DEF CancelPendingOrder
<1>2. ASSUME NEW p \in Procs, Create(p) PROVE paid' = paid
  BY <1>0, <1>2 DEF Create, CreateRead, CreateCommit, CreateRefused, InsertOrder
<1>3. ASSUME NEW p \in Procs, Return(p) PROVE paid' = paid \/ Pay
  <2>1. CASE ReturnFinalizeCommit(p)
    BY <2>1 DEF ReturnFinalizeCommit
  <2> HIDE DEF Pay
  <2> QED BY <1>0, <1>1, <1>3, <2>1
          DEF Return, ReturnRead, ReturnClosed, ReturnApproved, ReturnMismatch, ReturnRefused, ReturnLost,
              ReturnFinalizeRead, ReturnFinalizeFails, ReturnCancelPayment, ReturnCancelOrder
<1>4. ASSUME NEW p \in Procs, Hook(p) PROVE paid' = paid \/ Pay
  <2>1. CASE HookFinalize(p)
    BY <2>1 DEF HookFinalize
  <2> HIDE DEF Pay
  <2> QED BY <1>0, <1>4, <2>1
          DEF Hook, HookDone, HookCancelled, HookPartial, HookUpdate, HookPartialUpdate
<1>5. ASSUME NEW p \in Procs, UserCancel(p) \/ Restore(p) \/ Crash(p) PROVE paid' = paid
  BY <1>0, <1>5 DEF UserCancel, UserCancelRead, UserCancelCommit, Restore, RestoreRead, RestoreCommit,
     RestoreStock, Crash, orderVars
<1>6. ASSUME NEW o \in Orders,
             HookClose(o) \/ UserCancelPending(o) \/ Expire(o) \/ CronExpire(o) \/ ConsoleCancel(o)
      PROVE  paid' = paid
  BY <1>0, <1>1, <1>6 DEF HookClose, UserCancelPending, Expire, CronExpire, ConsoleCancel
<1> HIDE DEF Pay
<1>7. paid' = paid \/ Pay
  BY <1>2, <1>3, <1>4, <1>5, <1>6 DEF Next, Procs
<1> QED BY <1>7 DEF Pay

LEMMA UnitsCheckout ==
  ASSUME AfterInv, AfterInv', DeskInv, OneDesk, UnitsInv, PaidOnce, IsFiniteSet(Orders), CheckoutStep
  PROVE  UnitsInv'
<1>0. /\ CheckoutFacts /\ Next /\ RowsLast /\ BuyerRows /\ refundedQty' = refundedQty
      /\ \A p \in Procs : pc[p] # "hookCommit"
  BY CheckoutRowTypes, BuyersRows DEF AfterInv, CheckoutFacts, CheckoutStep, DeskInv, BuyerSteps
<1>1. CASE paid' = paid
  <2>1. UNCHANGED <<status, form, paid, stock>>
        \/ (\E o \in Orders, f \in Forms : InsertOrder(o, f))
        \/ \E o \in Orders : status[o] = "PENDING" /\ CancelPendingOrder(o)
    <3>1. ASSUME NEW p \in Procs, pc[p] = "commit", FinalizePayment(at[p]) PROVE FALSE
      BY <1>1, <3>1 DEF FinalizePayment, UnitsInv, SettledOnce
    <3> QED BY <1>0, <3>1 DEF BuyerRows
  <2>2. stock' = stock /\ \A o \in Orders : status'[o] = "PENDING" => o \notin paid
    BY <2>1 DEF InsertOrder, CancelPendingOrder, UnitsInv, SettledOnce, AfterInv, RowTypes
  <2>3. ASSUME NEW q \in Procs, pc'[q] = "commit" PROVE at'[q] \notin paid'
    BY <1>0, <1>1, <2>3, CommitShape DEF UnitsInv, SettledOnce
  <2> QED BY <1>0, <1>1, <2>2, <2>3, UnitsStay DEF UnitsInv, SettledOnce
<1>2. CASE paid' # paid
  <2>1. PICK p \in Procs : pc[p] = "commit" /\ FinalizePayment(at[p]) /\ Done(p)
    BY <1>0, <1>2, PaidShape
  <2>2. PICK c : c = at[p]
    OBVIOUS
  <2>3. /\ c \in Orders /\ c \notin paid /\ form[c] # None
    <3>1. at[p] \in Orders /\ status[at[p]] # "NONE"
      BY <2>1 DEF AfterInv, ProcKnows, OrderSteps
    <3> QED BY <2>1, <2>2, <3>1, ExistingForm DEF UnitsInv, SettledOnce, AfterInv
  <2>4. /\ paid' = paid \cup {c} /\ status' = [status EXCEPT ![c] = "PAID"]
        /\ \A s \in Skus : stock'[s] = stock[s] - form[c].items[s]
    BY <2>1, <2>2 DEF FinalizePayment
  <2>5. \A s \in Skus : refundedQty[c][s] = 0
    BY <2>3 DEF DeskInv, BooksKept
  <2>6. \A o \in Orders : status'[o] = "PENDING" => o \notin paid'
    BY <2>3, <2>4 DEF UnitsInv, SettledOnce, AfterInv, RowTypes
  <2>7. ASSUME NEW q \in Procs, pc'[q] = "commit" PROVE at'[q] \notin paid'
    <3>1. pc'[p] = "idle"
      BY <2>1 DEF Done, AfterInv, ProcKnows, ProcTypes
    <3>2. at'[q] = at[q] /\ (pc[q] = "commit" \/ UNCHANGED storeVars)
      BY <1>0, <2>7, CommitShape
    <3>3. pc[q] = "commit"
      BY <1>2, <3>2 DEF storeVars, orderVars
    <3>4. at[q] # c
      BY <2>1, <2>2, <2>7, <3>1, <3>3 DEF PaidOnce
    <3> QED BY <2>4, <3>2, <3>3, <3>4 DEF UnitsInv, SettledOnce
  <2>8. \A s \in Skus : UnitsOut(s)' = InitialStock[s] - stock'[s]
    BY <1>0, <2>3, <2>4, <2>5, UnitsTaken DEF UnitsInv
  <2> QED BY <2>6, <2>7, <2>8 DEF UnitsInv, SettledOnce
<1> QED BY <1>1, <1>2

(* A refund or a completed return brings back what it records.             *)
LEMMA UnitsBack ==
  ASSUME AfterInv, DeskInv, Backed, IsFiniteSet(Desk), NEW p \in Desk,
         RefundCommit(p) \/ ReturnStaffCommit(p)
  PROVE  \/ UNCHANGED <<stock, refundedQty>>
         \/ \E c \in paid :
              /\ \A o \in Orders : o # c => refundedQty'[o] = refundedQty[o]
              /\ \A s \in Skus : refundedQty'[c][s] - refundedQty[c][s] = stock'[s] - stock[s]
<1> DEFINE j == job[p]
<1>0. PICK c : c = j.order
  OBVIOUS
<1>1. CASE RefundCommit(p)
  <2>1. /\ c \in paid /\ c \in Orders /\ form[c].items \in [Skus -> Nat] /\ j.full \in BOOLEAN
        /\ j.units = IF j.full THEN form[c].items ELSE NoQty
        /\ \A s \in Skus : refundedQty[c][s] = 0
    BY <1>0, <1>1, RefundFacts
  <2>2. /\ stock' = [s \in Skus |-> stock[s] + j.units[s]]
        /\ refundedQty' = [refundedQty EXCEPT ![c] = [s \in Skus |->
                             IF j.units[s] > 0 THEN form[c].items[s] ELSE refundedQty[c][s]]]
    BY <1>0, <1>1 DEF RefundCommit
  <2>3. \A s \in Skus : j.units[s] \in Nat /\ (j.units[s] > 0 => j.units[s] = form[c].items[s])
    <3>1. CASE j.full
      BY <2>1, <3>1
    <3>2. CASE ~j.full
      BY <2>1, <3>2 DEF NoQty
    <3> QED BY <3>1, <3>2
  <2>4. PICK n : n = j.units
    OBVIOUS
  <2>5. ASSUME NEW s \in Skus PROVE refundedQty'[c][s] - refundedQty[c][s] = stock'[s] - stock[s]
    <3>1. refundedQty'[c][s] = IF n[s] > 0 THEN form[c].items[s] ELSE 0
      BY <2>1, <2>2, <2>4 DEF AfterInv, RowTypes
    <3>2. stock'[s] = stock[s] + n[s] /\ stock[s] \in Nat /\ n[s] \in Nat
          /\ (n[s] > 0 => n[s] = form[c].items[s])
      BY <2>2, <2>3, <2>4 DEF AfterInv, RowTypes
    <3> QED BY <2>1, <3>1, <3>2
  <2>6. \A o \in Orders : o # c => refundedQty'[o] = refundedQty[o]
    BY <2>2 DEF AfterInv, RowTypes
  <2> QED BY <2>1, <2>5, <2>6
<1>2. CASE ReturnStaffCommit(p)
  <2>1. /\ c \in paid /\ c \in Orders /\ returns[j.id].units \in [Skus -> Nat]
    BY <1>0, <1>2, ReturnFacts
  <2>2. CASE j.complete
    <3>1. /\ stock' = [s \in Skus |-> stock[s] + returns[j.id].units[s]]
          /\ refundedQty' = [refundedQty EXCEPT ![c] =
                               [s \in Skus |-> refundedQty[c][s] + returns[j.id].units[s]]]
      BY <1>0, <1>2, <2>2 DEF ReturnStaffCommit
    <3>2. PICK n \in [Skus -> Nat] : n = returns[j.id].units
      BY <2>1
    <3>3. ASSUME NEW s \in Skus PROVE refundedQty'[c][s] - refundedQty[c][s] = stock'[s] - stock[s]
      <4>1. refundedQty'[c][s] = refundedQty[c][s] + n[s] /\ stock'[s] = stock[s] + n[s]
        BY <2>1, <3>1, <3>2 DEF AfterInv, RowTypes
      <4>2. refundedQty[c][s] \in Nat /\ stock[s] \in Nat /\ n[s] \in Nat
        BY <2>1, <3>2 DEF AfterInv, RowTypes
      <4> QED BY <4>1, <4>2
    <3>4. \A o \in Orders : o # c => refundedQty'[o] = refundedQty[o]
      BY <3>1 DEF AfterInv, RowTypes
    <3> QED BY <2>1, <3>3, <3>4
  <2>3. CASE ~j.complete
    BY <1>2, <2>3 DEF ReturnStaffCommit, refundVars
  <2> QED BY <2>2, <2>3
<1> QED BY <1>1, <1>2

(* A request of the staff pays for no order and reopens none.              *)
LEMMA StaffKeepsPaid ==
  ASSUME AfterInv, DeskInv, NEW p \in Desk, Staff(p) \/ Customer(p)
  PROVE  /\ UNCHANGED <<paid, pc, at>>
         /\ \A o \in Orders : status'[o] = "PENDING" => status[o] = "PENDING"
         /\ UNCHANGED <<stock, refundedQty>> \/ RefundCommit(p) \/ ReturnStaffCommit(p)
<1>1. CASE PatchCommit(p)
  <2>1. job[p].target \in Shipping /\ ~job[p].restock
    BY <1>1 DEF DeskInv, DeskKnows, PatchCommit
  <2> QED BY <1>1, <2>1 DEF PatchCommit, Shipping, refundVars, procVars, AfterInv, RowTypes
<1>2. CASE RefundCommit(p) \/ ReturnStaffCommit(p)
  <2>1. UNCHANGED <<paid, pc, at>>
    BY <1>2 DEF RefundCommit, ReturnStaffCommit, procVars
  <2>2. \A o \in Orders : status'[o] = "PENDING" => status[o] = "PENDING"
    BY <1>2 DEF RefundCommit, ReturnStaffCommit, AfterInv, RowTypes
  <2> QED BY <1>2, <2>1, <2>2
<1>3. ~EditCommit(p)
  BY DEF EditCommit, DeskInv, DeskKnows
<1>4. ASSUME ~PatchCommit(p), ~RefundCommit(p), ~ReturnStaffCommit(p)
      PROVE  UNCHANGED <<paid, pc, at, status, stock, refundedQty>>
  BY <1>3, <1>4 DEF Staff, Customer, PatchRead, BulkShipRead, RefundRead, ReturnStaffRead, EditRead,
     CallSucceeds, CallFails, Cut, RequestRead, RequestCommit, vars, storeVars, orderVars, refundVars, procVars
<1> QED BY <1>1, <1>2, <1>4

LEMMA UnitsNext ==
  ASSUME AfterInv, AfterInv', DeskInv, Backed, OneDesk, UnitsInv, PaidOnce,
         IsFiniteSet(Skus), IsFiniteSet(Orders), IsFiniteSet(Desk), [AfterNext]_allVars
  PROVE  UnitsInv'
<1>1. CASE CheckoutStep
  BY <1>1, UnitsCheckout
<1>2. ASSUME NEW p \in Desk, Staff(p) \/ Customer(p) PROVE UnitsInv'
  <2>0. RowsLast
    BY <1>2, AfterStep DEF AfterNext
  <2>1. /\ UNCHANGED <<paid, pc, at>>
        /\ \A o \in Orders : status'[o] = "PENDING" => status[o] = "PENDING"
        /\ UNCHANGED <<stock, refundedQty>> \/ RefundCommit(p) \/ ReturnStaffCommit(p)
    BY <1>2, StaffKeepsPaid
  <2>2. SettledOnce'
    BY <2>1 DEF UnitsInv, SettledOnce
  <2>3. CASE UNCHANGED <<stock, refundedQty>>
    BY <2>0, <2>1, <2>2, <2>3, UnitsStay DEF UnitsInv
  <2>4. ASSUME NEW c \in paid,
               \A o \in Orders : o # c => refundedQty'[o] = refundedQty[o],
               \A s \in Skus : refundedQty'[c][s] - refundedQty[c][s] = stock'[s] - stock[s]
        PROVE  UnitsInv'
    BY <2>0, <2>1, <2>2, <2>4, UnitsReturn DEF UnitsInv
  <2> QED BY <2>1, <2>3, <2>4, UnitsBack
<1>3. CASE UNCHANGED allVars
  <2>1. RowsLast
    BY <1>3, AfterStay
  <2>2. UNCHANGED <<status, paid, pc, at, stock, refundedQty>>
    BY <1>3 DEF allVars, vars, storeVars, orderVars, refundVars, procVars
  <2> QED BY <2>1, <2>2, UnitsStay DEF UnitsInv, SettledOnce
<1> QED BY <1>1, <1>2, <1>3 DEF AfterNext, Desk

LEMMA UnitsAlways ==
  ASSUME IsFiniteSet(Skus), IsFiniteSet(Orders), IsFiniteSet(Desk), Apart
  PROVE  AfterSpec /\ []PaidOnce => [](OneDesk => UnitsInv)
<1>1. AfterInit => UnitsInv
  <2> SUFFICES ASSUME AfterInit PROVE UnitsInv
    OBVIOUS
  <2>1. paid = {} /\ stock = InitialStock /\ \A p \in Procs : pc[p] = "idle"
    BY DEF AfterInit, Init, StoreInit
  <2>2. SettledOnce
    BY <2>1 DEF SettledOnce
  <2>3. ASSUME NEW s \in Skus PROVE UnitsOut(s) = InitialStock[s] - stock[s]
    <3>1. UnitsOut(s) = 0
      BY <2>1, SumEmpty DEF UnitsOut
    <3>2. InitialStock[s] \in Nat
      BY StoreAssumption
    <3> QED BY <2>1, <3>1, <3>2
  <2> QED BY <2>2, <2>3 DEF UnitsInv
<1>2. AfterInv /\ AfterInv' /\ Backed /\ PaidOnce /\ (OneDesk => DeskInv) /\ (OneDesk => UnitsInv)
        /\ [AfterNext]_allVars => (OneDesk => UnitsInv)'
  BY UnitsNext, DeskFixed DEF OneDesk
<1> QED BY <1>1, <1>2, AfterAlways, BackedAlways, DeskAlways, PTL DEF AfterSpec

(* The units that left the stock are those of the paid orders that were    *)
(* not given back, and no order gives back more than it took: for every    *)
(* number of refunds or returns, whatever calls fail and whichever are cut *)
(* off (stock.ts line 181), as long as no payment is settled by two        *)
(* requests at the same time and, where goods come back on the return      *)
(* screen, one clerk works on it and one customer at a time asks, for each *)
(* item once (OneDesk, Apart).                                             *)
THEOREM UnitsComeBackOnce ==
  ASSUME IsFiniteSet(Skus), IsFiniteSet(Orders), IsFiniteSet(Admins \cup Customers), Apart
  PROVE  AfterSpec /\ []PaidOnce => []UnitsBackOnce
<1>0. IsFiniteSet(Desk)
  BY DEF Desk
<1>1. AfterInv /\ (OneDesk => DeskInv) /\ (OneDesk => UnitsInv) => UnitsBackOnce
  <2> SUFFICES ASSUME DeskInv, UnitsInv, AfterInv, NEW s \in Skus
               PROVE  /\ SumFunction([o \in paid |-> form[o].items[s] - refundedQty[o][s]])
                           = InitialStock[s] - stock[s]
                      /\ \A o \in paid : refundedQty[o][s] <= form[o].items[s]
    BY DEF UnitsBackOnce
  <2>1. SumFunction([o \in paid |-> form[o].items[s] - refundedQty[o][s]]) = UnitsOut(s)
    BY DEF SumFunction, UnitsOut
  <2>2. \A o \in paid : o \in Orders
    BY DEF AfterInv, RowTypes
  <2> QED BY <2>1, <2>2 DEF UnitsInv, DeskInv, BooksKept
<1> QED BY <1>0, <1>1, AfterAlways, DeskAlways, UnitsAlways, PTL

(* Only the customer's return from the provider settles in two steps, so a *)
(* shop whose payments come back to one process settles none of them twice. *)
ReturnsSettle == \A p \in Procs : pc[p] = "commit" => p \in ReturnProcs

LEMMA OneReturnSettlesOnce ==
  ASSUME IsFiniteSet(Skus), \A p, q \in ReturnProcs : p = q
  PROVE  AfterSpec => []PaidOnce
<1>1. AfterInit => ReturnsSettle
  BY DEF AfterInit, Init, ReturnsSettle
<1>2. AfterInv /\ ReturnsSettle /\ [AfterNext]_allVars => ReturnsSettle'
  <2> SUFFICES ASSUME AfterInv, ReturnsSettle, [AfterNext]_allVars PROVE ReturnsSettle'
    OBVIOUS
  <2>1. CASE CheckoutStep
    <3>1. Next /\ CheckoutFacts
      BY <2>1 DEF CheckoutStep, AfterInv, CheckoutFacts
    <3>2. ASSUME NEW p \in Procs, pc'[p] = "commit" PROVE pc[p] = "commit" \/ p \in ReturnProcs
      BY <3>1, <3>2, CommitShape
    <3> QED BY <3>2 DEF ReturnsSettle
  <2>2. ASSUME NEW p \in Desk, Staff(p) \/ Customer(p) PROVE ReturnsSettle'
    <3>1. UNCHANGED pc
      BY <2>2 DEF Staff, Customer, PatchRead, BulkShipRead, RefundRead, ReturnStaffRead, EditRead,
         CallSucceeds, CallFails, Cut, RequestRead, RequestCommit, PatchCommit, RefundCommit,
         ReturnStaffCommit, EditCommit, vars, procVars
    <3> QED BY <3>1 DEF ReturnsSettle
  <2>3. CASE UNCHANGED allVars
    BY <2>3 DEF allVars, vars, procVars, ReturnsSettle
  <2> QED BY <2>1, <2>2, <2>3 DEF AfterNext, Desk
<1>3. ReturnsSettle => PaidOnce
  BY DEF ReturnsSettle, PaidOnce
<1> QED BY <1>1, <1>2, <1>3, AfterAlways, PTL DEF AfterSpec

(* UnitsBackOnce for a shop whose payments come back to one process, so    *)
(* that none is settled twice, with whatever refunds are in flight; for    *)
(* returns in the scope of UnitsComeBackOnce.                              *)
THEOREM UnitsComeBackOnceAlone ==
  ASSUME IsFiniteSet(Skus), IsFiniteSet(Orders), IsFiniteSet(Admins \cup Customers), Apart,
         \A p, q \in ReturnProcs : p = q
  PROVE  AfterSpec => []UnitsBackOnce
BY OneReturnSettlesOnce, UnitsComeBackOnce, PTL

-----------------------------------------------------------------------------
(* One administrator, one customer and one process for payments: there no  *)
(* settled order is opened again.  An order whose points were settled      *)
(* stays closed, and a status change under way is of an order whose points *)
(* were not.                                                               *)
ClosedStays ==
  desk = {"return"} =>
    /\ \A o \in Orders : ~Unsettled(o) => status[o] \notin PaidStatuses \cup {"PENDING"}
    /\ \A p \in Desk : job[p].step = "patch" => p \in Admins /\ Unsettled(job[p].order)

(* What a step must leave alone, or may only add, to keep it.              *)
LEMMA ClosedStep ==
  ASSUME AfterInv, ClosedStays, desk' = desk, NEW p \in Desk, NEW k, Take(p, k),
         UNCHANGED <<status, backRows>>,
         k.step = "patch" /\ desk = {"return"} => p \in Admins /\ Unsettled(k.order)
  PROVE  ClosedStays'
<1>1. \A q \in Desk : job'[q] = IF q = p THEN k ELSE job[q]
  BY DEF Take, AfterInv, JobsKnow
<1> QED BY <1>1 DEF ClosedStays, Unsettled

LEMMA ClosedPatchReads ==
  ASSUME AfterInv, ClosedStays, OneDesk, NEW p \in Admins, NEW o \in Orders, NEW t \in Statuses,
         PatchRead(p, o, t) \/ BulkShipRead(p, o)
  PROVE  ClosedStays'
<1>1. /\ status[o] \in Statuses /\ "manual" \notin desk /\ p \in Desk
      /\ UNCHANGED <<status, backRows, desk>>
  BY DEF OneDesk, AfterInv, RowTypes, Desk, PatchRead, BulkShipRead, vars, storeVars, orderVars
<1>2. status[o] \in PaidStatuses
  <2>1. CASE PatchRead(p, o, t)
    BY <1>1, <2>1 DEF PatchRead, NextTransitions, Statuses, Shipping, PaidStatuses
  <2>2. CASE BulkShipRead(p, o)
    BY <2>2 DEF BulkShipRead, PaidStatuses
  <2> QED BY <2>1, <2>2
<1>3. desk = {"return"} => Unsettled(o)
  BY <1>2 DEF ClosedStays
<1>4. PICK k : Take(p, k) /\ k.order = o
  BY DEF PatchRead, BulkShipRead
<1> QED BY <1>1, <1>3, <1>4, ClosedStep

LEMMA ClosedPatch ==
  ASSUME AfterInv, DeskInv, ClosedStays, OneDesk, NEW p \in Desk, PatchCommit(p)
  PROVE  ClosedStays'
<1>1. job[p] \in Jobs /\ job[p].step = "patch" /\ ~job[p].restock
  BY DEF AfterInv, JobsKnow, DeskInv, DeskKnows, PatchCommit
<1>2. UNCHANGED <<backRows, desk>> /\ status' = [status EXCEPT ![job[p].order] = job[p].target]
  BY <1>1 DEF PatchCommit
<1>3. desk = {"return"} => Unsettled(job[p].order)
  BY <1>1 DEF ClosedStays
<1>4. \A q \in Desk : job'[q] = IF q = p THEN Idle ELSE job[q]
  BY DEF PatchCommit, Answer, Take, AfterInv, JobsKnow
<1>5. \A o \in Orders : o # job[p].order => status'[o] = status[o]
  BY <1>2 DEF AfterInv, RowTypes
<1> QED BY <1>2, <1>3, <1>4, <1>5, IdleKnows DEF ClosedStays, Unsettled

(* The only settlement on this desk closes the order, and its clerk is the *)
(* only one who could have read another status change.                     *)
LEMMA ClosedReturn ==
  ASSUME AfterInv, DeskInv, ClosedStays, NEW p \in Desk, ReturnStaffCommit(p),
         \A q, r \in Admins : q = r
  PROVE  ClosedStays'
<1> DEFINE j == job[p]
<1>1. j \in Jobs /\ j.step = "return" /\ p \in Admins /\ j.order \in Orders
  BY JobKind, AfterAssumption
     DEF AfterInv, JobsKnow, DeskInv, DeskKnows, ReturnStaffCommit, ReturnJobs
<1>2. j.full => j.complete
  BY <1>1 DEF DeskInv, DeskKnows
<1>3. \A q \in Desk : job'[q] = IF q = p THEN Idle ELSE job[q]
  BY DEF ReturnStaffCommit, Answer, Take, AfterInv, JobsKnow
<1>4. desk' = desk
  BY DEF ReturnStaffCommit
<1>5. desk = {"return"} => \A q \in Desk : job'[q].step # "patch"
  BY <1>1, <1>3, IdleKnows DEF ClosedStays
<1>6. CASE j.complete
  <2>1. /\ status' = [status EXCEPT ![j.order] = IF j.full THEN "REFUNDED" ELSE "PARTIALLY_REFUNDED"]
        /\ backRows' = backRows \/ PointsBack(j.order, TRUE)
    BY <1>6 DEF ReturnStaffCommit, PointsBack
  <2>2. status'[j.order] \in {"REFUNDED", "PARTIALLY_REFUNDED"}
    BY <1>1, <2>1 DEF AfterInv, RowTypes
  <2>3. \A o \in Orders : o # j.order => UNCHANGED <<status[o], backRows[o]>>
    <3> HIDE DEF j
    <3>1. \A o \in Orders : o # j.order => status'[o] = status[o]
      BY <2>1 DEF AfterInv, RowTypes
    <3>2. backRows \in [Orders -> [spent : Nat, earned : Nat]]
      BY DEF AfterInv
    <3>3. \A o \in Orders : o # j.order => backRows'[o] = backRows[o]
      <4>1. CASE backRows' = backRows
        BY <4>1
      <4>2. CASE PointsBack(j.order, TRUE)
        BY <3>2, <4>2 DEF PointsBack
      <4> QED BY <2>1, <4>1, <4>2
    <3> QED BY <3>1, <3>3
  <2>4. \A o \in Orders : ~Unsettled(o)' => o = j.order \/ ~Unsettled(o)
    BY <2>3 DEF Unsettled
  <2> QED BY <1>4, <1>5, <2>2, <2>3, <2>4 DEF ClosedStays, PaidStatuses
<1>7. CASE ~j.complete
  <2>1. UNCHANGED <<status, backRows>>
    BY <1>7 DEF ReturnStaffCommit
  <2> QED BY <1>4, <1>5, <2>1 DEF ClosedStays, Unsettled
<1> QED BY <1>1, <1>6, <1>7 DEF Jobs, JobsKnow, AfterInv

(* Customers only pay for orders that were not paid before.                *)
LEMMA ClosedCheckout ==
  ASSUME AfterInv, DeskInv, ClosedStays, OneDesk, SettledOnce, CheckoutStep
  PROVE  ClosedStays'
<1>1. UNCHANGED <<desk, job, backRows>>
  BY DEF CheckoutStep
<1>2. \A o \in Orders : ~Unsettled(o) => o \in paid /\ status[o] # "NONE"
  BY DEF DeskInv, BooksKept, AfterInv, RowTypes
<1>3. ASSUME NEW o \in Orders, ~Unsettled(o), status[o] \notin PaidStatuses \cup {"PENDING"}
      PROVE  status'[o] \notin PaidStatuses \cup {"PENDING"}
  <2>1. CASE UNCHANGED <<status, form, paid, stock>>
    BY <1>3, <2>1
  <2>2. CASE \E q \in Orders, f \in Forms : InsertOrder(q, f)
    BY <1>2, <1>3, <2>2 DEF InsertOrder, AfterInv, RowTypes
  <2>3. CASE \E q \in Orders : status[q] = "PENDING" /\ CancelPendingOrder(q)
    BY <1>3, <2>3 DEF CancelPendingOrder, AfterInv, RowTypes
  <2>4. CASE \E p \in Procs : pc[p] = "commit" /\ FinalizePayment(at[p])
    <3>1. PICK p \in Procs : pc[p] = "commit" /\ FinalizePayment(at[p])
      BY <2>4
    <3>2. at[p] # o
      BY <1>2, <1>3, <3>1 DEF SettledOnce
    <3> QED BY <1>3, <3>1, <3>2 DEF FinalizePayment, AfterInv, RowTypes
  <2> QED BY <2>1, <2>2, <2>3, <2>4, BuyersRows DEF BuyerRows
<1> QED BY <1>1, <1>3 DEF ClosedStays, Unsettled

LEMMA ClosedNext ==
  ASSUME AfterInv, DeskInv, ClosedStays, OneDesk, SettledOnce, \A q, r \in Admins : q = r,
         [AfterNext]_allVars
  PROVE  ClosedStays'
<1>0. desk' = desk
  BY DeskFixed
<1>1. CASE CheckoutStep
  BY <1>1, ClosedCheckout
<1>2. ASSUME NEW p \in Desk, NEW k, Take(p, k), k.step # "patch", UNCHANGED <<vars, backRows>>
      PROVE  ClosedStays'
  <2>1. status' = status
    BY <1>2 DEF vars, storeVars, orderVars
  <2> QED BY <1>0, <1>2, <2>1, ClosedStep
<1>3. ASSUME NEW p \in Desk, CallSucceeds(p) \/ CallFails(p) \/ EditCommit(p) \/ RequestCommit(p) \/ Cut(p)
      PROVE  ClosedStays'
  <2>1. UNCHANGED <<status, backRows>>
    BY <1>3 DEF CallSucceeds, CallFails, EditCommit, RequestCommit, Cut, vars, storeVars, orderVars
  <2>2. PICK k : Take(p, k) /\ k.step # "patch"
    <3>1. CASE CallSucceeds(p)
      <4> DEFINE k == [job[p] EXCEPT !.step = IF @ = "refundCall" THEN "refund" ELSE "return"]
      <4>1. job[p] \in Jobs /\ job[p].step \in {"refundCall", "returnCall"}
        BY <3>1 DEF CallSucceeds, AfterInv, JobsKnow
      <4>2. k.step # "patch"
        BY <4>1, JobKind DEF RefundJobs, ReturnJobs
      <4>3. Take(p, k)
        BY <3>1 DEF CallSucceeds
      <4> HIDE DEF k
      <4> QED BY <4>2, <4>3
    <3>2. CASE Answer(p)
      BY <3>2, IdleKnows DEF Answer
    <3> QED BY <1>3, <3>1, <3>2 DEF CallFails, EditCommit, RequestCommit, Cut
  <2> QED BY <1>0, <2>1, <2>2, ClosedStep
<1>4. ASSUME NEW p \in Admins, Staff(p) PROVE ClosedStays'
  <2>0. p \in Desk
    BY DEF Desk
  <2>1. CASE \E o \in Orders : (\E t \in Statuses : PatchRead(p, o, t)) \/ BulkShipRead(p, o)
    BY <2>1, ClosedPatchReads DEF Statuses
  <2>2. CASE \E o \in Orders : /\ form[o] # None
                               /\ \E opt \in RefundOptions, a \in 1..form[o].total : RefundRead(p, o, a, opt)
    BY <1>2, <2>0, <2>2 DEF RefundRead
  <2>3. CASE \E r \in Returns, t \in {"APPROVED", "PICKED_UP", "COMPLETED", "REJECTED"} :
               \E skip \in BOOLEAN : ReturnStaffRead(p, r, t, skip)
    BY <1>2, <2>0, <2>3 DEF ReturnStaffRead
  <2>4. CASE \E s \in Skus : EditRead(p, s)
    BY <1>2, <2>0, <2>4 DEF EditRead
  <2>5. CASE CallSucceeds(p) \/ CallFails(p) \/ EditCommit(p) \/ Cut(p)
    BY <1>3, <2>0, <2>5
  <2>6. CASE PatchCommit(p)
    BY <2>0, <2>6, ClosedPatch
  <2>7. CASE RefundCommit(p)
    <3>1. desk = {"refund"}
      BY <2>0, <2>7 DEF RefundCommit, DeskInv, DeskKnows
    <3> QED BY <1>0, <3>1 DEF ClosedStays
  <2>8. CASE ReturnStaffCommit(p)
    BY <2>0, <2>8, ClosedReturn
  <2> QED BY <1>4, <2>1, <2>2, <2>3, <2>4, <2>5, <2>6, <2>7, <2>8 DEF Staff
<1>5. ASSUME NEW p \in Customers, Customer(p) PROVE ClosedStays'
  <2>0. p \in Desk
    BY DEF Desk
  <2>1. CASE \E o \in Orders, t \in {"RETURN", "EXCHANGE"}, units \in [Skus -> 0..MaxUnits] :
               RequestRead(p, o, units, t)
    BY <1>2, <2>0, <2>1 DEF RequestRead
  <2>2. CASE RequestCommit(p) \/ Cut(p)
    BY <1>3, <2>0, <2>2
  <2> QED BY <1>5, <2>1, <2>2 DEF Customer
<1>6. CASE UNCHANGED allVars
  BY <1>6 DEF allVars, afterVars, vars, storeVars, orderVars, ClosedStays, Unsettled
<1> QED BY <1>1, <1>4, <1>5, <1>6 DEF AfterNext

(* The points of an order come back once, and only after all of its money, *)
(* also where goods come back on the return screen and with no condition   *)
(* on the behaviour: for a shop with one administrator, one customer who   *)
(* asks for returns and one process that settles payments, whatever these  *)
(* do and whichever of their calls fail (admin/returns/[id]/route.ts).     *)
THEOREM PointsComeBackOnceAlone ==
  ASSUME IsFiniteSet(Skus), IsFiniteSet(Orders), IsFiniteSet(Admins \cup Customers),
         \A p, q \in Admins : p = q, \A p, q \in Customers : p = q,
         \A p, q \in ReturnProcs : p = q
  PROVE  AfterSpec => []PointsBackOnce
<1>0. IsFiniteSet(Desk) /\ Apart
  BY AfterAssumption DEF Desk, Apart
<1>1. AfterInit => (OneDesk => ClosedStays)
  <2> SUFFICES ASSUME AfterInit PROVE ClosedStays
    OBVIOUS
  <2>1. \A o \in Orders : status[o] = "NONE"
    BY DEF AfterInit, Init, StoreInit
  <2>2. \A p \in Desk : job[p].step = "idle"
    BY IdleKnows DEF AfterInit, Desk
  <2> QED BY <2>1, <2>2 DEF ClosedStays, PaidStatuses
<1>2. AfterInv /\ (OneDesk => DeskInv) /\ (OneDesk => UnitsInv) /\ (OneDesk => ClosedStays)
        /\ [AfterNext]_allVars => (OneDesk => ClosedStays)'
  BY ClosedNext, DeskFixed DEF OneDesk, UnitsInv
<1>3. AfterSpec => [](OneDesk => ClosedStays)
  BY <1>0, <1>1, <1>2, AfterAlways, DeskAlways, OneReturnSettlesOnce, UnitsAlways, PTL DEF AfterSpec
<1>4. (OneDesk => ClosedStays) => (OneDesk => NotReopened)
  BY DEF ClosedStays, NotReopened, PaidStatuses
<1> QED BY <1>0, <1>3, <1>4, PointsComeBackOnce, PTL
-----------------------------------------------------------------------------
(* The shop implements MoneyLife.  What was decided before the money moved *)
(* is no refund of less than nothing: on the return screen the rest of an  *)
(* order is what its price leaves above the record, and the record is of   *)
(* money that has gone back.                                               *)
ReturnsAlone == \A d \in Desks : "return" \in d => "manual" \notin d /\ HookProcs = {}

SoundJob(j) ==
  /\ j.step = "request" => "return" \in desk
  /\ j.step \in {"returnCall", "return"} => ~j.skipped /\ j.amount >= 0
  /\ j.step \in {"refundCall", "refund"} /\ "return" \in desk => ~j.options.skipPgCall

SoundBooks ==
  /\ \A r \in Returns : returns[r] # None => "return" \in desk
  /\ \A p \in Desk : SoundJob(job[p])
  /\ "return" \in desk => \A o \in Orders : refundedAmount[o] = refunds[o].pg

Costs  == [o \in Orders |-> IF form[o] = None THEN 0 ELSE form[o].total]
Booked == [o \in Orders |-> refunds[o].pg]

MoneyStep == [Money!Next]_<<Costs, returned, Booked>>

LEMMA IdleSound == SoundJob(Idle)
BY DEF SoundJob, Idle

(* A step of one request that touches neither rows of returns nor books.   *)
LEMMA SoundStep ==
  ASSUME AfterInv, SoundBooks, NEW p \in Desk, NEW k, Take(p, k), SoundJob(k),
         UNCHANGED <<desk, returns, refunds, refundedAmount>>
  PROVE  SoundBooks'
<1>1. \A q \in Desk : job'[q] = IF q = p THEN k ELSE job[q]
  BY DEF Take, AfterInv, JobsKnow
<1>2. ASSUME NEW q \in Desk PROVE SoundJob(job[q])'
  BY <1>1 DEF SoundBooks, SoundJob
<1> QED BY <1>2 DEF SoundBooks

LEMMA SoundReturnRead ==
  ASSUME AfterInv, Backed, SoundBooks, ReturnsAlone, IsFiniteSet(Desk), NEW p \in Desk,
         NEW r \in Returns, NEW t, NEW skip \in BOOLEAN, ReturnStaffRead(p, r, t, skip)
  PROVE  SoundBooks'
<1> DEFINE rr == returns[r]
           a == RestOf(rr)
           complete == t = "COMPLETED" /\ rr.type = "RETURN"
           k == [step |-> IF complete /\ a > 0 /\ ~skip THEN "returnCall" ELSE "return",
                 id |-> r, order |-> rr.order, target |-> t, complete |-> complete,
                 amount |-> a, skipped |-> skip,
                 full |-> complete /\ a + refundedAmount[rr.order] >= form[rr.order].total]
<1>1. /\ rr # None /\ rr \in ReturnRows /\ rr.order \in Orders /\ rr.amount \in Nat
      /\ form[rr.order] # None
  BY DEF ReturnStaffRead, AfterInv, ReturnsKnow, ReturnRows
<1>2. "return" \in desk /\ ~skip
  BY <1>1 DEF SoundBooks, ReturnStaffRead, ReturnsAlone, AfterInv
<1>3. a >= 0
  <2>1. refunds[rr.order].pg + Flying(rr.order) <= returned[rr.order]
    BY <1>1 DEF Backed
  <2>2. Flying(rr.order) \in Nat
    BY FlyingNat DEF AfterInv
  <2>3. /\ refundedAmount[rr.order] = refunds[rr.order].pg /\ refundedAmount[rr.order] \in Int
        /\ returned[rr.order] \in Nat /\ returned[rr.order] <= form[rr.order].total
        /\ form[rr.order].total \in Nat
    BY <1>1, <1>2, ExistingForm DEF SoundBooks, AfterInv, RowTypes, MoneyTypes
  <2>4. form[rr.order].total - refundedAmount[rr.order] >= 0
    BY <2>1, <2>2, <2>3
  <2> QED BY <1>1, <2>4 DEF RestOf
<1>4. SoundJob(k)
  <2>1. k.step \in {"returnCall", "return"} /\ k.amount = a /\ k.skipped = skip
    <3> HIDE DEF a
    <3> QED OBVIOUS
  <2> HIDE DEF k, a
  <2> QED BY <1>2, <1>3, <2>1 DEF SoundJob
<1>5. Take(p, k) /\ UNCHANGED <<desk, returns, refunds, refundedAmount>>
  BY DEF ReturnStaffRead, vars, storeVars, refundVars
<1> HIDE DEF k
<1> QED BY <1>4, <1>5, SoundStep

LEMMA SoundReads ==
  ASSUME AfterInv, SoundBooks, ReturnsAlone, NEW p \in Desk,
         \/ \E o \in Orders, t \in Statuses : PatchRead(p, o, t) \/ BulkShipRead(p, o)
         \/ \E o \in Orders, opt \in RefundOptions : \E a : RefundRead(p, o, a, opt)
         \/ \E s \in Skus : EditRead(p, s)
         \/ \E o \in Orders : \E t, units : RequestRead(p, o, units, t)
  PROVE  SoundBooks'
<1>1. UNCHANGED <<desk, returns, refunds, refundedAmount>>
  BY DEF PatchRead, BulkShipRead, RefundRead, EditRead, RequestRead, vars, storeVars, refundVars
<1>2. CASE \/ \E o \in Orders, t \in Statuses : PatchRead(p, o, t) \/ BulkShipRead(p, o)
           \/ \E s \in Skus : EditRead(p, s)
  <2>1. PICK k : Take(p, k) /\ k.step \in {"patch", "edit"}
    <3>1. CASE \E o \in Orders, t \in Statuses : PatchRead(p, o, t)
      BY <3>1 DEF PatchRead
    <3>2. CASE \E o \in Orders : BulkShipRead(p, o)
      BY <3>2 DEF BulkShipRead
    <3>3. CASE \E s \in Skus : EditRead(p, s)
      BY <3>3 DEF EditRead
    <3> QED BY <1>2, <3>1, <3>2, <3>3
  <2>2. SoundJob(k)
    BY <2>1 DEF SoundJob
  <2> QED BY <1>1, <2>1, <2>2, SoundStep
<1>3. ASSUME NEW o \in Orders, NEW opt \in RefundOptions, NEW a, RefundRead(p, o, a, opt)
      PROVE  SoundBooks'
  <2>1. PICK k : Take(p, k) /\ k.step \in {"refundCall", "refund"} /\ k.options = opt
    BY <1>3 DEF RefundRead
  <2>2. SoundJob(k)
    BY <1>3, <2>1 DEF SoundJob, RefundRead, ReturnsAlone, AfterInv
  <2> QED BY <1>1, <2>1, <2>2, SoundStep
<1>4. ASSUME NEW o \in Orders, NEW t, NEW units, RequestRead(p, o, units, t)
      PROVE  SoundBooks'
  <2>1. PICK k : Take(p, k) /\ k.step = "request"
    BY <1>4 DEF RequestRead
  <2>2. SoundJob(k)
    BY <1>4, <2>1 DEF SoundJob, RequestRead
  <2> QED BY <1>1, <2>1, <2>2, SoundStep
<1> QED BY <1>2, <1>3, <1>4

LEMMA SoundCalls ==
  ASSUME AfterInv, SoundBooks, NEW p \in Desk,
         \/ CallSucceeds(p) \/ CallFails(p) \/ PatchCommit(p) \/ EditCommit(p) \/ Cut(p)
  PROVE  SoundBooks'
<1>1. UNCHANGED <<desk, returns, refunds, refundedAmount>>
  BY DEF CallSucceeds, CallFails, PatchCommit, EditCommit, Cut, vars, storeVars, refundVars
<1>2. PICK k : Take(p, k) /\ SoundJob(k)
  <2>1. CASE Answer(p)
    BY <2>1, IdleSound DEF Answer
  <2>2. CASE CallSucceeds(p)
    <3> DEFINE k == [job[p] EXCEPT !.step = IF @ = "refundCall" THEN "refund" ELSE "return"]
    <3>1. job[p] \in Jobs /\ SoundJob(job[p]) /\ Take(p, k)
          /\ job[p].step \in {"refundCall", "returnCall"}
      BY <2>2 DEF CallSucceeds, AfterInv, JobsKnow, SoundBooks
    <3>2. CASE job[p].step = "refundCall"
      <4>1. k.step = "refund" /\ k.options = job[p].options
        BY <3>1, <3>2, JobKind DEF RefundJobs
      <4> HIDE DEF k
      <4> QED BY <3>1, <3>2, <4>1 DEF SoundJob
    <3>3. CASE job[p].step = "returnCall"
      <4>1. k.step = "return" /\ k.amount = job[p].amount /\ k.skipped = job[p].skipped
        BY <3>1, <3>3, JobKind DEF ReturnJobs
      <4> HIDE DEF k
      <4> QED BY <3>1, <3>3, <4>1 DEF SoundJob
    <3> QED BY <3>1, <3>2, <3>3
  <2> QED BY <2>1, <2>2 DEF CallFails, PatchCommit, EditCommit, Cut
<1> QED BY <1>1, <1>2, SoundStep

(* The transactions: a return that is requested or goes on, and what a     *)
(* refund puts on record.                                                  *)
LEMMA SoundAnswer ==
  ASSUME AfterInv, AfterInv', SoundBooks, NEW p \in Desk, Answer(p), desk' = desk,
         \A r \in Returns : returns'[r] # None => "return" \in desk,
         "return" \in desk => \A o \in Orders : refundedAmount'[o] = refunds'[o].pg
  PROVE  SoundBooks'
<1>1. \A q \in Desk : job'[q] = IF q = p THEN Idle ELSE job[q]
  BY DEF Answer, Take, AfterInv, JobsKnow
<1>2. ASSUME NEW q \in Desk PROVE SoundJob(job[q])'
  BY <1>1, IdleSound DEF SoundBooks, SoundJob
<1> QED BY <1>2 DEF SoundBooks

LEMMA SoundCommits ==
  ASSUME AfterInv, AfterInv', SoundBooks, NEW p \in Desk,
         RequestCommit(p) \/ RefundCommit(p) \/ ReturnStaffCommit(p)
  PROVE  SoundBooks'
<1> DEFINE j == job[p]
<1>0. Answer(p) /\ desk' = desk /\ j \in Jobs /\ SoundJob(j) /\ JobKnows(j)
  BY DEF RequestCommit, RefundCommit, ReturnStaffCommit, AfterInv, JobsKnow, SoundBooks
<1>1. CASE RequestCommit(p)
  <2>1. "return" \in desk /\ UNCHANGED <<refunds, refundedAmount>>
    BY <1>0, <1>1 DEF RequestCommit, SoundJob, vars, storeVars, refundVars
  <2> QED BY <1>0, <2>1, SoundAnswer DEF SoundBooks
<1>2. ASSUME NEW o \in Orders, NEW a \in Int, NEW skipped \in BOOLEAN, Record(o, a, skipped),
             "return" \in desk => ~skipped
      PROVE  "return" \in desk => \A q \in Orders : refundedAmount'[q] = refunds'[q].pg
  <2> SUFFICES ASSUME "return" \in desk, NEW q \in Orders
               PROVE  refundedAmount'[q] = refunds'[q].pg
    OBVIOUS
  <2>1. Record(o, a, FALSE)
    <3>1. skipped = FALSE
      BY <1>2
    <3> QED BY <1>2, <3>1
  <2> QED BY <2>1, RecordAdds DEF SoundBooks
<1>3. CASE RefundCommit(p)
  <2>1. j.step = "refund" /\ j \in RefundJobs
    BY <1>0, <1>3, JobKind DEF RefundCommit
  <2>2. j.order \in Orders /\ j.amount \in Int /\ j.options.skipPgCall \in BOOLEAN
    BY <2>1 DEF RefundJobs
  <2>3. Record(j.order, j.amount, j.options.skipPgCall) /\ returns' = returns
    BY <1>3 DEF RefundCommit
  <2>4. "return" \in desk => ~j.options.skipPgCall
    BY <1>0, <2>1 DEF SoundJob
  <2>5. "return" \in desk => \A q \in Orders : refundedAmount'[q] = refunds'[q].pg
    BY <1>2, <2>2, <2>3, <2>4
  <2> QED BY <1>0, <2>3, <2>5, SoundAnswer DEF SoundBooks
<1>4. CASE ReturnStaffCommit(p)
  <2>1. j.step = "return" /\ j \in ReturnJobs
    BY <1>0, <1>4, JobKind DEF ReturnStaffCommit
  <2>2. /\ j.order \in Orders /\ j.amount \in Int /\ j.skipped \in BOOLEAN /\ ~j.skipped
        /\ "return" \in desk
    BY <1>0, <2>1 DEF ReturnJobs, JobKnows, SoundJob, SoundBooks
  <2>3. "return" \in desk => \A q \in Orders : refundedAmount'[q] = refunds'[q].pg
    <3>1. CASE j.complete
      <4>1. Record(j.order, j.amount, j.skipped)
        BY <1>4, <3>1 DEF ReturnStaffCommit
      <4> QED BY <1>2, <2>2, <4>1
    <3>2. CASE ~j.complete
      BY <1>4, <3>2 DEF ReturnStaffCommit, refundVars, SoundBooks
    <3> QED BY <3>1, <3>2
  <2> QED BY <1>0, <2>2, <2>3, SoundAnswer
<1> QED BY <1>1, <1>3, <1>4

LEMMA SoundCheckout ==
  ASSUME AfterInv, SoundBooks, ReturnsAlone, CheckoutStep
  PROVE  SoundBooks'
<1>1. UNCHANGED <<desk, job, returns, refunds>>
  BY DEF CheckoutStep
<1>2. "return" \in desk => HookProcs = {}
  BY DEF ReturnsAlone, AfterInv
<1>3. HookProcs = {} => refundedAmount' = refundedAmount
  BY RowShape DEF AfterInv, CheckoutFacts, CheckoutStep, RowMoves, Inserts, InsertOrder, Ends,
     CancelPendingOrder, Pays, FinalizePayment, Notes, Cancels, UserCancelCommit, GivesBack,
     RestoreStock, Ages, Expire, storeVars, refundVars
<1> QED BY <1>1, <1>2, <1>3 DEF SoundBooks, SoundJob

LEMMA SoundNext ==
  ASSUME AfterInv, AfterInv', Backed, SoundBooks, ReturnsAlone, IsFiniteSet(Desk),
         [AfterNext]_allVars
  PROVE  SoundBooks'
<1>1. CASE CheckoutStep
  BY <1>1, SoundCheckout
<1>2. ASSUME NEW p \in Admins, Staff(p) PROVE SoundBooks'
  <2>0. p \in Desk
    BY DEF Desk
  <2>1. CASE \/ \E o \in Orders : (\E t \in Statuses : PatchRead(p, o, t)) \/ BulkShipRead(p, o)
             \/ \E s \in Skus : EditRead(p, s)
    <3>1. \E t : t \in Statuses
      BY DEF Statuses
    <3> QED BY <2>0, <2>1, <3>1, SoundReads
  <2>2. CASE \E o \in Orders : /\ form[o] # None
                               /\ \E opt \in RefundOptions, a \in 1..form[o].total : RefundRead(p, o, a, opt)
    BY <2>0, <2>2, SoundReads
  <2>3. CASE \E r \in Returns, t \in {"APPROVED", "PICKED_UP", "COMPLETED", "REJECTED"} :
               \E skip \in BOOLEAN : ReturnStaffRead(p, r, t, skip)
    BY <2>0, <2>3, SoundReturnRead
  <2>4. CASE CallSucceeds(p) \/ CallFails(p) \/ PatchCommit(p) \/ EditCommit(p) \/ Cut(p)
    BY <2>0, <2>4, SoundCalls
  <2>5. CASE RefundCommit(p) \/ ReturnStaffCommit(p)
    BY <2>0, <2>5, SoundCommits
  <2> QED BY <1>2, <2>1, <2>2, <2>3, <2>4, <2>5 DEF Staff
<1>3. ASSUME NEW p \in Customers, Customer(p) PROVE SoundBooks'
  <2>0. p \in Desk
    BY DEF Desk
  <2>1. CASE \E o \in Orders, t \in {"RETURN", "EXCHANGE"}, units \in [Skus -> 0..MaxUnits] :
               RequestRead(p, o, units, t)
    BY <2>0, <2>1, SoundReads
  <2>2. CASE Cut(p)
    BY <2>0, <2>2, SoundCalls
  <2>3. CASE RequestCommit(p)
    BY <2>0, <2>3, SoundCommits
  <2> QED BY <1>3, <2>1, <2>2, <2>3 DEF Customer
<1>4. CASE UNCHANGED allVars
  BY <1>4 DEF allVars, afterVars, vars, storeVars, refundVars, SoundBooks, SoundJob
<1> QED BY <1>1, <1>2, <1>3, <1>4 DEF AfterNext

(* The steps of MoneyLife: an order is placed, ...                         *)
LEMMA MoneyPlaced ==
  ASSUME AfterInv, NEW o \in Orders, NEW f \in Forms, InsertOrder(o, f),
         UNCHANGED <<returned, refunds>>
  PROVE  MoneyStep
<1>1. form[o] = None /\ form' = [form EXCEPT ![o] = f] /\ form \in [Orders -> Forms \cup {None}]
  BY DEF InsertOrder, AfterInv, RowTypes
<1>2. f # None /\ f.total \in Nat
  BY FormFacts, NoneAssumption
<1>3. Booked' = Booked
  BY DEF Booked
<1>4. Costs[o] = 0 /\ Costs'[o] = f.total
  BY <1>1, <1>2 DEF Costs
<1>5. Costs' = [Costs EXCEPT ![o] = Costs'[o]]
  BY <1>1 DEF Costs
<1>6. CASE f.total = 0
  <2>1. Costs' = Costs
    BY <1>4, <1>5, <1>6 DEF Costs
  <2> QED BY <1>3, <2>1 DEF MoneyStep
<1>7. CASE f.total > 0
  <2>1. Money!Place(o)
    BY <1>3, <1>4, <1>5, <1>7 DEF Money!Place, Costs, Booked
  <2> QED BY <2>1 DEF MoneyStep, Money!Next
<1> QED BY <1>2, <1>6, <1>7

(* ... money goes back at the provider, ...                                *)
LEMMA MoneyGiven ==
  ASSUME AfterInv, UNCHANGED <<form, refunds>>, NEW o \in Orders, form[o] # None, NEW a \in Nat,
         returned' = [returned EXCEPT ![o] = a], returned[o] <= a, a <= form[o].total
  PROVE  MoneyStep
<1>1. Costs' = Costs /\ Booked' = Booked /\ Costs[o] = form[o].total
  BY DEF Costs, Booked
<1>2. returned \in [Orders -> Nat] /\ returned'[o] = a
  BY DEF AfterInv, MoneyTypes
<1>3. CASE a = returned[o]
  <2>1. returned' = returned
    BY <1>2, <1>3
  <2> QED BY <1>1, <2>1 DEF MoneyStep
<1>4. CASE a # returned[o]
  <2>1. returned[o] < returned'[o] /\ returned'[o] <= Costs[o]
        /\ returned' = [returned EXCEPT ![o] = returned'[o]]
    BY <1>1, <1>2, <1>4
  <2>2. Money!GiveBack(o)
    BY <1>1, <2>1 DEF Money!GiveBack, Costs, Booked
  <2> QED BY <2>2 DEF MoneyStep, Money!Next
<1> QED BY <1>3, <1>4

(* ... and goes on record.                                                 *)
LEMMA MoneyBooked ==
  ASSUME AfterInv, RefundsBacked', UNCHANGED <<form, returned>>,
         NEW o \in Orders, NEW a \in Nat, NEW skipped \in BOOLEAN, Record(o, a, skipped)
  PROVE  MoneyStep
<1>1. Costs' = Costs
  BY DEF Costs
<1>2. refunds \in [Orders -> [pg : Int, manual : Int]]
  BY DEF AfterInv
<1>3. CASE skipped
  <2>1. refunds' = [refunds EXCEPT ![o] = [refunds[o] EXCEPT !.manual = refunds[o].manual + a]]
    BY <1>3 DEF Record
  <2>2. \A q \in Orders : refunds'[q].pg = refunds[q].pg
    BY <1>2, <2>1
  <2>3. Booked' = Booked
    BY <2>2 DEF Booked
  <2> QED BY <1>1, <2>3 DEF MoneyStep
<1>4. CASE ~skipped
  <2>0. Record(o, a, FALSE) /\ a \in Int
    <3>1. skipped = FALSE
      BY <1>4
    <3>2. a \in Int
      OBVIOUS
    <3> QED BY <3>1, <3>2
  <2>1. \A q \in Orders : refunds'[q].pg = IF q = o THEN refunds[q].pg + a ELSE refunds[q].pg
    BY <2>0, RecordAdds
  <2>2. refunds'[o].pg <= returned[o]
    BY DEF RefundsBacked
  <2>3. refunds[o].pg \in Int
    BY <1>2
  <2>4. CASE a = 0
    <3>1. \A q \in Orders : refunds'[q].pg = refunds[q].pg
      BY <1>2, <2>1, <2>4
    <3>2. Booked' = Booked
      BY <3>1 DEF Booked
    <3> QED BY <1>1, <3>2 DEF MoneyStep
  <2>5. CASE a > 0
    <3>1. Booked' = [Booked EXCEPT ![o] = Booked'[o]]
      BY <2>1 DEF Booked
    <3>2. Booked[o] < Booked'[o] /\ Booked'[o] <= returned[o]
      BY <2>1, <2>2, <2>3, <2>5 DEF Booked
    <3>3. Money!Book(o)
      BY <1>1, <3>1, <3>2 DEF Money!Book, Costs, Booked
    <3> QED BY <3>3 DEF MoneyStep, Money!Next
  <2> QED BY <2>4, <2>5
<1> QED BY <1>3, <1>4

LEMMA MoneyStill ==
  ASSUME UNCHANGED <<form, returned, refunds>>
  PROVE  MoneyStep
BY DEF MoneyStep, Costs, Booked

LEMMA MoneyCheckout ==
  ASSUME AfterInv, CheckoutStep
  PROVE  MoneyStep
<1>1. CheckoutFacts /\ Next /\ MoneyFollows /\ refunds' = refunds
  BY DEF AfterInv, CheckoutFacts, CheckoutStep
<1>2. CASE UNCHANGED <<pg, returned>>
  <2>1. form' = form \/ Inserts
    BY <1>1, RowShape DEF RowMoves, Ends, CancelPendingOrder, Pays, FinalizePayment, Notes,
       HookUpdate, HookPartialUpdate, Cancels, UserCancelCommit, GivesBack, RestoreStock, Ages,
       Expire, storeVars, orderVars
  <2> QED BY <1>1, <1>2, <2>1, MoneyStill, MoneyPlaced DEF Inserts
<1>3. ASSUME NEW o \in Orders, NEW x \in PgStates, MoneyBack(o, x) PROVE MoneyStep
  <2>1. form' = form /\ form[o] # None
    BY <1>3 DEF MoneyBack, PgGoes, storeVars, orderVars
  <2> QED BY <1>1, <1>3, <2>1, MoneyGiven DEF MoneyBack
<1> QED BY <1>1, <1>2, <1>3, MoneyShape

LEMMA MoneyCalls ==
  ASSUME AfterInv, NEW p \in Desk, CallSucceeds(p) \/ CallFails(p)
  PROVE  MoneyStep
<1>1. UNCHANGED <<form, refunds>>
  BY DEF CallSucceeds, CallFails, storeVars, orderVars
<1>2. CASE UNCHANGED returned
  BY <1>1, <1>2, MoneyStill
<1>3. CASE PgReturns(job[p].order, job[p].amount)
  <2>1. PICK o \in Orders, a \in Nat : o = job[p].order /\ a = job[p].amount /\ form[o] # None
    BY CallJob DEF CallSucceeds, CallFails
  <2>2. returned' = [returned EXCEPT ![o] = returned[o] + a] /\ returned[o] + a <= form[o].total
    BY <1>3, <2>1 DEF PgReturns
  <2>3. returned[o] + a \in Nat /\ returned[o] <= returned[o] + a
    BY DEF AfterInv, MoneyTypes
  <2> QED BY <1>1, <2>1, <2>2, <2>3, MoneyGiven
<1> QED BY <1>2, <1>3 DEF CallSucceeds, CallFails

LEMMA MoneyCommits ==
  ASSUME AfterInv, RefundsBacked', SoundBooks, NEW p \in Desk,
         RefundCommit(p) \/ ReturnStaffCommit(p)
  PROVE  MoneyStep
<1> DEFINE j == job[p]
<1>0. j \in Jobs /\ SoundJob(j) /\ UNCHANGED <<form, returned>>
  BY DEF RefundCommit, ReturnStaffCommit, AfterInv, JobsKnow, SoundBooks
<1>1. CASE RefundCommit(p)
  <2>1. j \in RefundJobs
    BY <1>0, <1>1, JobKind DEF RefundCommit
  <2>2. j.order \in Orders /\ j.amount \in Nat /\ j.options.skipPgCall \in BOOLEAN
    BY <2>1 DEF RefundJobs
  <2>3. Record(j.order, j.amount, j.options.skipPgCall)
    BY <1>1 DEF RefundCommit
  <2> QED BY <1>0, <2>2, <2>3, MoneyBooked
<1>2. CASE ReturnStaffCommit(p)
  <2>1. j.step = "return" /\ j \in ReturnJobs
    BY <1>0, <1>2, JobKind DEF ReturnStaffCommit
  <2>2. j.order \in Orders /\ j.amount \in Nat /\ j.skipped \in BOOLEAN
    BY <1>0, <2>1 DEF ReturnJobs, SoundJob
  <2>3. CASE j.complete
    <3>1. Record(j.order, j.amount, j.skipped)
      BY <1>2, <2>3 DEF ReturnStaffCommit
    <3> QED BY <1>0, <2>2, <3>1, MoneyBooked
  <2>4. CASE ~j.complete
    BY <1>0, <1>2, <2>4, MoneyStill DEF ReturnStaffCommit
  <2> QED BY <2>3, <2>4
<1> QED BY <1>1, <1>2

LEMMA MoneyNext ==
  ASSUME AfterInv, RefundsBacked', SoundBooks, [AfterNext]_allVars
  PROVE  MoneyStep
<1>1. CASE CheckoutStep
  BY <1>1, MoneyCheckout
<1>2. ASSUME NEW p \in Desk, Staff(p) \/ Customer(p) PROVE MoneyStep
  <2>1. CASE CallSucceeds(p) \/ CallFails(p)
    BY <2>1, MoneyCalls
  <2>2. CASE RefundCommit(p) \/ ReturnStaffCommit(p)
    BY <2>2, MoneyCommits
  <2>3. ASSUME ~CallSucceeds(p), ~CallFails(p), ~RefundCommit(p), ~ReturnStaffCommit(p)
        PROVE  UNCHANGED <<form, returned, refunds>>
    BY <1>2, <2>3 DEF Staff, Customer, PatchRead, BulkShipRead, RefundRead, ReturnStaffRead, EditRead,
       PatchCommit, EditCommit, Cut, RequestRead, RequestCommit, vars, storeVars, orderVars
  <2> QED BY <2>1, <2>2, <2>3, MoneyStill
<1>3. CASE UNCHANGED allVars
  BY <1>3, MoneyStill DEF allVars, afterVars, vars, storeVars, orderVars
<1> QED BY <1>1, <1>2, <1>3 DEF AfterNext, Desk

(* The money of every order goes the way of MoneyLife: it goes back at the *)
(* provider before it is on record, never beyond the price, and nothing of *)
(* it is undone, for every number of refunds, returns, customers and       *)
(* notices in flight, whatever calls fail or are cut off                   *)
(* (admin/refunds/route.ts line 61, admin/returns/[id]/route.ts line 62).  *)
(* The return screen is used without manual refunds and notices: they can  *)
(* make the rest of a return negative.                                     *)
THEOREM MoneyGoesBackFirst ==
  ASSUME IsFiniteSet(Skus), IsFiniteSet(Admins \cup Customers), ReturnsAlone
  PROVE  AfterSpec => MoneyLifeKept
<1>0. IsFiniteSet(Desk)
  BY DEF Desk
<1>1. AfterInit => Money!Init /\ SoundBooks
  <2> SUFFICES ASSUME AfterInit PROVE Money!Init /\ SoundBooks
    OBVIOUS
  <2>1. /\ form = [o \in Orders |-> None] /\ returned = [o \in Orders |-> 0]
        /\ refunds = [o \in Orders |-> [pg |-> 0, manual |-> 0]]
        /\ refundedAmount = [o \in Orders |-> 0]
        /\ returns = [r \in Returns |-> None] /\ job = [p \in Desk |-> Idle]
    BY DEF AfterInit, Init, StoreInit, Desk
  <2>2. Money!Init
    BY <2>1 DEF Money!Init
  <2>3. SoundBooks
    BY <2>1, IdleSound DEF SoundBooks
  <2> QED BY <2>2, <2>3
<1>2. AfterInv /\ AfterInv' /\ Backed /\ SoundBooks /\ [AfterNext]_allVars => SoundBooks'
  BY <1>0, SoundNext
<1>3. AfterInv /\ RefundsBacked' /\ SoundBooks /\ [AfterNext]_allVars
        => [Money!Next]_<<Costs, returned, Booked>>
  BY MoneyNext DEF MoneyStep
<1> QED BY <1>0, <1>1, <1>2, <1>3, AfterAlways, BackedAlways, RefundsAreBacked, PTL
        DEF AfterSpec, MoneyLifeKept, Money!Spec, Money!vars, Costs, Booked
=============================================================================
