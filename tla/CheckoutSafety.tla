--------------------------- MODULE CheckoutSafety ---------------------------
(***************************************************************************)
(* More theorems about Checkout: a paid order stays paid until it is       *)
(* refunded; in a shop that takes Toss only a coupon is never held by an   *)
(* order that has ended; the payment flow implements CouponLife; and       *)
(* nothing is sold twice.  The first two need what a cancellation has seen *)
(* before its unguarded update of the status, and that it stays true; the  *)
(* last needs an account, order by order, of the units that left the       *)
(* stock.                                                                  *)
(***************************************************************************)
EXTENDS CheckoutProofs, CheckoutClaims, FiniteSums

(* The requests that will update a status without looking at it again.     *)
Unguarded == {"hookCancelPaid", "hookCancelUnpaid", "hookPartial", "userCancel"}

(* A step leaves the requests alone, or lets one of them do something else *)
(* next, or starts an unguarded update.                                    *)
Quiet == UNCHANGED <<pc, at>>
Moves == \E p \in Procs, l \in ({"idle", "create"} \cup OrderSteps) \ Unguarded,
            a \in Orders \cup {None} :
           pc' = [pc EXCEPT ![p] = l] /\ at' = [at EXCEPT ![p] = a]
Starts == \E p \in Procs, o \in Orders :
            HookCancelled(p, o) \/ HookPartial(p, o) \/ UserCancelRead(p, o)

LEMMA StepShape ==
  ASSUME Inv, [Next]_vars
  PROVE  Quiet \/ Moves \/ Starts
<1> USE DEF Quiet
<1>0. at \in [Procs -> Orders \cup {None}] /\ pc \in [Procs -> {"idle", "create"} \cup OrderSteps]
  BY DEF Inv, ProcTypes
<1>1. ASSUME NEW p \in Procs, Done(p) PROVE Moves
  BY <1>1 DEF Done, Moves, OrderSteps, Unguarded
<1>2. ASSUME NEW p \in Procs, NEW l \in OrderSteps \ Unguarded, Goto(p, l) PROVE Moves
  <2>1. at' = [at EXCEPT ![p] = at[p]] /\ at[p] \in Orders \cup {None}
    BY <1>0, <1>2 DEF Goto
  <2> QED BY <1>2, <2>1 DEF Goto, Moves
<1>3. ASSUME NEW p \in Procs, NEW o \in Orders, NEW l \in OrderSteps \ Unguarded, Start(p, o, l)
      PROVE  Moves
  BY <1>3 DEF Start, Moves
<1>4. ASSUME NEW p \in Procs, Create(p) PROVE Quiet \/ Moves
  <2>1. CASE \E f \in Forms : CreateRead(p, f)
    <3>1. pc' = [pc EXCEPT ![p] = "create"] /\ at' = [at EXCEPT ![p] = at[p]]
      BY <1>0, <2>1 DEF CreateRead
    <3>2. "create" \in ({"idle", "create"} \cup OrderSteps) \ Unguarded
      BY DEF Unguarded
    <3> QED BY <1>0, <3>1, <3>2 DEF Moves
  <2>2. CASE CreateCommit(p) \/ CreateRefused(p)
    BY <1>1, <2>2 DEF CreateCommit, CreateRefused
  <2> QED BY <1>4, <2>1, <2>2 DEF Create
<1>5. ASSUME NEW p \in Procs, Return(p) PROVE Quiet \/ Moves
  <2>0. {"approve", "finalize", "commit", "cancelPayment", "netCancel", "cancelOrder"}
          \subseteq OrderSteps \ Unguarded
    BY DEF OrderSteps, Unguarded
  <2>1. CASE \E o \in Orders : ReturnRead(p, o) \/ ReturnClosed(p, o)
    BY <1>3, <2>0, <2>1 DEF ReturnRead, ReturnClosed, procVars
  <2>2. CASE ReturnApproved(p) \/ ReturnRefused(p) \/ ReturnFinalizeRead(p) \/ ReturnFinalizeFails(p)
    BY <1>1, <1>2, <2>0, <2>2
       DEF ReturnApproved, ReturnRefused, ReturnFinalizeRead, ReturnFinalizeFails
  <2>3. CASE ReturnMismatch(p) \/ ReturnLost(p) \/ ReturnCancelPayment(p)
    BY <1>1, <1>2, <2>0, <2>3 DEF ReturnMismatch, ReturnLost, ReturnCancelPayment
  <2>4. CASE ReturnFinalizeCommit(p) \/ ReturnCancelOrder(p)
    BY <1>1, <2>4 DEF ReturnFinalizeCommit, ReturnCancelOrder
  <2> QED BY <1>5, <2>1, <2>2, <2>3, <2>4 DEF Return
<1>6. ASSUME NEW p \in Procs, Hook(p) \/ UserCancel(p) \/ Restore(p) PROVE Moves \/ Starts
  <2>0. {"hookCommit", "restoreRead", "restore"} \subseteq OrderSteps \ Unguarded
    BY DEF OrderSteps, Unguarded
  <2>1. CASE \E o \in Orders : HookDone(p, o)
    BY <1>3, <2>0, <2>1 DEF HookDone
  <2>2. CASE HookFinalize(p) \/ HookPartialUpdate(p) \/ RestoreCommit(p)
    BY <1>1, <2>2 DEF HookFinalize, HookPartialUpdate, RestoreCommit
  <2>3. CASE HookUpdate(p) \/ UserCancelCommit(p)
    BY <1>1, <1>2, <2>0, <2>3 DEF HookUpdate, UserCancelCommit
  <2>4. CASE RestoreRead(p)
    <3>1. pc' = [pc EXCEPT ![p] = "restore"] /\ at' = [at EXCEPT ![p] = at[p]]
      BY <1>0, <2>4 DEF RestoreRead
    <3> QED BY <1>0, <2>0, <3>1 DEF Moves
  <2>5. CASE \E o \in Orders : HookCancelled(p, o) \/ HookPartial(p, o) \/ UserCancelRead(p, o)
    BY <2>5 DEF Starts
  <2> QED BY <1>6, <2>1, <2>2, <2>3, <2>4, <2>5 DEF Hook, UserCancel, Restore
<1>7. ASSUME NEW p \in Procs, Crash(p) PROVE Moves
  BY <1>1, <1>7 DEF Crash
<1>8. ASSUME NEW o \in Orders,
             HookClose(o) \/ UserCancelPending(o) \/ Expire(o) \/ CronExpire(o) \/ ConsoleCancel(o)
      PROVE  Quiet
  BY <1>8 DEF HookClose, UserCancelPending, Expire, CronExpire, ConsoleCancel, procVars
<1>9. CASE UNCHANGED vars
  BY <1>9 DEF vars, procVars
<1> QED BY <1>4, <1>5, <1>6, <1>7, <1>8, <1>9 DEF Next, Procs

-----------------------------------------------------------------------------
(* A payment that was cancelled, in part or in whole, stays so.            *)
Reversed(o) == pg[o] \in {"partial", "cancelled"}

(* A cancellation on the notice of a provider acts on a reversed payment.  *)
NoticeSeen == \A p \in Procs : pc[p] \in Unguarded \ {"userCancel"} => Reversed(at[p])

LEMMA ReversedStays ==
  ASSUME Inv, [Next]_vars, NEW o \in Orders, Reversed(o)
  PROVE  pg'[o] \in {"partial", "cancelled"}
<1> USE DEF Reversed
<1>1. pg \in [Orders -> PgStates]
  BY DEF Inv, PgTypes
<1>2. CASE pg' = pg
  BY <1>2
<1>3. ASSUME NEW p \in Procs, Return(p) PROVE pg'[o] \in {"partial", "cancelled"}
  <2>1. CASE ReturnApproved(p) \/ ReturnMismatch(p) \/ ReturnRefused(p) \/ ReturnLost(p)
    BY <1>1, <2>1 DEF ReturnApproved, ReturnMismatch, ReturnRefused, ReturnLost, Approve
  <2>2. CASE ReturnCancelPayment(p)
    BY <1>1, <2>2 DEF ReturnCancelPayment
  <2>3. CASE pg' = pg
    BY <2>3
  <2> QED
    BY <1>3, <2>1, <2>2, <2>3
    DEF Return, ReturnRead, ReturnClosed, ReturnFinalizeRead, ReturnFinalizeCommit,
        ReturnFinalizeFails, ReturnCancelOrder
<1>4. ASSUME NEW q \in Orders, ConsoleCancel(q) PROVE pg'[o] \in {"partial", "cancelled"}
  BY <1>1, <1>4, ConsoleAssumption DEF ConsoleCancel
<1>5. ASSUME NEW p \in Procs, Create(p) \/ Hook(p) \/ UserCancel(p) \/ Restore(p) \/ Crash(p)
      PROVE  pg' = pg
  BY <1>5 DEF Create, CreateRead, CreateCommit, CreateRefused, Hook, HookDone, HookCancelled,
              HookPartial, HookFinalize, HookUpdate, HookPartialUpdate, UserCancel,
              UserCancelRead, UserCancelCommit, Restore, RestoreRead, RestoreCommit, Crash
<1>6. ASSUME NEW q \in Orders, HookClose(q) \/ UserCancelPending(q) \/ Expire(q) \/ CronExpire(q)
      PROVE  pg' = pg
  BY <1>6 DEF HookClose, UserCancelPending, Expire, CronExpire
<1>7. CASE UNCHANGED vars
  BY <1>2, <1>7 DEF vars
<1> QED BY <1>2, <1>3, <1>4, <1>5, <1>6, <1>7 DEF Next, Procs

LEMMA NoticeSeenStep ==
  ASSUME Inv, NoticeSeen, [Next]_vars
  PROVE  NoticeSeen'
<1> SUFFICES ASSUME NEW p \in Procs, pc'[p] \in Unguarded \ {"userCancel"}
             PROVE  pg'[at'[p]] \in {"partial", "cancelled"}
  BY DEF NoticeSeen, Reversed
<1>1. pc \in [Procs -> {"idle", "create"} \cup OrderSteps] /\ at \in [Procs -> Orders \cup {None}]
  BY DEF Inv, ProcTypes
<1>2. CASE pc'[p] = pc[p] /\ at'[p] = at[p]
  <2>1. pc[p] \in OrderSteps
    BY <1>2 DEF Unguarded, OrderSteps
  <2>2. at[p] \in Orders /\ Reversed(at[p])
    BY <1>2, <2>1, AtFacts DEF NoticeSeen
  <2> QED BY <1>2, <2>2, ReversedStays
<1>3. CASE Moves
  <2>1. PICK q \in Procs, l \in ({"idle", "create"} \cup OrderSteps) \ Unguarded,
             a \in Orders \cup {None} :
               pc' = [pc EXCEPT ![q] = l] /\ at' = [at EXCEPT ![q] = a]
    BY <1>3 DEF Moves
  <2>2. q # p
    BY <1>1, <2>1
  <2> QED BY <1>1, <1>2, <2>1, <2>2
<1>4. CASE Starts
  <2>1. PICK q \in Procs, o \in Orders :
             HookCancelled(q, o) \/ HookPartial(q, o) \/ UserCancelRead(q, o)
    BY <1>4 DEF Starts
  <2>2. PICK l \in Unguarded : pc' = [pc EXCEPT ![q] = l] /\ at' = [at EXCEPT ![q] = o]
    BY <2>1 DEF HookCancelled, HookPartial, UserCancelRead, Start, Unguarded
  <2>3. CASE q # p
    BY <1>1, <1>2, <2>2, <2>3
  <2>4. CASE q = p
    <3>1. HookCancelled(q, o) \/ HookPartial(q, o)
      BY <1>1, <2>1, <2>4 DEF UserCancelRead, Start
    <3>2. Reversed(o) /\ pg' = pg
      BY <3>1 DEF HookCancelled, HookPartial, Reversed
    <3> QED BY <1>1, <2>2, <2>4, <3>2 DEF Reversed
  <2> QED BY <2>3, <2>4
<1>5. CASE Quiet
  BY <1>2, <1>5 DEF Quiet
<1> QED BY <1>3, <1>4, <1>5, StepShape
-----------------------------------------------------------------------------
(* How the status of an order changes: it is created, it is paid, it is    *)
(* cancelled while it waits, or it gets an unguarded update.               *)
Created(o)   == status[o] = "NONE" /\ status'[o] = "PENDING"
Settled(o)   == status'[o] = "PAID"
Abandoned(o) == status[o] = "PENDING" /\ status'[o] = "CANCELLED"
Noticed(o)   == /\ \E p \in Procs : pc[p] \in Unguarded \ {"userCancel"} /\ at[p] = o
                /\ status'[o] \in {"CANCELLED", "PARTIALLY_REFUNDED"}
Requested(o) == /\ \E p \in Procs : pc[p] = "userCancel" /\ at[p] = o
                /\ status'[o] = "CANCELLED"
                /\ refundRequests'[o] = refundRequests[o] + 1

LEMMA StatusShape ==
  ASSUME Inv, [Next]_vars, NEW o \in Orders
  PROVE  \/ status'[o] = status[o]
         \/ Created(o) \/ Settled(o) \/ Abandoned(o) \/ Noticed(o) \/ Requested(o)
<1> USE DEF Created, Settled, Abandoned, Noticed, Requested
<1> DEFINE Changes == \/ status'[o] = status[o]
                      \/ Created(o) \/ Settled(o) \/ Abandoned(o) \/ Noticed(o) \/ Requested(o)
<1>0. status \in [Orders -> Statuses] /\ refundRequests \in [Orders -> Nat]
  BY DEF Inv, StoreInv, StoreTypeOK
<1>1. CASE UNCHANGED storeVars
  BY <1>1 DEF storeVars, orderVars
<1>2. ASSUME NEW a \in Orders, CancelPendingOrder(a) PROVE Changes
  BY <1>0, <1>2 DEF CancelPendingOrder, storeVars, orderVars
<1>3. ASSUME NEW p \in Procs, Create(p) PROVE Changes
  <2>1. CASE \E a \in Orders : InsertOrder(a, draft[p])
    BY <1>0, <2>1 DEF InsertOrder
  <2> QED BY <1>1, <1>3, <2>1 DEF Create, CreateRead, CreateCommit, CreateRefused
<1>4. ASSUME NEW p \in Procs, ReturnFinalizeCommit(p) \/ HookFinalize(p) PROVE Changes
  BY <1>0, <1>4 DEF ReturnFinalizeCommit, HookFinalize, FinalizePayment
<1>5. ASSUME NEW p \in Procs, Return(p) PROVE Changes
  <2>1. CASE ReturnCancelOrder(p)
    <3>1. at[p] \in Orders
      BY <2>1, AtFacts DEF ReturnCancelOrder, OrderSteps
    <3> QED BY <1>2, <2>1, <3>1 DEF ReturnCancelOrder
  <2> QED BY <1>1, <1>4, <1>5, <2>1
          DEF Return, ReturnRead, ReturnClosed, ReturnApproved, ReturnMismatch, ReturnRefused,
              ReturnLost, ReturnFinalizeRead, ReturnFinalizeFails, ReturnCancelPayment
<1>6. ASSUME NEW p \in Procs, Hook(p) PROVE Changes
  <2>1. CASE HookUpdate(p) \/ HookPartialUpdate(p)
    BY <1>0, <2>1 DEF HookUpdate, HookPartialUpdate, Unguarded
  <2> QED BY <1>1, <1>4, <1>6, <2>1 DEF Hook, HookDone, HookCancelled, HookPartial
<1>7. ASSUME NEW p \in Procs, UserCancel(p) PROVE Changes
  <2>1. CASE UserCancelCommit(p)
    BY <1>0, <2>1 DEF UserCancelCommit
  <2> QED BY <1>1, <1>7, <2>1 DEF UserCancel, UserCancelRead
<1>8. ASSUME NEW p \in Procs, Restore(p) \/ Crash(p) PROVE Changes
  BY <1>1, <1>8 DEF Restore, RestoreRead, RestoreCommit, RestoreStock, Crash, orderVars
<1>9. ASSUME NEW a \in Orders,
             HookClose(a) \/ UserCancelPending(a) \/ Expire(a) \/ CronExpire(a) \/ ConsoleCancel(a)
      PROVE  Changes
  BY <1>1, <1>2, <1>9 DEF HookClose, UserCancelPending, Expire, CronExpire, ConsoleCancel
<1>10. CASE UNCHANGED vars
  BY <1>1, <1>10 DEF vars
<1> QED BY <1>3, <1>5, <1>6, <1>7, <1>8, <1>9, <1>10 DEF Next, Procs

LEMMA PaidStep ==
  ASSUME Inv, NoticeSeen, [Next]_vars, NEW o \in Orders, status[o] = "PAID", status'[o] # "PAID"
  PROVE  Reversed(o) \/ refundRequests'[o] > refundRequests[o]
<1>1. CASE Noticed(o)
  BY <1>1 DEF Noticed, NoticeSeen
<1>2. CASE Requested(o)
  BY <1>2 DEF Requested, Inv, StoreInv, StoreTypeOK
<1> QED BY <1>1, <1>2, StatusShape DEF Created, Settled, Abandoned

(* A paid order stays paid: only a cancelled payment or a cancellation     *)
(* with a refund request ends it, whatever races with the payment.         *)
THEOREM PaidStays == Spec => PaidUntilRefund
<1>1. Init => NoticeSeen
  BY DEF Init, NoticeSeen, Unguarded
<1>2. Inv /\ NoticeSeen /\ [Next]_vars => NoticeSeen'
  BY NoticeSeenStep
<1>3. Inv /\ NoticeSeen /\ [Next]_vars
        => [\A o \in Orders : status[o] = "PAID" /\ status'[o] # "PAID" =>
              pg[o] \in {"partial", "cancelled"} \/ refundRequests'[o] > refundRequests[o]]_vars
  BY PaidStep DEF Reversed
<1> QED BY <1>1, <1>2, <1>3, InvInductive, PTL DEF Spec, PaidUntilRefund
-----------------------------------------------------------------------------
(* A shop in which no notice of a provider reaches a waiting order.        *)
TossOnly == /\ \A f \in Forms : f.provider = "TOSS"
            /\ ConsoleCancels \subseteq {"cancelled"}

NoPartial == \A o \in Orders : pg[o] # "partial"

(* An unguarded update hits an order that no longer waits.                 *)
Waits(o)   == status[o] \in {"NONE", "PENDING"}
ClosedSeen == \A p \in Procs : pc[p] \in Unguarded => ~Waits(at[p])

LEMMA NoPartialStep ==
  ASSUME TossOnly, Inv, NoPartial, [Next]_vars
  PROVE  NoPartial'
<1> USE DEF NoPartial
<1>1. pg \in [Orders -> PgStates]
  BY DEF Inv, PgTypes
<1>2. ASSUME NEW p \in Procs, Return(p) PROVE NoPartial'
  <2>1. CASE ReturnApproved(p) \/ ReturnMismatch(p) \/ ReturnRefused(p) \/ ReturnLost(p)
    BY <1>1, <2>1 DEF ReturnApproved, ReturnMismatch, ReturnRefused, ReturnLost, Approve
  <2>2. CASE ReturnCancelPayment(p)
    BY <1>1, <2>2 DEF ReturnCancelPayment
  <2> QED
    BY <1>2, <2>1, <2>2
    DEF Return, ReturnRead, ReturnClosed, ReturnFinalizeRead, ReturnFinalizeCommit,
        ReturnFinalizeFails, ReturnCancelOrder
<1>3. ASSUME NEW o \in Orders, ConsoleCancel(o) PROVE NoPartial'
  BY <1>1, <1>3 DEF ConsoleCancel, TossOnly
<1>4. ASSUME NEW p \in Procs, Create(p) \/ Hook(p) \/ UserCancel(p) \/ Restore(p) \/ Crash(p)
      PROVE  NoPartial'
  BY <1>4 DEF Create, CreateRead, CreateCommit, CreateRefused, Hook, HookDone, HookCancelled,
              HookPartial, HookFinalize, HookUpdate, HookPartialUpdate, UserCancel,
              UserCancelRead, UserCancelCommit, Restore, RestoreRead, RestoreCommit, Crash
<1>5. ASSUME NEW o \in Orders, HookClose(o) \/ UserCancelPending(o) \/ Expire(o) \/ CronExpire(o)
      PROVE  NoPartial'
  BY <1>5 DEF HookClose, UserCancelPending, Expire, CronExpire
<1>6. CASE UNCHANGED vars
  BY <1>6 DEF vars
<1> QED BY <1>2, <1>3, <1>4, <1>5, <1>6 DEF Next, Procs

LEMMA ClosedStays ==
  ASSUME Inv, [Next]_vars, NEW o \in Orders, ~Waits(o)
  PROVE  status'[o] \notin {"NONE", "PENDING"}
BY StatusShape DEF Waits, Created, Settled, Abandoned, Noticed, Requested

LEMMA ClosedSeenStep ==
  ASSUME TossOnly, Inv, NoPartial, ClosedSeen, [Next]_vars
  PROVE  ClosedSeen'
<1> SUFFICES ASSUME NEW p \in Procs, pc'[p] \in Unguarded
             PROVE  status'[at'[p]] \notin {"NONE", "PENDING"}
  BY DEF ClosedSeen, Waits
<1>1. pc \in [Procs -> {"idle", "create"} \cup OrderSteps] /\ at \in [Procs -> Orders \cup {None}]
  BY DEF Inv, ProcTypes
<1>2. CASE pc'[p] = pc[p] /\ at'[p] = at[p]
  <2>1. pc[p] \in OrderSteps
    BY <1>2 DEF Unguarded, OrderSteps
  <2>2. at[p] \in Orders /\ ~Waits(at[p])
    BY <1>2, <2>1, AtFacts DEF ClosedSeen
  <2> QED BY <1>2, <2>2, ClosedStays
<1>3. CASE Moves
  <2>1. PICK q \in Procs, l \in ({"idle", "create"} \cup OrderSteps) \ Unguarded,
             a \in Orders \cup {None} :
               pc' = [pc EXCEPT ![q] = l] /\ at' = [at EXCEPT ![q] = a]
    BY <1>3 DEF Moves
  <2>2. q # p
    BY <1>1, <2>1
  <2> QED BY <1>1, <1>2, <2>1, <2>2
<1>4. CASE Starts
  <2>1. PICK q \in Procs, o \in Orders :
             HookCancelled(q, o) \/ HookPartial(q, o) \/ UserCancelRead(q, o)
    BY <1>4 DEF Starts
  <2>2. PICK l \in Unguarded : pc' = [pc EXCEPT ![q] = l] /\ at' = [at EXCEPT ![q] = o]
    BY <2>1 DEF HookCancelled, HookPartial, UserCancelRead, Start, Unguarded
  <2>3. CASE q # p
    BY <1>1, <1>2, <2>2, <2>3
  <2>4. CASE q = p
    <3>1. ~HookPartial(q, o)
      BY DEF HookPartial, NoPartial
    <3>2. ASSUME HookCancelled(q, o) PROVE ~Waits(o)
      <4>1. form[o] \in Forms
        BY <3>2 DEF HookCancelled, Inv, StoreInv, StoreTypeOK
      <4>2. form[o].provider = "TOSS" /\ "partial" \notin ConsoleCancels
        BY <4>1 DEF TossOnly
      <4> QED BY <3>2, <4>2 DEF HookCancelled, Waits
    <3>3. ~Waits(o)
      BY <2>1, <3>1, <3>2 DEF UserCancelRead, Waits
    <3>4. status' = status
      BY <2>1 DEF HookCancelled, HookPartial, UserCancelRead, storeVars, orderVars
    <3> QED BY <1>1, <2>2, <2>4, <3>3, <3>4 DEF Waits
  <2> QED BY <2>3, <2>4
<1>5. CASE Quiet
  BY <1>2, <1>5 DEF Quiet
<1> QED BY <1>3, <1>4, <1>5, StepShape
(* The holds survive a step that changes no order and no hold ...          *)
LEMMA HoldFrame ==
  ASSUME Inv, HoldOfPending, UNCHANGED <<status, form, hold>>
  PROVE  HoldOfPending'
BY DEF HoldOfPending

(* ... and the transactions that do.                                       *)
LEMMA HoldTransactions ==
  ASSUME Inv, HoldOfPending, NEW o \in Orders,
         (\E f \in Forms : InsertOrder(o, f)) \/ CancelPendingOrder(o) \/ FinalizePayment(o)
  PROVE  HoldOfPending'
<1>0. /\ status \in [Orders -> Statuses] /\ form \in [Orders -> Forms \cup {None}]
      /\ hold \in [Coupons -> Orders \cup {None}]
  BY DEF Inv, StoreInv, StoreTypeOK
<1>1. ASSUME NEW f \in Forms, InsertOrder(o, f) PROVE HoldOfPending'
  <2>1. f.coupon \in Coupons \cup {None}
    BY FormFacts
  <2> SUFFICES ASSUME NEW c \in Coupons, hold'[c] # None
               PROVE  status'[hold'[c]] = "PENDING" /\ form'[hold'[c]].coupon = c
    BY DEF HoldOfPending
  <2>2. CASE c = f.coupon
    BY <1>0, <1>1, <2>2, NoneAssumption DEF InsertOrder
  <2>3. CASE c # f.coupon
    <3>1. hold'[c] = hold[c]
      BY <1>0, <1>1, <2>1, <2>3 DEF InsertOrder
    <3>2. hold[c] \in Orders /\ status[hold[c]] = "PENDING" /\ form[hold[c]].coupon = c
      BY <1>0, <3>1 DEF HoldOfPending
    <3> QED BY <1>0, <1>1, <3>1, <3>2 DEF InsertOrder
  <2> QED BY <2>2, <2>3
<1>2. CASE CancelPendingOrder(o)
  <2>1. CASE status[o] # "PENDING"
    BY <1>2, <2>1, HoldFrame DEF CancelPendingOrder, storeVars, orderVars, couponVars
  <2>2. CASE status[o] = "PENDING"
    BY <1>0, <1>2, <2>2 DEF CancelPendingOrder, HoldOfPending
  <2> QED BY <2>1, <2>2
<1>3. CASE FinalizePayment(o)
  <2>1. /\ status' = [status EXCEPT ![o] = "PAID"] /\ form' = form
        /\ MarkCouponUsed(o, form[o].coupon)
    BY <1>3 DEF FinalizePayment
  <2> SUFFICES ASSUME NEW c \in Coupons, hold'[c] # None
               PROVE  status'[hold'[c]] = "PENDING" /\ form'[hold'[c]].coupon = c
    BY DEF HoldOfPending
  <2>2. hold'[c] = hold[c]
    BY <1>0, <2>1 DEF MarkCouponUsed
  <2>3. hold[c] \in Orders /\ status[hold[c]] = "PENDING" /\ form[hold[c]].coupon = c
    BY <1>0, <2>2 DEF HoldOfPending
  <2>4. hold[c] # o
    BY <1>0, <2>1, <2>3, NoneAssumption DEF MarkCouponUsed
  <2> QED BY <1>0, <2>1, <2>2, <2>3, <2>4
<1> QED BY <1>1, <1>2, <1>3

(* ... and the unguarded updates, which hit no order that waits.           *)
LEMMA HoldUpdates ==
  ASSUME Inv, HoldOfPending, ClosedSeen, NEW p \in Procs,
         HookUpdate(p) \/ HookPartialUpdate(p) \/ UserCancelCommit(p)
  PROVE  HoldOfPending'
<1>1. at[p] \in Orders /\ status[at[p]] # "PENDING"
  BY AtFacts DEF HookUpdate, HookPartialUpdate, UserCancelCommit, OrderSteps, Unguarded,
                 ClosedSeen, Waits
<1>2. \A o \in Orders : status[o] = "PENDING" => status'[o] = "PENDING"
  BY <1>1 DEF HookUpdate, HookPartialUpdate, UserCancelCommit, Inv, StoreInv, StoreTypeOK
<1>3. hold' = hold /\ form' = form
  BY DEF HookUpdate, HookPartialUpdate, UserCancelCommit, couponVars
<1> QED BY <1>2, <1>3 DEF HoldOfPending, Inv, StoreInv, StoreTypeOK

LEMMA HoldStep ==
  ASSUME Inv, HoldOfPending, ClosedSeen, [Next]_vars
  PROVE  HoldOfPending'
<1>1. CASE UNCHANGED storeVars
  BY <1>1, HoldFrame DEF storeVars, orderVars, couponVars
<1>2. ASSUME NEW p \in Procs, Create(p) PROVE HoldOfPending'
  <2>1. CASE CreateCommit(p)
    BY <2>1, HoldTransactions DEF CreateCommit, Inv, ProcInv
  <2> QED BY <1>1, <1>2, <2>1 DEF Create, CreateRead, CreateRefused
<1>3. ASSUME NEW p \in Procs, ReturnFinalizeCommit(p) \/ HookFinalize(p) \/ ReturnCancelOrder(p)
      PROVE  HoldOfPending'
  <2>1. at[p] \in Orders
    BY <1>3, AtFacts DEF ReturnFinalizeCommit, HookFinalize, ReturnCancelOrder, OrderSteps
  <2> QED BY <1>3, <2>1, HoldTransactions
          DEF ReturnFinalizeCommit, HookFinalize, ReturnCancelOrder
<1>4. ASSUME NEW p \in Procs, Return(p) PROVE HoldOfPending'
  BY <1>1, <1>3, <1>4
     DEF Return, ReturnRead, ReturnClosed, ReturnApproved, ReturnMismatch, ReturnRefused,
         ReturnLost, ReturnFinalizeRead, ReturnFinalizeFails, ReturnCancelPayment
<1>5. ASSUME NEW p \in Procs, Hook(p) \/ UserCancel(p) PROVE HoldOfPending'
  BY <1>1, <1>3, <1>5, HoldUpdates
     DEF Hook, HookDone, HookCancelled, HookPartial, UserCancel, UserCancelRead
<1>6. ASSUME NEW p \in Procs, Restore(p) \/ Crash(p) PROVE HoldOfPending'
  <2>1. UNCHANGED <<status, form, hold>>
    BY <1>6 DEF Restore, RestoreRead, RestoreCommit, RestoreStock, Crash, storeVars, orderVars,
                couponVars
  <2> QED BY <2>1, HoldFrame
<1>7. ASSUME NEW o \in Orders, HookClose(o) \/ UserCancelPending(o) \/ CronExpire(o)
      PROVE  HoldOfPending'
  BY <1>7, HoldTransactions DEF HookClose, UserCancelPending, CronExpire
<1>8. ASSUME NEW o \in Orders, Expire(o) \/ ConsoleCancel(o) PROVE HoldOfPending'
  <2>1. UNCHANGED <<status, form, hold>>
    BY <1>8 DEF Expire, ConsoleCancel, storeVars, orderVars, couponVars
  <2> QED BY <2>1, HoldFrame
<1>9. CASE UNCHANGED vars
  BY <1>1, <1>9 DEF vars
<1> QED BY <1>2, <1>4, <1>5, <1>6, <1>7, <1>8, <1>9 DEF Next, Procs

(* In a shop that takes Toss only, and cancels whole payments in Toss'     *)
(* console, a hold always belongs to an order that waits for its payment.  *)
THEOREM HoldsOfToss ==
  ASSUME TossOnly
  PROVE  Spec => []HoldOfPending
<1> DEFINE Held == NoPartial /\ ClosedSeen /\ HoldOfPending
<1>1. Init => Held
  BY DEF Init, StoreInit, NoPartial, ClosedSeen, Unguarded, HoldOfPending
<1>2. Inv /\ Held /\ [Next]_vars => Held'
  BY NoPartialStep, ClosedSeenStep, HoldStep
<1> QED BY <1>1, <1>2, InvInductive, PTL DEF Spec

(* No coupon stays blocked: where every order leaves PENDING at last, as   *)
(* the expiry cron sees to (cron/expire-pending/route.ts), every hold ends *)
(* too, with the payment or without it, in the same shop.                  *)
THEOREM HoldsEnd ==
  ASSUME TossOnly
  PROVE  Spec /\ PendingEnds => HoldEnds
<1>0. Spec => []HoldOfPending
  BY HoldsOfToss
<1>1. ASSUME NEW c \in Coupons, NEW o \in Orders
      PROVE  Spec /\ PendingEnds => (hold[c] = o ~> hold[c] # o)
  <2>1. PendingEnds => (status[o] = "PENDING" ~> status[o] # "PENDING")
    BY DEF PendingEnds
  <2>2. HoldOfPending => /\ hold[c] = o => status[o] = "PENDING"
                         /\ status[o] # "PENDING" => hold[c] # o
    BY NoneAssumption DEF HoldOfPending
  <2> QED BY <1>0, <2>1, <2>2, PTL
<1> QED BY <1>1 DEF HoldEnds
-----------------------------------------------------------------------------
(* The refinement of CouponLife.  A hold is on a coupon that nobody has    *)
(* used, and of an order that exists and carries that coupon: so a         *)
(* cancellation releases one coupon at most.                               *)
HoldCarried ==
  \A c \in Coupons : hold[c] # None => /\ usedBy[c] = None
                                       /\ status[hold[c]] # "NONE"
                                       /\ form[hold[c]].coupon = c

(* What CouponLife says of one step, with coupons and orders as it sees    *)
(* them.                                                                   *)
Lives == [c \in Coupons |-> CouponState(c)]
LifeStep == [Life!Next]_<<Lives, Waiting>>

(* An order that exists gets another status than PENDING, as in every      *)
(* cancellation: it stops waiting, or did not wait.                        *)
LEMMA WaitingEnds ==
  ASSUME status \in [Orders -> Statuses], NEW o \in Orders, NEW x, x # "PENDING",
         status' = [status EXCEPT ![o] = x]
  PROVE  Waiting' = Waiting \ {o}
BY DEF Waiting

(* A step that changes neither hold nor use, and lets at most one order    *)
(* stop waiting.                                                           *)
LEMMA LifeFrame ==
  ASSUME Inv, HoldCarried, UNCHANGED <<form, hold, usedBy>>,
         \A o \in Orders : status[o] # "NONE" => status'[o] # "NONE",
         Waiting' = Waiting \/ \E o \in Orders : Waiting' = Waiting \ {o}
  PROVE  HoldCarried' /\ LifeStep
<1>1. HoldCarried'
  BY DEF HoldCarried, Inv, StoreInv, StoreTypeOK
<1>2. Lives' = Lives
  BY DEF Lives, CouponState
<1>3. CASE Waiting' = Waiting
  BY <1>1, <1>2, <1>3 DEF LifeStep
<1>4. ASSUME NEW o \in Orders, Waiting' = Waiting \ {o}, o \in Waiting PROVE LifeStep
  <2>1. Life!Leave(o)
    BY <1>2, <1>4 DEF Life!Leave, Lives
  <2> QED BY <2>1 DEF LifeStep, Life!Next
<1> QED BY <1>1, <1>3, <1>4

(* One coupon changes hands.                                               *)
LEMMA OneLife ==
  ASSUME NEW c \in Coupons, NEW l,
         \A d \in Coupons \ {c} : hold'[d] = hold[d] /\ usedBy'[d] = usedBy[d],
         CouponState(c)' = l
  PROVE  Lives' = [Lives EXCEPT ![c] = l]
<1>1. \A d \in Coupons \ {c} : CouponState(d)' = CouponState(d)
  BY DEF CouponState
<1> QED BY <1>1 DEF Lives

LEMMA LifeInsert ==
  ASSUME Inv, HoldCarried, NEW o \in Orders, NEW f \in Forms, InsertOrder(o, f)
  PROVE  HoldCarried' /\ LifeStep
<1>0. /\ status \in [Orders -> Statuses] /\ form \in [Orders -> Forms \cup {None}]
      /\ hold \in [Coupons -> Orders \cup {None}] /\ usedBy \in [Coupons -> Orders \cup {None}]
  BY DEF Inv, StoreInv, StoreTypeOK
<1>1. f.coupon \in Coupons \cup {None} /\ o # None
  BY FormFacts, NoneAssumption
<1>2. /\ status[o] = "NONE" /\ status' = [status EXCEPT ![o] = "PENDING"]
      /\ form' = [form EXCEPT ![o] = f] /\ usedBy' = usedBy /\ CanHold(f.coupon)
      /\ hold' = IF f.coupon = None THEN hold ELSE [hold EXCEPT ![f.coupon] = o]
  BY DEF InsertOrder
<1>3. HoldCarried'
  <2> SUFFICES ASSUME NEW c \in Coupons, hold'[c] # None
               PROVE  usedBy'[c] = None /\ status'[hold'[c]] # "NONE" /\ form'[hold'[c]].coupon = c
    BY DEF HoldCarried
  <2>1. CASE c = f.coupon
    BY <1>0, <1>1, <1>2, <2>1, NoneAssumption DEF CanHold
  <2>2. CASE c # f.coupon
    <3>1. hold'[c] = hold[c] /\ hold[c] \in Orders
      BY <1>0, <1>1, <1>2, <2>2
    <3>2. usedBy[c] = None /\ status[hold[c]] # "NONE" /\ form[hold[c]].coupon = c
      BY <3>1 DEF HoldCarried
    <3> QED BY <1>0, <1>2, <3>1, <3>2
  <2> QED BY <2>1, <2>2
<1>4. o \notin Waiting /\ Waiting' = Waiting \cup {o}
  BY <1>0, <1>2 DEF Waiting
<1>5. CASE f.coupon = None
  <2>1. Lives' = Lives
    BY <1>2, <1>5 DEF Lives, CouponState
  <2>2. Life!Place(o)
    BY <1>4, <2>1 DEF Life!Place, Lives
  <2> QED BY <1>3, <2>2 DEF LifeStep, Life!Next
<1>6. CASE f.coupon # None
  <2> DEFINE c == f.coupon
  <2>1. c \in Coupons /\ usedBy[c] = None /\ hold[c] = None
    BY <1>1, <1>2, <1>6 DEF CanHold
  <2>2. hold' = [hold EXCEPT ![c] = o]
    BY <1>2, <1>6
  <2>3. CouponState(c) = Life!Free /\ CouponState(c)' = Life!Held(o)
    BY <1>0, <1>1, <1>2, <2>1, <2>2 DEF CouponState, Life!Free, Life!Held
  <2> HIDE DEF c
  <2>4. Lives' = [Lives EXCEPT ![c] = Life!Held(o)]
    BY <1>0, <1>2, <2>1, <2>2, <2>3, OneLife
  <2>5. Life!Hold(c, o)
    BY <1>4, <2>1, <2>3, <2>4 DEF Life!Hold, Lives
  <2> QED BY <1>3, <2>1, <2>5 DEF LifeStep, Life!Next
<1> QED BY <1>5, <1>6

LEMMA LifeCancel ==
  ASSUME Inv, HoldCarried, NEW o \in Orders, CancelPendingOrder(o)
  PROVE  HoldCarried' /\ LifeStep
<1>0. /\ status \in [Orders -> Statuses] /\ form \in [Orders -> Forms \cup {None}]
      /\ hold \in [Coupons -> Orders \cup {None}] /\ usedBy \in [Coupons -> Orders \cup {None}]
  BY DEF Inv, StoreInv, StoreTypeOK
<1>1. CASE status[o] # "PENDING"
  <2>1. UNCHANGED <<status, form, hold, usedBy>>
    BY <1>1 DEF CancelPendingOrder, storeVars, orderVars, couponVars
  <2> QED BY <2>1, LifeFrame DEF Waiting
<1>2. CASE status[o] = "PENDING"
  <2>1. /\ status' = [status EXCEPT ![o] = "CANCELLED"] /\ form' = form /\ usedBy' = usedBy
        /\ hold' = [c \in Coupons |-> IF hold[c] = o THEN None ELSE hold[c]]
    BY <1>2 DEF CancelPendingOrder
  <2>2. HoldCarried'
    BY <1>0, <2>1 DEF HoldCarried
  <2>3. o \in Waiting /\ Waiting' = Waiting \ {o}
    BY <1>0, <1>2, <2>1, WaitingEnds DEF Waiting
  <2>4. CASE \A c \in Coupons : hold[c] # o
    <3>1. hold' = hold
      BY <1>0, <2>1, <2>4
    <3>2. Lives' = Lives
      BY <2>1, <3>1 DEF Lives, CouponState
    <3>3. Life!Leave(o)
      BY <2>3, <3>2 DEF Life!Leave, Lives
    <3> QED BY <2>2, <3>3 DEF LifeStep, Life!Next
  <2>5. CASE \E c \in Coupons : hold[c] = o
    <3>1. PICK c \in Coupons : hold[c] = o
      BY <2>5
    <3>2. o # None
      BY NoneAssumption
    <3>3. \A d \in Coupons \ {c} : hold[d] # o
      BY <3>1, <3>2 DEF HoldCarried
    <3>4. usedBy[c] = None
      BY <3>1, <3>2 DEF HoldCarried
    <3>5. /\ CouponState(c).is = "held" /\ CouponState(c).by = o
          /\ CouponState(c)' = Life!Free
      BY <2>1, <3>1, <3>2, <3>4 DEF CouponState, Life!Free
    <3>6. Lives' = [Lives EXCEPT ![c] = Life!Free]
      BY <2>1, <3>3, <3>5, OneLife
    <3>7. Life!Release(c)
      BY <2>3, <3>5, <3>6 DEF Life!Release, Lives
    <3> QED BY <2>2, <3>7 DEF LifeStep, Life!Next
  <2> QED BY <2>4, <2>5
<1> QED BY <1>1, <1>2

LEMMA LifeFinalize ==
  ASSUME Inv, HoldCarried, NEW o \in Orders, status[o] # "NONE", FinalizePayment(o)
  PROVE  HoldCarried' /\ LifeStep
<1> DEFINE c == form[o].coupon
           mine == c # None /\ (hold[c] = o \/ usedBy[c] = None)
<1>0. /\ status \in [Orders -> Statuses] /\ form \in [Orders -> Forms \cup {None}]
      /\ hold \in [Coupons -> Orders \cup {None}] /\ usedBy \in [Coupons -> Orders \cup {None}]
  BY DEF Inv, StoreInv, StoreTypeOK
<1>1. c \in Coupons \cup {None} /\ o # None
  BY <1>0, FormFacts, NoneAssumption DEF Inv, StoreInv, StoreTypeOK
<1>2. /\ status' = [status EXCEPT ![o] = "PAID"] /\ form' = form
      /\ hold' = IF mine THEN [hold EXCEPT ![c] = None] ELSE hold
      /\ usedBy' = IF mine THEN [usedBy EXCEPT ![c] = o] ELSE usedBy
  BY DEF FinalizePayment, MarkCouponUsed
<1>3. mine => c \in Coupons /\ usedBy[c] = None
  BY <1>1 DEF HoldCarried
<1>4. Waiting' = Waiting \ {o}
  BY <1>0, <1>2, WaitingEnds
<1>5. mine /\ o \in Waiting => hold[c] = o
  BY <1>3 DEF Waiting, Inv, StoreInv, HeldOrUsed
<1> HIDE DEF c, mine
<1>6. HoldCarried'
  <2> SUFFICES ASSUME NEW d \in Coupons, hold'[d] # None
               PROVE  usedBy'[d] = None /\ status'[hold'[d]] # "NONE" /\ form'[hold'[d]].coupon = d
    BY DEF HoldCarried
  <2>1. hold'[d] = hold[d] /\ usedBy'[d] = usedBy[d]
    BY <1>0, <1>2, <1>3
  <2> QED BY <1>0, <1>2, <2>1 DEF HoldCarried
<1>7. CASE ~mine
  <2>1. UNCHANGED <<form, hold, usedBy>>
    BY <1>2, <1>7
  <2>2. \A q \in Orders : status[q] # "NONE" => status'[q] # "NONE"
    BY <1>0, <1>2
  <2> QED BY <1>4, <2>1, <2>2, LifeFrame
<1>8. CASE mine
  <2>0. PICK d \in Coupons : /\ d = c /\ usedBy[d] = None
                             /\ hold' = [hold EXCEPT ![d] = None]
                             /\ usedBy' = [usedBy EXCEPT ![d] = o]
    BY <1>2, <1>3, <1>8
  <2>1. CouponState(d).is # "used" /\ CouponState(d)' = Life!Used(o)
    <3>1. CouponState(d).is # "used"
      BY <2>0 DEF CouponState
    <3>2. usedBy'[d] = o
      BY <1>0, <2>0
    <3> QED BY <1>1, <3>1, <3>2 DEF CouponState, Life!Used
  <2>2. Lives' = [Lives EXCEPT ![d] = Life!Used(o)]
    <3>1. \A e \in Coupons \ {d} : hold'[e] = hold[e] /\ usedBy'[e] = usedBy[e]
      BY <1>0, <2>0
    <3> QED BY <2>1, <3>1, OneLife
  <2>3. CASE o \in Waiting
    <3>1. hold[d] = o
      BY <1>5, <1>8, <2>0, <2>3
    <3>2. CouponState(d) = Life!Held(o)
      BY <1>1, <2>0, <3>1 DEF CouponState, Life!Held
    <3>3. Life!Use(d, o)
      BY <1>4, <2>2, <2>3, <3>2 DEF Life!Use, Lives
    <3> QED BY <1>6, <3>3 DEF LifeStep, Life!Next
  <2>4. CASE o \notin Waiting
    <3>1. Waiting' = Waiting
      BY <1>4, <2>4
    <3>2. Life!UseLate(d, o)
      BY <2>1, <2>2, <2>4, <3>1 DEF Life!UseLate, Lives
    <3> QED BY <1>6, <3>2 DEF LifeStep, Life!Next
  <2> QED BY <2>3, <2>4
<1> QED BY <1>7, <1>8

(* No other update touches a coupon or takes an order away.                *)
LEMMA LifeNextStep ==
  ASSUME Inv, HoldCarried, [Next]_vars
  PROVE  HoldCarried' /\ LifeStep
<1> DEFINE Goal == HoldCarried' /\ LifeStep
<1>1. CASE UNCHANGED storeVars
  <2>1. UNCHANGED <<status, form, hold, usedBy>>
    BY <1>1 DEF storeVars, orderVars, couponVars
  <2> QED BY <2>1, LifeFrame DEF Waiting
<1>2. ASSUME NEW p \in Procs, Create(p) PROVE Goal
  <2>1. CASE CreateCommit(p)
    BY <2>1, LifeInsert DEF CreateCommit, Inv, ProcInv
  <2> QED BY <1>1, <1>2, <2>1 DEF Create, CreateRead, CreateRefused
<1>3. ASSUME NEW p \in Procs, ReturnFinalizeCommit(p) \/ HookFinalize(p) \/ ReturnCancelOrder(p)
      PROVE  Goal
  <2>1. at[p] \in Orders /\ status[at[p]] # "NONE"
    BY <1>3, AtFacts DEF ReturnFinalizeCommit, HookFinalize, ReturnCancelOrder, OrderSteps
  <2> QED BY <1>3, <2>1, LifeFinalize, LifeCancel
          DEF ReturnFinalizeCommit, HookFinalize, ReturnCancelOrder
<1>4. ASSUME NEW p \in Procs, Return(p) PROVE Goal
  BY <1>1, <1>3, <1>4
     DEF Return, ReturnRead, ReturnClosed, ReturnApproved, ReturnMismatch, ReturnRefused,
         ReturnLost, ReturnFinalizeRead, ReturnFinalizeFails, ReturnCancelPayment
<1>5. ASSUME NEW p \in Procs, HookUpdate(p) \/ HookPartialUpdate(p) \/ UserCancelCommit(p)
      PROVE  Goal
  <2>1. UNCHANGED <<form, hold, usedBy>>
    BY <1>5 DEF HookUpdate, HookPartialUpdate, UserCancelCommit, couponVars
  <2>2. \A o \in Orders : status[o] # "NONE" => status'[o] # "NONE"
    BY <1>5 DEF HookUpdate, HookPartialUpdate, UserCancelCommit, Inv, StoreInv, StoreTypeOK
  <2>3. at[p] \in Orders /\ status \in [Orders -> Statuses]
    BY <1>5, AtFacts DEF HookUpdate, HookPartialUpdate, UserCancelCommit, OrderSteps,
                         Inv, StoreInv, StoreTypeOK
  <2>4. Waiting' = Waiting \ {at[p]}
    <3>1. \E x \in {"CANCELLED", "PARTIALLY_REFUNDED"} : status' = [status EXCEPT ![at[p]] = x]
      BY <1>5 DEF HookUpdate, HookPartialUpdate, UserCancelCommit
    <3> QED BY <2>3, <3>1, WaitingEnds
  <2> QED BY <2>1, <2>2, <2>3, <2>4, LifeFrame
<1>6. ASSUME NEW p \in Procs, Hook(p) \/ UserCancel(p) PROVE Goal
  BY <1>1, <1>3, <1>5, <1>6
     DEF Hook, HookDone, HookCancelled, HookPartial, UserCancel, UserCancelRead
<1>7. ASSUME NEW p \in Procs, Restore(p) \/ Crash(p) PROVE Goal
  <2>1. UNCHANGED <<status, form, hold, usedBy>>
    BY <1>7 DEF Restore, RestoreRead, RestoreCommit, RestoreStock, Crash, storeVars, orderVars,
                couponVars
  <2> QED BY <2>1, LifeFrame DEF Waiting
<1>8. ASSUME NEW o \in Orders, HookClose(o) \/ UserCancelPending(o) \/ CronExpire(o) PROVE Goal
  BY <1>8, LifeCancel DEF HookClose, UserCancelPending, CronExpire
<1>9. ASSUME NEW o \in Orders, Expire(o) \/ ConsoleCancel(o) PROVE Goal
  <2>1. UNCHANGED <<status, form, hold, usedBy>>
    BY <1>9 DEF Expire, ConsoleCancel, storeVars, orderVars, couponVars
  <2> QED BY <2>1, LifeFrame DEF Waiting
<1>10. CASE UNCHANGED vars
  BY <1>1, <1>10 DEF vars
<1> QED BY <1>2, <1>4, <1>6, <1>7, <1>8, <1>9, <1>10 DEF Next, Procs

(* The payment flow implements CouponLife: a waiting order uses the coupon *)
(* it holds or none, no step takes a used coupon from its order, and only  *)
(* the late payment of an order that has ended takes a hold from another.  *)
THEOREM CouponLivesOn == Spec => CouponLifeKept
<1>1. Init => Life!Init /\ HoldCarried
  BY DEF Init, StoreInit, HoldCarried, CouponState, Life!Init, Life!Free, Waiting
<1>2. Inv /\ HoldCarried /\ [Next]_vars => HoldCarried' /\ [Life!Next]_<<Lives, Waiting>>
  BY LifeNextStep DEF LifeStep
<1> QED BY <1>1, <1>2, InvInductive, PTL DEF Spec, CouponLifeKept, Life!Spec, Life!lifeVars, Lives
-----------------------------------------------------------------------------
(* Nothing is sold twice.  Of what left the stock, net[o][s] is the part   *)
(* that order o accounts for: what its payments took, less what its        *)
(* cancellations gave back.  The proof needs that the requests that give   *)
(* the stock of one order back do not overlap; they may do so one after    *)
(* the other, and those of different orders as they like.                  *)
Restoring == {"restoreRead", "restore"}

NoOverlap ==
  \A p, q \in Procs : /\ pc[p] \in Restoring /\ pc[q] \in Restoring
                      /\ at[p] = at[q]
                      => p = q

(* What a request that gives stock back knows: the order was paid, and     *)
(* what it read as taken has not come back meanwhile.                      *)
RestoreSeen ==
  /\ \A o \in Orders, s \in Skus : refundedQty[o][s] # 0 =>
       form[o] # None /\ refundedQty[o][s] = form[o].items[s]
  /\ \A p \in Procs : pc[p] \in Restoring \cup {"hookCancelPaid", "userCancel"} => at[p] \in paid
  /\ \A p \in Procs : pc[p] = "restore" => \A s \in Skus : qty[p][s] # 0 =>
       /\ qty[p][s] = form[at[p]].items[s]
       /\ refundedQty[at[p]][s] = 0

(* Request p is about to give the units of s back to the stock.            *)
GivesBack(p, s) == \/ pc[p] = "restoreRead" /\ refundedQty[at[p]][s] = 0
                   \/ pc[p] = "restore" /\ qty[p][s] # 0

(* An order accounts for its units while it counts as paid, until they     *)
(* have come back, and once more for a request that is about to give them  *)
(* back: then the order has been paid twice, or does not count any more.   *)
Covers(net) ==
  \A o \in Orders, s \in Skus : form[o] # None =>
    /\ status[o] \in PaidStatuses => net[o][s] >= form[o].items[s]
    /\ o \in paid /\ refundedQty[o][s] = 0 => net[o][s] >= form[o].items[s]
    /\ \A p \in Procs : at[p] = o /\ GivesBack(p, s) /\ status[o] \in PaidStatuses
                        => net[o][s] >= form[o].items[s] + form[o].items[s]

Balanced(net) ==
  \A s \in Skus : stock[s] + SumFunctionOnSet([o \in Orders |-> net[o][s]], Orders) = InitialStock[s]

Sold == \E net \in [Orders -> [Skus -> Nat]] : Covers(net) /\ Balanced(net)

LEMMA SoldWithin ==
  ASSUME IsFiniteSet(Orders), Inv, Sold
  PROVE  SoldWithinStock
<1> DEFINE sold == {o \in Orders : status[o] \in PaidStatuses}
<1> SUFFICES ASSUME NEW s \in Skus
             PROVE  SumFunction([o \in sold |-> form[o].items[s]]) <= InitialStock[s] - stock[s]
  BY DEF SoldWithinStock
<1>1. PICK net \in [Orders -> [Skus -> Nat]] : Covers(net) /\ Balanced(net)
  BY DEF Sold
<1> DEFINE F == [o \in sold |-> form[o].items[s]]
           H == [o \in Orders |-> net[o][s]]
<1>2. \A o \in Orders : H[o] \in Nat
  BY <1>1
<1>3. \A o \in sold : F[o] \in Int /\ F[o] <= H[o]
  <2> SUFFICES ASSUME NEW o \in sold PROVE F[o] \in Int /\ F[o] <= H[o]
    OBVIOUS
  <2>1. form[o] \in Forms /\ form[o] # None
    BY FormFacts DEF Inv, StoreInv, StoreTypeOK, PaidStatuses
  <2>2. form[o].items[s] \in Nat /\ net[o][s] \in Nat
    BY <1>1, <2>1, FormFacts
  <2> QED BY <1>1, <2>1, <2>2 DEF Covers
<1>4. SumFunctionOnSet(F, sold) <= SumFunctionOnSet(H, Orders)
  <2> HIDE DEF F, H
  <2> QED BY <1>2, <1>3, SumMonotone
<1>5. SumFunctionOnSet(H, Orders) \in Int
  <2> HIDE DEF H
  <2> QED BY <1>2, SumInt
<1>6. SumFunctionOnSet(F, sold) \in Int
  <2>1. sold \in SUBSET Orders
    OBVIOUS
  <2>2. IsFiniteSet(sold)
    BY <2>1, FS_Subset
  <2>3. \A o \in sold : F[o] \in Int
    BY <1>3
  <2> HIDE DEF F, sold
  <2> QED BY <2>2, <2>3, SumInt
<1>7. stock[s] + SumFunctionOnSet(H, Orders) = InitialStock[s]
  BY <1>1 DEF Balanced
<1>8. stock[s] \in Nat /\ InitialStock[s] \in Nat
  BY StoreAssumption DEF Inv, StoreInv, StoreTypeOK
<1>9. SumFunction(F) = SumFunctionOnSet(F, sold)
  BY DEF SumFunction
<1>10. SumFunction(F) <= InitialStock[s] - stock[s]
  <2> HIDE DEF F, H
  <2> QED BY <1>4, <1>5, <1>6, <1>7, <1>8, <1>9
<1> QED BY <1>10

(* What a step does to the rows that matter: it leaves stock, paidAt and   *)
(* refundedQuantity alone and makes no order count as paid, or it is a     *)
(* settlement, or a restoration.                                           *)
Calm ==
  /\ UNCHANGED <<stock, paid, refundedQty>>
  /\ \A o \in Orders : status'[o] \in PaidStatuses => status'[o] = status[o]
  /\ \A o \in Orders : form[o] # None => form'[o] = form[o]
Settles  == \E o \in Orders : status[o] # "NONE" /\ FinalizePayment(o)
GivenBack == \E p \in Procs : pc[p] = "restore" /\ RestoreCommit(p)

LEMMA RowsShape ==
  ASSUME Inv, [Next]_vars
  PROVE  Calm \/ Settles \/ GivenBack
<1>0. /\ status \in [Orders -> Statuses]
      /\ form \in [Orders -> Forms \cup {None}]
      /\ \A o \in Orders : status[o] = "NONE" <=> form[o] = None
  BY DEF Inv, StoreInv, StoreTypeOK
<1>1. ASSUME UNCHANGED storeVars PROVE Calm
  BY <1>1 DEF storeVars, orderVars, refundVars, Calm
<1>2. ASSUME NEW a \in Orders, CancelPendingOrder(a) PROVE Calm
  <2>1. CASE status[a] = "PENDING"
    BY <1>0, <1>2, <2>1 DEF CancelPendingOrder, refundVars, Calm, PaidStatuses
  <2>2. CASE status[a] # "PENDING"
    BY <1>1, <1>2, <2>2 DEF CancelPendingOrder
  <2> QED BY <2>1, <2>2
<1>3. ASSUME NEW p \in Procs, Create(p) PROVE Calm
  <2>1. ASSUME NEW a \in Orders, InsertOrder(a, draft[p]) PROVE Calm
    BY <1>0, <2>1 DEF InsertOrder, refundVars, Calm, PaidStatuses
  <2> QED BY <1>1, <1>3, <2>1 DEF Create, CreateRead, CreateCommit, CreateRefused
<1>4. ASSUME NEW p \in Procs, ReturnFinalizeCommit(p) \/ HookFinalize(p) PROVE Settles
  <2>1. at[p] \in Orders /\ status[at[p]] # "NONE"
    BY <1>4, AtFacts DEF ReturnFinalizeCommit, HookFinalize, OrderSteps
  <2> QED BY <1>4, <2>1 DEF ReturnFinalizeCommit, HookFinalize, Settles
<1>5. ASSUME NEW p \in Procs, Return(p) PROVE Calm \/ Settles
  <2>1. CASE ReturnCancelOrder(p)
    <3>1. at[p] \in Orders
      BY <2>1, AtFacts DEF ReturnCancelOrder, OrderSteps
    <3> QED BY <1>2, <2>1, <3>1 DEF ReturnCancelOrder
  <2> QED BY <1>1, <1>4, <1>5, <2>1
          DEF Return, ReturnRead, ReturnClosed, ReturnApproved, ReturnMismatch, ReturnRefused,
              ReturnLost, ReturnFinalizeRead, ReturnFinalizeFails, ReturnCancelPayment
<1>6. ASSUME NEW p \in Procs, Hook(p) PROVE Calm \/ Settles
  <2>1. CASE HookUpdate(p) \/ HookPartialUpdate(p)
    BY <1>0, <2>1 DEF HookUpdate, HookPartialUpdate, Calm, PaidStatuses
  <2> QED BY <1>1, <1>4, <1>6, <2>1 DEF Hook, HookDone, HookCancelled, HookPartial
<1>7. ASSUME NEW p \in Procs, UserCancel(p) PROVE Calm
  <2>1. CASE UserCancelCommit(p)
    BY <1>0, <2>1 DEF UserCancelCommit, Calm, PaidStatuses
  <2> QED BY <1>1, <1>7, <2>1 DEF UserCancel, UserCancelRead
<1>8. ASSUME NEW p \in Procs, Restore(p) \/ Crash(p) PROVE Calm \/ GivenBack
  BY <1>1, <1>8 DEF Restore, RestoreRead, RestoreCommit, Crash, GivenBack
<1>9. ASSUME NEW a \in Orders,
             HookClose(a) \/ UserCancelPending(a) \/ Expire(a) \/ CronExpire(a) \/ ConsoleCancel(a)
      PROVE  Calm
  <2>1. CASE Expire(a)
    BY <2>1 DEF Expire, refundVars, Calm
  <2> QED BY <1>1, <1>2, <1>9, <2>1
          DEF HookClose, UserCancelPending, CronExpire, ConsoleCancel
<1>10. CASE UNCHANGED vars
  BY <1>1, <1>10 DEF vars
<1> QED BY <1>3, <1>5, <1>6, <1>7, <1>8, <1>9, <1>10 DEF Next, Procs

(* What it does to a request p that gives stock back: nothing, or p ends   *)
(* or has nothing to do with that, or p takes one step further.            *)
Same(p)      == pc'[p] = pc[p] /\ at'[p] = at[p] /\ qty'[p] = qty[p]
Elsewhere(p) == pc'[p] \notin Restoring \cup {"hookCancelPaid", "userCancel"}
Begins(p)    == /\ p \in HookProcs \cup CancelProcs
                /\ pc'[p] \in {"hookCancelPaid", "userCancel"} /\ at'[p] \in paid /\ paid' = paid
Updates(p)   == /\ pc[p] \in {"hookCancelPaid", "userCancel"} /\ pc'[p] = "restoreRead"
                /\ at'[p] = at[p] /\ status'[at[p]] = "CANCELLED"
Reads(p)     == RestoreRead(p)

LEMMA RestorerShape ==
  ASSUME Inv, [Next]_vars, NEW r \in Procs
  PROVE  Same(r) \/ Elsewhere(r) \/ Begins(r) \/ Updates(r) \/ Reads(r)
<1> DEFINE Goal == Same(r) \/ Elsewhere(r) \/ Begins(r) \/ Updates(r) \/ Reads(r)
           Away == ({"idle", "create"} \cup OrderSteps)
                     \ (Restoring \cup {"hookCancelPaid", "userCancel"})
<1>0. /\ pc \in [Procs -> {"idle", "create"} \cup OrderSteps] /\ at \in [Procs -> Orders \cup {None}]
      /\ qty \in [Procs -> [Skus -> Nat]]
  BY DEF Inv, ProcTypes
<1>a. UNCHANGED <<pc, at, qty>> => Goal
  BY DEF Same
<1>b. ASSUME NEW p \in Procs, NEW l \in Away, pc' = [pc EXCEPT ![p] = l],
             \A q \in Procs \ {p} : at'[q] = at[q] /\ qty'[q] = qty[q]
      PROVE  Goal
  <2>1. CASE r = p
    BY <1>0, <1>b, <2>1 DEF Elsewhere
  <2>2. CASE r # p
    BY <1>0, <1>b, <2>2 DEF Same
  <2> QED BY <2>1, <2>2
<1>c. {"idle", "create", "approve", "finalize", "commit", "cancelPayment", "netCancel", "cancelOrder",
       "hookCommit", "hookCancelUnpaid", "hookPartial"} \subseteq Away
  BY DEF OrderSteps, Restoring
<1> HIDE DEF Goal, Away
<1>1. ASSUME NEW p \in Procs, Done(p) PROVE Goal
  <2>1. \A q \in Procs \ {p} : at'[q] = at[q] /\ qty'[q] = qty[q]
    BY <1>0, <1>1 DEF Done
  <2> QED BY <1>1, <1>b, <1>c, <2>1 DEF Done
<1>2. ASSUME NEW p \in Procs, NEW l \in Away, Goto(p, l) PROVE Goal
  BY <1>2, <1>b DEF Goto
<1>3. ASSUME NEW p \in Procs, NEW o \in Orders, NEW l \in Away, Start(p, o, l)
      PROVE  Goal
  <2>1. \A q \in Procs \ {p} : at'[q] = at[q] /\ qty'[q] = qty[q]
    BY <1>0, <1>3 DEF Start
  <2> QED BY <1>3, <1>b, <2>1 DEF Start
<1>4. ASSUME NEW p \in Procs, Create(p) PROVE Goal
  <2>1. CASE \E f \in Forms : CreateRead(p, f)
    BY <1>b, <1>c, <2>1 DEF CreateRead
  <2> QED BY <1>1, <1>4, <2>1 DEF Create, CreateCommit, CreateRefused
<1>5. ASSUME NEW p \in Procs, Return(p) PROVE Goal
  <2>1. CASE \E o \in Orders : ReturnRead(p, o) \/ ReturnClosed(p, o)
    BY <1>3, <1>a, <1>c, <2>1 DEF ReturnRead, ReturnClosed, procVars
  <2>2. CASE ReturnApproved(p) \/ ReturnRefused(p) \/ ReturnFinalizeRead(p) \/ ReturnFinalizeFails(p)
    BY <1>1, <1>2, <1>c, <2>2
       DEF ReturnApproved, ReturnRefused, ReturnFinalizeRead, ReturnFinalizeFails
  <2>3. CASE ReturnMismatch(p) \/ ReturnLost(p) \/ ReturnCancelPayment(p)
    BY <1>1, <1>2, <1>c, <2>3 DEF ReturnMismatch, ReturnLost, ReturnCancelPayment
  <2>4. CASE ReturnFinalizeCommit(p) \/ ReturnCancelOrder(p)
    BY <1>1, <2>4 DEF ReturnFinalizeCommit, ReturnCancelOrder
  <2> QED BY <1>5, <2>1, <2>2, <2>3, <2>4 DEF Return
<1>6. ASSUME NEW p \in Procs, Crash(p) PROVE Goal
  BY <1>1, <1>6 DEF Crash
<1>7. ASSUME NEW p \in HookProcs, Hook(p) PROVE Goal
  <2> USE DEF Procs
  <2>1. CASE \E o \in Orders : HookDone(p, o) \/ HookPartial(p, o)
    BY <1>3, <1>c, <2>1 DEF HookDone, HookPartial
  <2>2. ASSUME NEW o \in Orders, HookCancelled(p, o) PROVE Goal
    <3>1. CASE o \notin paid
      BY <1>3, <1>c, <2>2, <3>1 DEF HookCancelled
    <3>2. CASE o \in paid
      <4>1. /\ pc' = [pc EXCEPT ![p] = "hookCancelPaid"] /\ at' = [at EXCEPT ![p] = o]
            /\ qty' = qty /\ paid' = paid
        BY <2>2, <3>2 DEF HookCancelled, Start, storeVars, orderVars
      <4> QED BY <1>0, <3>2, <4>1 DEF Goal, Same, Begins
    <3> QED BY <3>1, <3>2
  <2>3. CASE HookFinalize(p) \/ HookPartialUpdate(p)
    BY <1>1, <2>3 DEF HookFinalize, HookPartialUpdate
  <2>4. CASE HookUpdate(p)
    <3>1. CASE pc[p] = "hookCancelPaid"
      <4>1. at[p] \in Orders
        BY <3>1, AtFacts DEF OrderSteps
      <4>2. /\ pc' = [pc EXCEPT ![p] = "restoreRead"] /\ UNCHANGED <<at, qty>>
            /\ status' = [status EXCEPT ![at[p]] = "CANCELLED"]
        BY <2>4, <3>1 DEF HookUpdate, Goto
      <4>3. status'[at[p]] = "CANCELLED"
        BY <4>1, <4>2 DEF Inv, StoreInv, StoreTypeOK
      <4> QED BY <1>0, <3>1, <4>2, <4>3 DEF Goal, Same, Updates
    <3>2. CASE pc[p] # "hookCancelPaid"
      BY <1>1, <2>4, <3>2 DEF HookUpdate
    <3> QED BY <3>1, <3>2
  <2> QED BY <1>7, <2>1, <2>2, <2>3, <2>4 DEF Hook
<1>8. ASSUME NEW p \in CancelProcs, UserCancel(p) PROVE Goal
  <2> USE DEF Procs
  <2>1. ASSUME NEW o \in Orders, UserCancelRead(p, o) PROVE Goal
    <3>1. /\ pc' = [pc EXCEPT ![p] = "userCancel"] /\ at' = [at EXCEPT ![p] = o]
          /\ qty' = qty /\ paid' = paid /\ status[o] = "PAID"
      BY <2>1 DEF UserCancelRead, Start, storeVars, orderVars
    <3>2. o \in paid
      BY <3>1 DEF Inv, StoreInv, PaidRows, PaidStatuses
    <3> QED BY <1>0, <3>1, <3>2 DEF Goal, Same, Begins
  <2>2. CASE UserCancelCommit(p)
    <3>1. at[p] \in Orders
      BY <2>2, AtFacts DEF OrderSteps, UserCancelCommit
    <3>2. /\ pc' = [pc EXCEPT ![p] = "restoreRead"] /\ UNCHANGED <<at, qty>>
          /\ status' = [status EXCEPT ![at[p]] = "CANCELLED"] /\ pc[p] = "userCancel"
      BY <2>2 DEF UserCancelCommit, Goto
    <3>3. status'[at[p]] = "CANCELLED"
      BY <3>1, <3>2 DEF Inv, StoreInv, StoreTypeOK
    <3> QED BY <1>0, <3>2, <3>3 DEF Goal, Same, Updates
  <2> QED BY <1>8, <2>1, <2>2 DEF UserCancel
<1>9. ASSUME NEW p \in Procs, Restore(p) PROVE Goal
  <2>1. CASE RestoreRead(p)
    <3>1. CASE r = p
      BY <2>1, <3>1 DEF Goal, Reads
    <3>2. CASE r # p
      BY <1>0, <2>1, <3>2 DEF RestoreRead, Goal, Same
    <3> QED BY <3>1, <3>2
  <2>2. CASE RestoreCommit(p)
    BY <1>1, <2>2 DEF RestoreCommit
  <2> QED BY <1>9, <2>1, <2>2 DEF Restore
<1>10. ASSUME NEW o \in Orders,
              HookClose(o) \/ UserCancelPending(o) \/ Expire(o) \/ CronExpire(o) \/ ConsoleCancel(o)
       PROVE  Goal
  <2>1. UNCHANGED <<pc, at, qty>>
    BY <1>10 DEF HookClose, UserCancelPending, Expire, CronExpire, ConsoleCancel, procVars
  <2> QED BY <1>a, <2>1
<1>11. ASSUME UNCHANGED vars PROVE Goal
  BY <1>a, <1>11 DEF vars, procVars
<1>12. Goal
  BY <1>4, <1>5, <1>6, <1>7, <1>8, <1>9, <1>10, <1>11 DEF Next, Procs
<1> QED BY <1>12 DEF Goal

(* The units that came back stay back, and no order loses its form.        *)
LEMMA RowsStep ==
  ASSUME Inv, RestoreSeen, [Next]_vars
  PROVE  /\ paid \subseteq paid'
         /\ \A o \in Orders : form[o] # None => form'[o] = form[o]
         /\ \A o \in Orders, s \in Skus : refundedQty'[o][s] = 0 => refundedQty[o][s] = 0
<1>1. CASE Calm
  BY <1>1 DEF Calm
<1>2. CASE Settles
  BY <1>2 DEF Settles, FinalizePayment, refundVars
<1>3. ASSUME NEW p \in Procs, pc[p] = "restore", RestoreCommit(p)
      PROVE  /\ paid' = paid /\ form' = form
             /\ \A o \in Orders, s \in Skus : refundedQty'[o][s] = 0 => refundedQty[o][s] = 0
  <2>1. paid' = paid /\ form' = form
    BY <1>3 DEF RestoreCommit, RestoreStock, orderVars
  <2>2. at[p] \in Orders /\ status[at[p]] # "NONE"
    BY <1>3, AtFacts DEF OrderSteps
  <2>3. ASSUME NEW o \in Orders, NEW s \in Skus, refundedQty'[o][s] = 0
        PROVE  refundedQty[o][s] = 0
    <3>0. /\ refundedQty \in [Orders -> [Skus -> Nat]] /\ qty[p] \in [Skus -> Nat]
          /\ form[at[p]] \in Forms
      BY <2>2 DEF Inv, StoreInv, StoreTypeOK, ProcTypes
    <3>1. refundedQty' = [refundedQty EXCEPT
            ![at[p]] = [t \in Skus |-> IF qty[p][t] > 0 THEN form[at[p]].items[t]
                                                        ELSE refundedQty[at[p]][t]]]
      BY <1>3 DEF RestoreCommit, RestoreStock
    <3>2. CASE o # at[p]
      BY <2>3, <3>0, <3>1, <3>2
    <3>3. CASE o = at[p]
      BY <1>3, <2>3, <3>0, <3>1, <3>3 DEF RestoreSeen
    <3> QED BY <3>2, <3>3
  <2> QED BY <2>1, <2>3
<1> QED BY <1>1, <1>2, <1>3, RowsShape DEF GivenBack

LEMMA RestoreSeenStep ==
  ASSUME Inv, NoOverlap, RestoreSeen, [Next]_vars
  PROVE  RestoreSeen'
<1>0. /\ form \in [Orders -> Forms \cup {None}] /\ refundedQty \in [Orders -> [Skus -> Nat]]
      /\ qty \in [Procs -> [Skus -> Nat]]
      /\ \A o \in Orders : status[o] = "NONE" <=> form[o] = None
      /\ \A o \in paid : o \in Orders /\ form[o] \in Forms /\ form[o] # None
  BY DEF Inv, StoreInv, StoreTypeOK, ProcTypes, PaidRows
<1>1. ASSUME NEW o \in Orders, NEW s \in Skus, refundedQty'[o][s] # 0
      PROVE  form'[o] # None /\ refundedQty'[o][s] = form'[o].items[s]
  <2>1. CASE refundedQty' = refundedQty
    BY <1>1, <2>1, RowsStep DEF RestoreSeen
  <2>2. ASSUME NEW p \in Procs, pc[p] = "restore", RestoreCommit(p)
        PROVE  form'[o] # None /\ refundedQty'[o][s] = form'[o].items[s]
    <3>1. at[p] \in paid
      BY <2>2 DEF RestoreSeen, Restoring
    <3>2. /\ form' = form
          /\ refundedQty' = [refundedQty EXCEPT
              ![at[p]] = [t \in Skus |-> IF qty[p][t] > 0 THEN form[at[p]].items[t]
                                                          ELSE refundedQty[at[p]][t]]]
      BY <2>2 DEF RestoreCommit, RestoreStock, orderVars
    <3>3. CASE o # at[p]
      BY <1>0, <1>1, <3>2, <3>3 DEF RestoreSeen
    <3>4. CASE o = at[p]
      BY <1>0, <1>1, <3>1, <3>2, <3>4 DEF RestoreSeen
    <3> QED BY <3>3, <3>4
  <2> QED BY <2>1, <2>2, RowsShape DEF Calm, Settles, FinalizePayment, refundVars, GivenBack
<1>2. ASSUME NEW p \in Procs, pc'[p] \in Restoring \cup {"hookCancelPaid", "userCancel"}
      PROVE  at'[p] \in paid'
  <2>1. CASE Same(p)
    BY <1>2, <2>1, RowsStep DEF Same, RestoreSeen
  <2>2. CASE Updates(p)
    BY <2>2, RowsStep DEF Updates, RestoreSeen
  <2>3. CASE Reads(p)
    BY <2>3, RowsStep DEF Reads, RestoreRead, RestoreSeen, Restoring
  <2> QED BY <1>2, <2>1, <2>2, <2>3, RestorerShape, RowsStep DEF Elsewhere, Begins
<1>3. ASSUME NEW p \in Procs, pc'[p] = "restore", NEW s \in Skus, qty'[p][s] # 0
      PROVE  /\ qty'[p][s] = form'[at'[p]].items[s]
             /\ refundedQty'[at'[p]][s] = 0
  <2>1. CASE Same(p)
    <3>1. /\ pc[p] = "restore" /\ qty'[p] = qty[p] /\ at'[p] = at[p]
          /\ qty[p][s] = form[at[p]].items[s] /\ refundedQty[at[p]][s] = 0
      BY <1>3, <2>1 DEF Same, RestoreSeen
    <3>2. at[p] \in Orders /\ form'[at[p]] = form[at[p]]
      BY <1>0, <3>1, RowsStep DEF RestoreSeen, Restoring
    <3>3. ASSUME refundedQty' = refundedQty PROVE refundedQty'[at'[p]][s] = 0
      BY <3>1, <3>3
    <3>4. ASSUME NEW q \in Procs, pc[q] = "restore", RestoreCommit(q)
          PROVE  refundedQty'[at'[p]][s] = 0
      <4>1. q # p
        BY <1>0, <1>3, <3>4 DEF RestoreCommit, Done, Inv, ProcTypes
      <4>2. at[q] # at[p]
        BY <3>1, <3>4, <4>1 DEF NoOverlap, Restoring
      <4>3. refundedQty'[at[p]] = refundedQty[at[p]]
        BY <1>0, <3>2, <3>4, <4>2 DEF RestoreCommit, RestoreStock
      <4> QED BY <3>1, <4>3
    <3>5. refundedQty'[at'[p]][s] = 0
      BY <3>3, <3>4, RowsShape DEF Calm, Settles, FinalizePayment, refundVars, GivenBack
    <3>6. form'[at'[p]] = form[at[p]]
      BY <3>1, <3>2
    <3>7. qty'[p][s] = qty[p][s]
      BY <3>1
    <3>8. qty'[p][s] = form'[at'[p]].items[s]
      BY <3>1, <3>6, <3>7
    <3> QED BY <3>5, <3>8
  <2>2. CASE Reads(p)
    <3>1. /\ pc[p] = "restoreRead" /\ qty'[p] = Unrestored(at[p])
          /\ UNCHANGED <<at, form, refundedQty>>
      BY <1>0, <2>2 DEF Reads, RestoreRead, storeVars, orderVars, refundVars
    <3>2. at[p] \in paid
      BY <3>1 DEF RestoreSeen, Restoring
    <3>3. form[at[p]] \in Forms /\ at[p] \in Orders
      BY <1>0, <3>2
    <3>4. form[at[p]].items[s] \in Nat /\ refundedQty[at[p]][s] \in Nat
      BY <1>0, <3>3, FormFacts
    <3>5. qty'[p][s] = IF form[at[p]].items[s] > refundedQty[at[p]][s]
                       THEN form[at[p]].items[s] - refundedQty[at[p]][s] ELSE 0
      BY <3>1 DEF Unrestored
    <3>6. refundedQty[at[p]][s] = 0
      BY <1>3, <3>3, <3>4, <3>5 DEF RestoreSeen
    <3> QED BY <1>3, <3>1, <3>4, <3>5, <3>6
  <2> QED BY <1>3, <2>1, <2>2, RestorerShape DEF Elsewhere, Begins, Updates, Restoring
<1> QED BY <1>1, <1>2, <1>3 DEF RestoreSeen

(* Nobody is about to give back more than before, as long as the order     *)
(* counts as paid.                                                         *)
LEMMA GivesBackStep ==
  ASSUME Inv, RestoreSeen, [Next]_vars, NEW p \in Procs, NEW s \in Skus,
         GivesBack(p, s)', status'[at'[p]] \in PaidStatuses
  PROVE  GivesBack(p, s) /\ at'[p] = at[p]
<1>0. /\ form \in [Orders -> Forms \cup {None}] /\ refundedQty \in [Orders -> [Skus -> Nat]]
      /\ qty \in [Procs -> [Skus -> Nat]]
      /\ \A o \in Orders : status[o] = "NONE" <=> form[o] = None
      /\ \A o \in paid : o \in Orders /\ form[o] \in Forms /\ form[o] # None
  BY DEF Inv, StoreInv, StoreTypeOK, ProcTypes, PaidRows
<1>1. CASE Same(p)
  <2>1. CASE pc[p] = "restoreRead"
    <3>1. at[p] \in Orders
      BY <2>1, AtFacts DEF OrderSteps
    <3> QED BY <1>1, <2>1, <3>1, RowsStep DEF Same, GivesBack
  <2>2. CASE pc[p] # "restoreRead"
    BY <1>1, <2>2 DEF Same, GivesBack
  <2> QED BY <1>1, <2>1, <2>2 DEF Same
<1>2. CASE Updates(p)
  BY <1>2 DEF Updates, PaidStatuses
<1>3. CASE Reads(p)
  <2>1. /\ pc[p] = "restoreRead" /\ pc'[p] = "restore" /\ qty'[p] = Unrestored(at[p])
        /\ UNCHANGED <<at, form, refundedQty>>
    BY <1>0, <1>3 DEF Reads, RestoreRead, storeVars, orderVars, refundVars, Inv, ProcTypes
  <2>2. at[p] \in paid
    BY <2>1 DEF RestoreSeen, Restoring
  <2>3. form[at[p]] \in Forms /\ at[p] \in Orders
    BY <1>0, <2>2
  <2>4. form[at[p]].items[s] \in Nat /\ refundedQty[at[p]][s] \in Nat
    BY <1>0, <2>3, FormFacts
  <2>5. qty'[p][s] = IF form[at[p]].items[s] > refundedQty[at[p]][s]
                     THEN form[at[p]].items[s] - refundedQty[at[p]][s] ELSE 0
    BY <2>1 DEF Unrestored
  <2>6. qty'[p][s] # 0
    BY <2>1 DEF GivesBack
  <2>7. refundedQty[at[p]][s] = 0
    BY <2>3, <2>4, <2>5, <2>6 DEF RestoreSeen
  <2> QED BY <1>3, <2>1, <2>7 DEF GivesBack
<1> QED BY <1>1, <1>2, <1>3, RestorerShape DEF Elsewhere, Begins, GivesBack, Restoring

(* Only a cancellation gives stock back.                                   *)
RestorersCancel ==
  \A p \in Procs : pc[p] \in Restoring \cup {"hookCancelPaid", "userCancel"}
                   => p \in HookProcs \cup CancelProcs

LEMMA RestorersStep ==
  ASSUME Inv, RestorersCancel, [Next]_vars
  PROVE  RestorersCancel'
<1> SUFFICES ASSUME NEW p \in Procs, pc'[p] \in Restoring \cup {"hookCancelPaid", "userCancel"}
             PROVE  p \in HookProcs \cup CancelProcs
  BY DEF RestorersCancel, Restoring
<1>1. CASE Same(p)
  BY <1>1 DEF Same, RestorersCancel
<1>2. CASE Updates(p)
  BY <1>2 DEF Updates, RestorersCancel
<1>3. CASE Reads(p)
  BY <1>3 DEF Reads, RestoreRead, RestorersCancel, Restoring
<1> QED BY <1>1, <1>2, <1>3, RestorerShape DEF Elsewhere, Begins

LEMMA CalmSold ==
  ASSUME Inv, RestoreSeen, [Next]_vars, Calm, NEW net, Covers(net), Balanced(net)
  PROVE  Covers(net)' /\ Balanced(net)'
<1>1. ASSUME NEW o \in Orders, NEW s \in Skus, form'[o] # None
      PROVE  /\ status'[o] \in PaidStatuses => net[o][s] >= form'[o].items[s]
             /\ o \in paid' /\ refundedQty'[o][s] = 0 => net[o][s] >= form'[o].items[s]
             /\ \A p \in Procs : at'[p] = o /\ GivesBack(p, s)' /\ status'[o] \in PaidStatuses
                                 => net[o][s] >= form'[o].items[s] + form'[o].items[s]
  <2>1. CASE form[o] = None
    <3>1. status[o] = "NONE" /\ o \notin paid
      BY <2>1 DEF Inv, StoreInv, StoreTypeOK, PaidRows
    <3>2. status'[o] \notin PaidStatuses
      BY <3>1 DEF Calm, PaidStatuses
    <3> QED BY <3>1, <3>2 DEF Calm
  <2>2. CASE form[o] # None
    <3>1. form'[o] = form[o] /\ (status'[o] \in PaidStatuses => status'[o] = status[o])
      BY <2>2 DEF Calm
    <3>2. \A p \in Procs : at'[p] = o /\ GivesBack(p, s)' /\ status'[o] \in PaidStatuses
                           => GivesBack(p, s) /\ at[p] = o
      BY GivesBackStep
    <3> QED BY <2>2, <3>1, <3>2 DEF Calm, Covers
  <2> QED BY <2>1, <2>2
<1>2. Covers(net)'
  BY <1>1 DEF Covers
<1>3. Balanced(net)'
  BY DEF Balanced, Calm
<1> QED BY <1>2, <1>3

(* The sum over the orders follows the change of one of them.              *)
LEMMA BalanceStep ==
  ASSUME IsFiniteSet(Orders), NEW o \in Orders, NEW n \in [Orders -> [Skus -> Nat]],
         NEW m \in [Orders -> [Skus -> Nat]], \A q \in Orders \ {o} : m[q] = n[q],
         stock \in [Skus -> Nat], stock' \in [Skus -> Nat],
         \A s \in Skus : stock'[s] + m[o][s] = stock[s] + n[o][s],
         Balanced(n)
  PROVE  Balanced(m)'
<1> SUFFICES ASSUME NEW s \in Skus
             PROVE  stock'[s] + SumFunctionOnSet([q \in Orders |-> m[q][s]], Orders) = InitialStock[s]
  BY DEF Balanced
<1> DEFINE F == [q \in Orders |-> n[q][s]]
           H == [q \in Orders |-> m[q][s]]
<1>1. (\A q \in Orders : F[q] \in Int /\ H[q] \in Int) /\ \A q \in Orders \ {o} : F[q] = H[q]
  OBVIOUS
<1>2. F[o] = n[o][s] /\ H[o] = m[o][s]
  OBVIOUS
<1>3. stock[s] + SumFunctionOnSet(F, Orders) = InitialStock[s]
  BY DEF Balanced
<1>4. /\ stock[s] \in Int /\ stock'[s] \in Int /\ n[o][s] \in Int /\ m[o][s] \in Int
      /\ InitialStock[s] \in Int
      /\ stock'[s] + m[o][s] = stock[s] + n[o][s]
  BY StoreAssumption
<1>5. stock'[s] + SumFunctionOnSet(H, Orders) = InitialStock[s]
  <2> HIDE DEF F, H
  <2>1. SumFunctionOnSet(H, Orders) = SumFunctionOnSet(F, Orders) - F[o] + H[o]
    BY <1>1, SumChange
  <2>2. SumFunctionOnSet(F, Orders) \in Int
    BY <1>1, SumInt
  <2>3. SumFunctionOnSet(H, Orders) = SumFunctionOnSet(F, Orders) - n[o][s] + m[o][s]
    BY <1>2, <2>1
  <2> DEFINE f == SumFunctionOnSet(F, Orders)
             h == SumFunctionOnSet(H, Orders)
             x == stock[s]
             y == stock'[s]
             i == n[o][s]
             j == m[o][s]
             all == InitialStock[s]
  <2>4. /\ f \in Int /\ x \in Int /\ y \in Int /\ i \in Int /\ j \in Int /\ all \in Int
        /\ h = f - i + j /\ x + f = all /\ y + j = x + i
    BY <1>3, <1>4, <2>2, <2>3
  <2>5. y + h = all
    <3> HIDE DEF f, h, x, y, i, j, all
    <3> QED BY <2>4
  <2> QED BY <2>5
<1> QED BY <1>5

LEMMA SettlesSold ==
  ASSUME IsFiniteSet(Orders), Inv, RestoreSeen, [Next]_vars,
         NEW o \in Orders, status[o] # "NONE", FinalizePayment(o),
         NEW net \in [Orders -> [Skus -> Nat]], Covers(net), Balanced(net)
  PROVE  Sold'
<1>1. form[o] \in Forms /\ form[o].items \in [Skus -> Nat] /\ stock \in [Skus -> Nat]
  <2>1. form[o] \in Forms /\ stock \in [Skus -> Nat]
    BY DEF Inv, StoreInv, StoreTypeOK
  <2> QED BY <2>1, FormFacts
<1>2. /\ \A s \in Skus : form[o].items[s] <= stock[s]
      /\ stock' = [s \in Skus |-> stock[s] - form[o].items[s]]
      /\ status' = [status EXCEPT ![o] = "PAID"]
      /\ paid' = paid \cup {o}
      /\ UNCHANGED <<form, refundedQty>>
  BY DEF FinalizePayment, EnoughStock, refundVars
<1>3. PICK more \in [Orders -> [Skus -> Nat]] :
        /\ \A q \in Orders \ {o} : more[q] = net[q]
        /\ \A s \in Skus : more[o][s] = net[o][s] + form[o].items[s]
  <2> DEFINE m == [net EXCEPT ![o] = [s \in Skus |-> net[o][s] + form[o].items[s]]]
  <2>1. m \in [Orders -> [Skus -> Nat]]
    BY <1>1
  <2>2. \A q \in Orders \ {o} : m[q] = net[q]
    OBVIOUS
  <2>3. \A s \in Skus : m[o][s] = net[o][s] + form[o].items[s]
    OBVIOUS
  <2> HIDE DEF m
  <2> QED BY <2>1, <2>2, <2>3
<1>6. Balanced(more)'
  <2>1. stock' \in [Skus -> Nat]
    BY <1>1, <1>2
  <2>2. \A s \in Skus : stock'[s] + more[o][s] = stock[s] + net[o][s]
    BY <1>1, <1>2, <1>3
  <2> QED BY <1>1, <1>3, <2>1, <2>2, BalanceStep
<1>7. ASSUME NEW q \in Orders, NEW s \in Skus, form[q] # None
      PROVE  /\ status'[q] \in PaidStatuses => more[q][s] >= form[q].items[s]
             /\ q \in paid' /\ refundedQty[q][s] = 0 => more[q][s] >= form[q].items[s]
             /\ \A p \in Procs : at'[p] = q /\ GivesBack(p, s)' /\ status'[q] \in PaidStatuses
                                 => more[q][s] >= form[q].items[s] + form[q].items[s]
  <2>1. \A p \in Procs : at'[p] = q /\ GivesBack(p, s)' /\ status'[q] \in PaidStatuses
                           => GivesBack(p, s) /\ at[p] = q
    BY GivesBackStep
  <2>2. CASE q # o
    <3>1. more[q] = net[q] /\ status'[q] = status[q] /\ (q \in paid' => q \in paid)
      BY <1>2, <1>3, <2>2 DEF Inv, StoreInv, StoreTypeOK
    <3> QED BY <1>7, <2>1, <3>1 DEF Covers
  <2>3. CASE q = o
    <3>1. more[q][s] = net[q][s] + form[q].items[s] /\ net[q][s] \in Nat /\ form[q].items[s] \in Nat
      BY <1>1, <1>3, <2>3
    <3>2. ASSUME NEW p \in Procs, GivesBack(p, s), at[p] = q
          PROVE  net[q][s] >= form[q].items[s]
      <4>1. q \in paid /\ refundedQty[q][s] = 0
        BY <3>2 DEF GivesBack, RestoreSeen, Restoring
      <4> QED BY <1>7, <4>1 DEF Covers
    <3> QED BY <2>1, <3>1, <3>2
  <2> QED BY <2>2, <2>3
<1>8. Covers(more)'
  BY <1>2, <1>7 DEF Covers
<1> QED BY <1>3, <1>6, <1>8 DEF Sold

LEMMA GivenBackSold ==
  ASSUME IsFiniteSet(Orders), Inv, NoOverlap, RestoreSeen, [Next]_vars,
         NEW r \in Procs, pc[r] = "restore", RestoreCommit(r),
         NEW net \in [Orders -> [Skus -> Nat]], Covers(net), Balanced(net)
  PROVE  Sold'
<1> DEFINE o == at[r]
<1>1. /\ o \in Orders /\ o \in paid /\ form[o] \in Forms /\ form[o] # None
      /\ stock \in [Skus -> Nat] /\ qty[r] \in [Skus -> Nat]
      /\ refundedQty \in [Orders -> [Skus -> Nat]]
  <2>1. o \in paid
    BY DEF RestoreSeen, Restoring
  <2> QED BY <2>1 DEF Inv, StoreInv, StoreTypeOK, ProcTypes, PaidRows
<1>2. \A s \in Skus : form[o].items[s] \in Nat
  BY <1>1, FormFacts
<1>3. /\ stock' = [s \in Skus |-> stock[s] + qty[r][s]]
      /\ refundedQty' = [refundedQty EXCEPT
           ![o] = [s \in Skus |-> IF qty[r][s] > 0 THEN form[o].items[s] ELSE refundedQty[o][s]]]
      /\ UNCHANGED <<status, form, paid>>
      /\ pc' = [pc EXCEPT ![r] = "idle"]
  BY DEF RestoreCommit, RestoreStock, Done, orderVars
<1>4. ASSUME NEW s \in Skus, qty[r][s] # 0
      PROVE  /\ qty[r][s] = form[o].items[s] /\ refundedQty[o][s] = 0
             /\ net[o][s] >= form[o].items[s]
             /\ status[o] \in PaidStatuses => net[o][s] >= form[o].items[s] + form[o].items[s]
  <2>1. qty[r][s] = form[o].items[s] /\ refundedQty[o][s] = 0
    BY <1>4 DEF RestoreSeen
  <2>2. GivesBack(r, s)
    BY <1>4 DEF GivesBack
  <2> QED BY <1>1, <2>1, <2>2 DEF Covers
<1>5. PICK less \in [Orders -> [Skus -> Nat]] :
        /\ \A q \in Orders \ {o} : less[q] = net[q]
        /\ \A s \in Skus : less[o][s] = net[o][s] - qty[r][s]
  <2> DEFINE m == [net EXCEPT ![o] = [s \in Skus |-> net[o][s] - qty[r][s]]]
  <2> HIDE DEF o
  <2>1. ASSUME NEW s \in Skus PROVE net[o][s] - qty[r][s] \in Nat
    BY <1>1, <1>2, <1>4
  <2>2. m \in [Orders -> [Skus -> Nat]]
    BY <1>1, <2>1
  <2>3. \A q \in Orders \ {o} : m[q] = net[q]
    OBVIOUS
  <2>4. \A s \in Skus : m[o][s] = net[o][s] - qty[r][s]
    BY <1>1
  <2> HIDE DEF m
  <2> QED BY <2>2, <2>3, <2>4
<1>6. Balanced(less)'
  <2>1. stock' \in [Skus -> Nat]
    BY <1>1, <1>3
  <2>2. \A s \in Skus : stock'[s] + less[o][s] = stock[s] + net[o][s]
    BY <1>1, <1>3, <1>5
  <2> QED BY <1>1, <1>5, <2>1, <2>2, BalanceStep
<1>7. ASSUME NEW q \in Orders, NEW s \in Skus, form[q] # None
      PROVE  /\ status[q] \in PaidStatuses => less[q][s] >= form[q].items[s]
             /\ q \in paid /\ refundedQty'[q][s] = 0 => less[q][s] >= form[q].items[s]
             /\ \A p \in Procs : at'[p] = q /\ GivesBack(p, s)' /\ status[q] \in PaidStatuses
                                 => less[q][s] >= form[q].items[s] + form[q].items[s]
  <2>1. \A p \in Procs : at'[p] = q /\ GivesBack(p, s)' /\ status[q] \in PaidStatuses
                           => GivesBack(p, s) /\ at[p] = q
    BY <1>3, GivesBackStep
  <2>2. CASE q # o
    <3>1. less[q] = net[q] /\ refundedQty'[q] = refundedQty[q]
      BY <1>1, <1>3, <1>5, <2>2
    <3> QED BY <1>7, <2>1, <3>1 DEF Covers
  <2>3. CASE q = o
    <3>1. ASSUME NEW p \in Procs, GivesBack(p, s)', at'[p] = q, status[q] \in PaidStatuses PROVE FALSE
      <4>1. GivesBack(p, s) /\ at[p] = q
        BY <2>1, <3>1
      <4>2. p = r
        BY <2>3, <4>1 DEF NoOverlap, Restoring, GivesBack, o
      <4>3. pc'[r] = "idle"
        BY <1>3 DEF Inv, ProcTypes
      <4> QED BY <3>1, <4>2, <4>3 DEF GivesBack
    <3>2. CASE qty[r][s] = 0
      <4>1. less[q][s] = net[q][s] /\ refundedQty'[q][s] = refundedQty[q][s]
        BY <1>1, <1>3, <1>5, <2>3, <3>2
      <4> QED BY <1>7, <3>1, <4>1 DEF Covers
    <3>3. CASE qty[r][s] # 0
      <4>1. refundedQty'[q][s] # 0
        BY <1>1, <1>2, <1>3, <1>4, <2>3, <3>3
      <4>2. status[q] \in PaidStatuses => less[q][s] >= form[q].items[s]
        BY <1>1, <1>2, <1>4, <1>5, <2>3, <3>3
      <4> QED BY <3>1, <4>1, <4>2
    <3> QED BY <3>2, <3>3
  <2> QED BY <2>2, <2>3
<1>8. Covers(less)'
  BY <1>3, <1>7 DEF Covers
<1> QED BY <1>5, <1>6, <1>8 DEF Sold

LEMMA SoldStep ==
  ASSUME IsFiniteSet(Orders), Inv, NoOverlap, RestoreSeen, Sold, [Next]_vars
  PROVE  Sold'
<1>1. PICK net \in [Orders -> [Skus -> Nat]] : Covers(net) /\ Balanced(net)
  BY DEF Sold
<1>2. CASE Calm
  <2>1. Covers(net)' /\ Balanced(net)'
    BY <1>1, <1>2, CalmSold
  <2> QED BY <1>1, <2>1 DEF Sold
<1>3. CASE Settles
  BY <1>1, <1>3, SettlesSold DEF Settles
<1>4. CASE GivenBack
  BY <1>1, <1>4, GivenBackSold DEF GivenBack
<1> QED BY <1>2, <1>3, <1>4, RowsShape

LEMMA SoldInit ==
  ASSUME IsFiniteSet(Orders), Init
  PROVE  RestoreSeen /\ Sold
<1> USE DEF Init, StoreInit
<1>1. RestoreSeen
  BY DEF RestoreSeen, Restoring
<1> DEFINE net == [o \in Orders |-> [s \in Skus |-> 0]]
<1>2. net \in [Orders -> [Skus -> Nat]]
  OBVIOUS
<1>3. Covers(net)
  BY DEF Covers
<1>4. Balanced(net)
  <2> SUFFICES ASSUME NEW s \in Skus
               PROVE  stock[s] + SumFunctionOnSet([o \in Orders |-> net[o][s]], Orders) = InitialStock[s]
    BY DEF Balanced
  <2> DEFINE F == [o \in Orders |-> net[o][s]]
  <2>1. \A o \in Orders : F[o] = 0
    OBVIOUS
  <2>2. SumFunctionOnSet(F, Orders) = 0
    <3> HIDE DEF F
    <3> QED BY <2>1, SumZero
  <2>3. InitialStock[s] \in Nat
    BY StoreAssumption
  <2>4. stock[s] + SumFunctionOnSet(F, Orders) = InitialStock[s]
    <3> HIDE DEF F
    <3> QED BY <2>2, <2>3
  <2> QED BY <2>4
<1> QED BY <1>1, <1>2, <1>3, <1>4 DEF Sold

(* SoldWithinStock: the orders that count as paid have taken their units   *)
(* out of the stock, each its own, in every behaviour in which no two      *)
(* cancellations give the stock of the same order back at the same time    *)
(* (stock.ts line 185 reads before it locks).                              *)
THEOREM NothingSoldTwice ==
  ASSUME IsFiniteSet(Orders)
  PROVE  Spec /\ []NoOverlap => []SoldWithinStock
<1>1. Init => RestoreSeen /\ Sold
  BY SoldInit
<1>2. Inv /\ NoOverlap /\ RestoreSeen /\ Sold /\ [Next]_vars => (RestoreSeen /\ Sold)'
  BY RestoreSeenStep, SoldStep
<1>3. Inv /\ Sold => SoldWithinStock
  BY SoldWithin
<1> QED BY <1>1, <1>2, <1>3, InvInductive, PTL DEF Spec

(* SoldWithinStock for a shop that handles one cancellation of a paid      *)
(* order at a time, whatever payments race with it.                        *)
THEOREM NothingSoldTwiceAlone ==
  ASSUME IsFiniteSet(Orders), \A p, q \in HookProcs \cup CancelProcs : p = q
  PROVE  Spec => []SoldWithinStock
<1>1. Init => RestorersCancel
  BY DEF Init, RestorersCancel, Restoring
<1>2. Inv /\ RestorersCancel /\ [Next]_vars => RestorersCancel'
  BY RestorersStep
<1>3. RestorersCancel => NoOverlap
  BY DEF RestorersCancel, NoOverlap
<1> QED BY <1>1, <1>2, <1>3, InvInductive, NothingSoldTwice, PTL DEF Spec
=============================================================================
