--------------------------- MODULE CheckoutProofs ---------------------------
(***************************************************************************)
(* Proofs about Checkout, for every set of orders, members, coupons, skus, *)
(* forms and concurrent requests.                                          *)
(*                                                                         *)
(* StoreInv is about the rows alone, and one lemma per transaction of      *)
(* OrderStore shows that the transaction preserves it.  ProcInv relates    *)
(* what a running request remembers to the rows it will act on.  Together  *)
(* they are inductive.                                                     *)
(***************************************************************************)
EXTENDS Checkout, TLAPS

(* What makes CouponHeldOnce inductive: a waiting order either still has   *)
(* the hold on its coupon, or the coupon has been used up, and so nobody   *)
(* else can take the hold.                                                 *)
HeldOrUsed ==
  \A o \in Orders : status[o] = "PENDING" /\ form[o].coupon # None
    => hold[form[o].coupon] = o \/ usedBy[form[o].coupon] # None

(* paidAt is set on existing orders, and on every order whose status says  *)
(* that it is paid.                                                        *)
PaidRows == /\ \A o \in paid : status[o] # "NONE"
            /\ \A o \in Orders : status[o] \in PaidStatuses => o \in paid

StoreInv == /\ StoreTypeOK
            /\ PaidRows
            /\ HeldOrUsed
            /\ CouponHeldOnce

ProcTypes == /\ pc \in [Procs -> {"idle", "create"} \cup OrderSteps]
             /\ at \in [Procs -> Orders \cup {None}]
             /\ draft \in [Procs -> Forms \cup {None}]
             /\ qty \in [Procs -> [Skus -> Nat]]

(* A request that works on an order has read an existing one; one that     *)
(* finalizes a payment knows that the provider took the money.             *)
ProcInv ==
  /\ \A p \in Procs : pc[p] \in OrderSteps => at[p] \in Orders /\ status[at[p]] # "NONE"
  /\ \A p \in Procs : pc[p] = "create" => draft[p] \in Forms
  /\ \A p \in Procs : pc[p] \in {"finalize", "commit", "hookCommit"} => Charged(at[p])
  /\ \A o \in thanked : status[o] # "NONE"

PgTypes == pg \in [Orders -> PgStates] /\ thanked \subseteq Orders

Inv == StoreInv /\ PgTypes /\ ProcTypes /\ ProcInv /\ PaidWasCharged

(* Each fact about a form that the proofs use.                             *)
LEMMA FormFacts ==
  ASSUME NEW f \in Forms
  PROVE  /\ f.user \in Users \cup {None} /\ f.coupon \in Coupons \cup {None}
         /\ f.items \in [Skus -> Nat] /\ f.total \in Nat /\ f.spend \in Nat
         /\ f.pointUsed \in Nat /\ f.pointEarned \in Nat /\ f # None
         /\ f.user = None => f.coupon = None /\ f.pointUsed = 0
BY FormsAssumption, NoneAssumption DEF OrderForm

-----------------------------------------------------------------------------
LEMMA InsertOrderStoreInv ==
  ASSUME StoreInv, NEW o \in Orders, NEW f \in Forms, InsertOrder(o, f)
  PROVE  StoreInv'
<1> USE DEF StoreInv, InsertOrder
<1>1. StoreTypeOK'
  BY FormFacts DEF StoreTypeOK, Statuses, refundVars, memberVars
<1>2. PaidRows'
  BY DEF StoreTypeOK, PaidRows, PaidStatuses
<1>3. HeldOrUsed'
  BY FormFacts, NoneAssumption DEF StoreTypeOK, HeldOrUsed, CanHold
<1>4. CouponHeldOnce'
  BY FormFacts, NoneAssumption DEF StoreTypeOK, HeldOrUsed, CanHold, CouponHeldOnce
<1> QED BY <1>1, <1>2, <1>3, <1>4

LEMMA CancelPendingOrderStoreInv ==
  ASSUME StoreInv, NEW o \in Orders, status[o] # "NONE", CancelPendingOrder(o)
  PROVE  StoreInv'
<1> USE DEF StoreInv
<1>1. CASE status[o] # "PENDING"
  BY <1>1 DEF CancelPendingOrder, storeVars, orderVars, refundVars, couponVars, memberVars,
              StoreTypeOK, PaidRows, HeldOrUsed, CouponHeldOnce
<1>2. CASE status[o] = "PENDING"
  <2> USE <1>2 DEF CancelPendingOrder
  <2>1. StoreTypeOK'
    BY DEF StoreTypeOK, Statuses, refundVars, memberVars
  <2>2. PaidRows'
    BY DEF StoreTypeOK, PaidRows, PaidStatuses
  <2>3. HeldOrUsed'
    <3> SUFFICES ASSUME NEW q \in Orders, status'[q] = "PENDING", form'[q].coupon # None
                 PROVE  hold'[form[q].coupon] = q \/ usedBy[form[q].coupon] # None
      BY DEF HeldOrUsed
    <3>1. q # o /\ status[q] = "PENDING" /\ form[q] \in Forms
      BY DEF StoreTypeOK
    <3>2. form[q].coupon \in Coupons
      BY <3>1, FormFacts
    <3>3. hold[form[q].coupon] = q \/ usedBy[form[q].coupon] # None
      BY <3>1 DEF HeldOrUsed
    <3> QED BY <3>1, <3>2, <3>3 DEF StoreTypeOK
  <2>4. CouponHeldOnce'
    BY DEF StoreTypeOK, CouponHeldOnce
  <2> QED BY <2>1, <2>2, <2>3, <2>4
<1> QED BY <1>1, <1>2

(* The points of a member stay above zero because the transaction looks at *)
(* the balance again before it takes them.                                 *)
LEMMA SettlePointsTypes ==
  ASSUME StoreTypeOK, NEW o \in Orders, NEW f \in Forms, EnoughPoints(f), SettlePoints(o, f)
  PROVE  /\ balance' \in [Users -> Nat]
         /\ lifetime' \in [Users -> Nat]
         /\ pointRows' \in [Orders -> [spent : Nat, earned : Nat]]
<1>1. CASE f.user = None
  BY <1>1 DEF SettlePoints, StoreTypeOK, memberVars
<1>2. CASE f.user # None
  <2>1. f.user \in Users /\ f.pointUsed <= balance[f.user]
    BY <1>2, FormFacts DEF EnoughPoints, StoreTypeOK
  <2>2. balance' \in [Users -> Nat] /\ lifetime' \in [Users -> Nat]
    BY <1>2, <2>1, FormFacts DEF SettlePoints, StoreTypeOK
  <2>3. pointRows' \in [Orders -> [spent : Nat, earned : Nat]]
    <3>1. pointRows[o].spent \in Nat /\ pointRows[o].earned \in Nat
      BY DEF StoreTypeOK
    <3>2. /\ pointRows[o].spent + (IF f.pointUsed > 0 THEN 1 ELSE 0) \in Nat
          /\ pointRows[o].earned + (IF f.pointEarned > 0 THEN 1 ELSE 0) \in Nat
      BY <3>1
    <3> DEFINE row == [spent  |-> pointRows[o].spent + (IF f.pointUsed > 0 THEN 1 ELSE 0),
                       earned |-> pointRows[o].earned + (IF f.pointEarned > 0 THEN 1 ELSE 0)]
    <3>3. row \in [spent : Nat, earned : Nat]
      BY <3>2
    <3>4. pointRows' = [pointRows EXCEPT ![o] = row]
      BY <1>2 DEF SettlePoints
    <3> HIDE DEF row
    <3> QED BY <3>3, <3>4 DEF StoreTypeOK
  <2> QED BY <2>2, <2>3
<1> QED BY <1>1, <1>2

LEMMA FinalizePaymentStoreInv ==
  ASSUME StoreInv, NEW o \in Orders, status[o] # "NONE", FinalizePayment(o)
  PROVE  StoreInv'
<1> DEFINE f == form[o]
           c == form[o].coupon
           mine == c # None /\ (hold[c] = o \/ usedBy[c] = None)
<1> USE DEF StoreInv
<1>1. f \in Forms
  BY DEF StoreTypeOK
<1>2. c \in Coupons \cup {None}
  BY <1>1, FormFacts
<1>3. /\ hold' = IF mine THEN [hold EXCEPT ![c] = None] ELSE hold
      /\ usedBy' = IF mine THEN [usedBy EXCEPT ![c] = o] ELSE usedBy
      /\ usedCount' = IF c # None THEN usedCount + 1 ELSE usedCount
  BY DEF FinalizePayment, MarkCouponUsed
<1>4. /\ status' = [status EXCEPT ![o] = "PAID"]
      /\ form' = form /\ paid' = paid \cup {o}
  BY DEF FinalizePayment
<1>5. StoreTypeOK'
  <2>1. stock' \in [Skus -> Nat]
    BY <1>1, FormFacts DEF FinalizePayment, EnoughStock, StoreTypeOK
  <2>2. hold' \in [Coupons -> Orders \cup {None}] /\ usedBy' \in [Coupons -> Orders \cup {None}]
    BY <1>3 DEF StoreTypeOK
  <2>3. /\ balance' \in [Users -> Nat] /\ lifetime' \in [Users -> Nat]
        /\ pointRows' \in [Orders -> [spent : Nat, earned : Nat]]
    BY <1>1, SettlePointsTypes DEF FinalizePayment
  <2>4. usedCount' \in Nat
    BY <1>3 DEF StoreTypeOK
  <2>5. status' \in [Orders -> Statuses] /\ \A q \in Orders : status'[q] = "NONE" <=> form'[q] = None
    BY <1>1, <1>4, NoneAssumption DEF StoreTypeOK, Statuses
  <2>6. paid' \subseteq Orders /\ expired' \subseteq Orders
    BY DEF FinalizePayment, StoreTypeOK
  <2> HIDE DEF mine, f, c
  <2> QED BY <1>4, <2>1, <2>2, <2>3, <2>4, <2>5, <2>6 DEF FinalizePayment, StoreTypeOK, refundVars
<1>6. PaidRows'
  BY <1>4 DEF StoreTypeOK, PaidRows, PaidStatuses
<1>7. HeldOrUsed'
  <2> SUFFICES ASSUME NEW q \in Orders, status'[q] = "PENDING", form'[q].coupon # None
               PROVE  hold'[form[q].coupon] = q \/ usedBy'[form[q].coupon] # None
    BY <1>4 DEF HeldOrUsed
  <2>1. q # o /\ status[q] = "PENDING" /\ form[q] \in Forms /\ form[q].coupon # None
    BY <1>4 DEF StoreTypeOK
  <2>2. form[q].coupon \in Coupons
    BY <2>1, FormFacts
  <2>3. hold[form[q].coupon] = q \/ usedBy[form[q].coupon] # None
    BY <2>1 DEF HeldOrUsed
  <2>4. CASE form[q].coupon # c \/ ~mine
    BY <1>2, <1>3, <2>2, <2>3, <2>4 DEF StoreTypeOK
  <2>5. CASE form[q].coupon = c /\ mine
    BY <1>3, <2>2, <2>5, NoneAssumption DEF StoreTypeOK
  <2> QED BY <2>4, <2>5
<1>8. CouponHeldOnce'
  BY <1>4 DEF StoreTypeOK, CouponHeldOnce
<1> QED BY <1>5, <1>6, <1>7, <1>8

LEMMA RestoreStockStoreInv ==
  ASSUME StoreInv, NEW o \in Orders, status[o] # "NONE",
         NEW q \in [Skus -> Nat], RestoreStock(o, q)
  PROVE  StoreInv'
<1> USE DEF StoreInv, RestoreStock
<1>1. form[o].items \in [Skus -> Nat]
  BY FormFacts DEF StoreTypeOK
<1>2. stock' \in [Skus -> Nat] /\ refundedQty' \in [Orders -> [Skus -> Nat]]
  BY <1>1 DEF StoreTypeOK
<1>3. StoreTypeOK'
  BY <1>2 DEF StoreTypeOK, orderVars, couponVars, memberVars
<1> QED
  BY <1>3 DEF orderVars, couponVars, PaidRows, HeldOrUsed, CouponHeldOnce

(* The unconditional updates of the cancellations: an existing order gets  *)
(* some status other than PENDING, and no coupon is touched.               *)
LEMMA StatusUpdateStoreInv ==
  ASSUME StoreInv, NEW o \in Orders, status[o] # "NONE",
         NEW x \in {"CANCELLED", "PARTIALLY_REFUNDED"},
         status' = [status EXCEPT ![o] = x],
         refundedAmount' \in [Orders -> Nat], refundRequests' \in [Orders -> Nat],
         UNCHANGED <<form, paid, expired, refundedQty, stock, couponVars, memberVars>>
  PROVE  StoreInv'
<1> USE DEF StoreInv, couponVars, memberVars
<1>1. StoreTypeOK'
  BY DEF StoreTypeOK, Statuses
<1>2. PaidRows'
  BY DEF StoreTypeOK, PaidRows, PaidStatuses
<1>3. HeldOrUsed' /\ CouponHeldOnce'
  BY DEF StoreTypeOK, HeldOrUsed, CouponHeldOnce
<1> QED BY <1>1, <1>2, <1>3

(* Charged in the next state, of an order picked in this one.              *)
ChargedNext(o) == pg'[o] \in {"approved", "partial", "cancelled"}

(* An order never disappears, and stays with the payment state it has      *)
(* reached: once charged always charged.                                   *)
Monotone == /\ \A o \in Orders : status[o] # "NONE" => status'[o] # "NONE"
            /\ \A o \in Orders : Charged(o) => ChargedNext(o)

(* What the process part needs from a step of request p: the others keep   *)
(* what they know, and p knows what its next step needs.                   *)
LEMMA ProcStep ==
  ASSUME ProcTypes, ProcInv, Monotone, NEW p \in Procs, NEW l \in {"idle", "create"} \cup OrderSteps,
         NEW a, NEW d, NEW n \in [Skus -> Nat],
         pc' = [pc EXCEPT ![p] = l], at' = [at EXCEPT ![p] = a],
         draft' = [draft EXCEPT ![p] = d], qty' = [qty EXCEPT ![p] = n],
         a \in Orders \cup {None}, d \in Forms \cup {None},
         l \in OrderSteps => a \in Orders /\ status'[a] # "NONE",
         l = "create" => d \in Forms,
         l \in {"finalize", "commit", "hookCommit"} => ChargedNext(a),
         thanked' \subseteq Orders, \A o \in thanked' : status'[o] # "NONE"
  PROVE  ProcTypes' /\ ProcInv'
<1>1. ProcTypes'
  BY DEF ProcTypes
<1>2. (\A r \in Procs : pc[r] \in OrderSteps => at[r] \in Orders /\ status[at[r]] # "NONE")'
  BY DEF ProcTypes, ProcInv, Monotone
<1>3. (\A r \in Procs : pc[r] = "create" => draft[r] \in Forms)'
  BY DEF ProcTypes, ProcInv
<1>4. (\A r \in Procs : pc[r] \in {"finalize", "commit", "hookCommit"} => Charged(at[r]))'
  <2> SUFFICES ASSUME NEW r \in Procs, pc'[r] \in {"finalize", "commit", "hookCommit"}
               PROVE  Charged(at[r])'
    OBVIOUS
  <2>1. CASE r = p
    BY <2>1 DEF ProcTypes, Charged, ChargedNext
  <2>2. CASE r # p
    <3>1. pc[r] \in {"finalize", "commit", "hookCommit"} /\ at'[r] = at[r]
      BY <2>2 DEF ProcTypes
    <3>2. at[r] \in Orders /\ Charged(at[r])
      BY <3>1 DEF ProcInv, OrderSteps
    <3> QED BY <3>1, <3>2 DEF Monotone, Charged, ChargedNext
  <2> QED BY <2>1, <2>2
<1>5. (\A o \in thanked : status[o] # "NONE")'
  OBVIOUS
<1> QED BY <1>1, <1>2, <1>3, <1>4, <1>5 DEF ProcInv

(* The ways a request goes on, in Checkout's terms.                        *)
LEMMA DoneStep ==
  ASSUME ProcTypes, ProcInv, Monotone, NEW p \in Procs, Done(p),
         thanked' \subseteq Orders, \A o \in thanked' : status'[o] # "NONE"
  PROVE  ProcTypes' /\ ProcInv'
<1>1. NoQty \in [Skus -> Nat]
  BY DEF NoQty
<1>2. "idle" \notin OrderSteps
  BY DEF OrderSteps
<1> HIDE DEF NoQty
<1> QED BY <1>1, <1>2, ProcStep DEF Done

LEMMA GotoStep ==
  ASSUME ProcTypes, ProcInv, Monotone, NEW p \in Procs, NEW l \in OrderSteps, Goto(p, l),
         pc[p] \in OrderSteps,
         l \in {"finalize", "commit", "hookCommit"} => ChargedNext(at[p]),
         thanked' \subseteq Orders, \A o \in thanked' : status'[o] # "NONE"
  PROVE  ProcTypes' /\ ProcInv'
<1>1. /\ at' = [at EXCEPT ![p] = at[p]]
      /\ draft' = [draft EXCEPT ![p] = draft[p]]
      /\ qty' = [qty EXCEPT ![p] = qty[p]]
  BY DEF Goto, ProcTypes
<1>2. at[p] \in Orders /\ status'[at[p]] # "NONE"
  BY DEF ProcInv, Monotone
<1>3. draft[p] \in Forms \cup {None} /\ qty[p] \in [Skus -> Nat] /\ l # "create"
  BY DEF ProcTypes, OrderSteps
<1>4. pc' = [pc EXCEPT ![p] = l]
  BY DEF Goto
<1> QED BY <1>1, <1>2, <1>3, <1>4, ProcStep

LEMMA StartStep ==
  ASSUME ProcTypes, ProcInv, Monotone, NEW p \in Procs, NEW o \in Orders, NEW l \in OrderSteps,
         Start(p, o, l), status'[o] # "NONE",
         l \in {"finalize", "commit", "hookCommit"} => ChargedNext(o),
         thanked' \subseteq Orders, \A q \in thanked' : status'[q] # "NONE"
  PROVE  ProcTypes' /\ ProcInv'
<1>1. /\ draft' = [draft EXCEPT ![p] = draft[p]]
      /\ qty' = [qty EXCEPT ![p] = qty[p]]
      /\ pc' = [pc EXCEPT ![p] = l]
      /\ at' = [at EXCEPT ![p] = o]
  BY DEF Start, ProcTypes
<1>2. draft[p] \in Forms \cup {None} /\ qty[p] \in [Skus -> Nat] /\ l # "create"
  BY DEF ProcTypes, OrderSteps
<1> QED BY <1>1, <1>2, ProcStep

(* A step that is not a request's: the requests know what they knew.       *)
LEMMA IdleStep ==
  ASSUME ProcTypes, ProcInv, Monotone, UNCHANGED procVars,
         thanked' \subseteq Orders, \A q \in thanked' : status'[q] # "NONE"
  PROVE  ProcTypes' /\ ProcInv'
<1>1. ProcTypes'
  BY DEF ProcTypes, procVars
<1>2. (\A r \in Procs : pc[r] \in OrderSteps => at[r] \in Orders /\ status[at[r]] # "NONE")'
  BY DEF procVars, ProcInv, Monotone
<1>3. (\A r \in Procs : pc[r] \in {"finalize", "commit", "hookCommit"} => Charged(at[r]))'
  BY DEF procVars, ProcInv, Monotone, OrderSteps, Charged, ChargedNext
<1> QED BY <1>1, <1>2, <1>3 DEF ProcInv, procVars

(* The rows in a step that changes none of them.                           *)
LEMMA StoreFrame ==
  ASSUME StoreInv, UNCHANGED storeVars
  PROVE  StoreInv' /\ status' = status /\ paid' = paid
BY DEF storeVars, orderVars, refundVars, couponVars, memberVars, StoreInv, StoreTypeOK, PaidRows,
       HeldOrUsed, CouponHeldOnce

(* No order counts as paid or thanked for in the next state that did not   *)
(* in this one, except one whose payment the provider took.                *)
LEMMA ChargedStep ==
  ASSUME Inv, Monotone, NEW a, a \in Orders => ChargedNext(a),
         paid' \subseteq Orders, thanked' \subseteq Orders,
         paid' \subseteq paid \cup {a}, thanked' \subseteq thanked \cup {a}
  PROVE  PaidWasCharged'
BY DEF Inv, PaidWasCharged, Monotone, Charged, ChargedNext

-----------------------------------------------------------------------------
(* The steps that change no row.                                           *)

LEMMA QuietStep ==
  ASSUME Inv, UNCHANGED storeVars, PgTypes', ProcTypes', ProcInv', PaidWasCharged'
  PROVE  Inv'
BY StoreFrame DEF Inv

(* ... of these, the ones that change neither payments nor customers' pages *)
LEMMA StillStep ==
  ASSUME Inv, UNCHANGED <<storeVars, pg, thanked>>
  PROVE  /\ Monotone /\ PgTypes' /\ PaidWasCharged'
         /\ thanked' \subseteq Orders /\ \A o \in thanked' : status'[o] # "NONE"
<1>1. status' = status /\ paid' = paid /\ pg' = pg /\ thanked' = thanked
  BY StoreFrame DEF Inv
<1>2. Monotone
  BY <1>1 DEF Monotone, Charged, ChargedNext
<1> QED BY <1>1, <1>2 DEF Inv, PgTypes, ProcInv, PaidWasCharged, Charged

(* ... and the ones that may change the payment of order a.                *)
LEMMA PgStep ==
  ASSUME Inv, UNCHANGED <<storeVars, thanked>>, NEW a \in Orders, NEW x \in PgStates,
         pg' = [pg EXCEPT ![a] = x],
         Charged(a) => x \in {"approved", "partial", "cancelled"}
  PROVE  /\ Monotone /\ PgTypes' /\ PaidWasCharged'
         /\ thanked' \subseteq Orders /\ \A o \in thanked' : status'[o] # "NONE"
<1>1. status' = status /\ paid' = paid /\ thanked' = thanked
  BY StoreFrame DEF Inv
<1>2. Monotone
  BY <1>1 DEF Monotone, Charged, ChargedNext, Inv, PgTypes
<1>3. PaidWasCharged'
  BY <1>1, <1>2 DEF Inv, PaidWasCharged, Monotone, Charged, ChargedNext, StoreInv, StoreTypeOK, PgTypes
<1> QED BY <1>1, <1>2, <1>3 DEF Inv, PgTypes, ProcInv

(* Each running request works on an existing order with a valid form.      *)
LEMMA AtFacts ==
  ASSUME Inv, NEW p \in Procs, pc[p] \in OrderSteps
  PROVE  at[p] \in Orders /\ status[at[p]] # "NONE" /\ form[at[p]] \in Forms
BY DEF Inv, ProcInv, StoreInv, StoreTypeOK

LEMMA StillActions ==
  ASSUME Inv, NEW p \in Procs, NEW o \in Orders,
         \/ ReturnRead(p, o) \/ ReturnFinalizeFails(p)
         \/ HookDone(p, o) \/ HookCancelled(p, o) \/ HookPartial(p, o)
         \/ UserCancelRead(p, o) \/ Crash(p) \/ CreateRefused(p)
  PROVE  Inv'
<1>1. UNCHANGED <<storeVars, pg, thanked>>
  BY DEF ReturnRead, ReturnFinalizeFails, HookDone, HookCancelled, HookPartial, UserCancelRead,
         Crash, CreateRefused
<1>2. /\ Monotone /\ PgTypes' /\ PaidWasCharged'
      /\ thanked' \subseteq Orders /\ \A q \in thanked' : status'[q] # "NONE"
  BY <1>1, StillStep
<1>3. status' = status
  BY <1>1 DEF storeVars, orderVars
<1>4. ProcTypes' /\ ProcInv'
  <2>1. CASE \E l \in OrderSteps \ {"finalize", "commit"} :
               Start(p, o, l) /\ status[o] # "NONE" /\ (l = "hookCommit" => Charged(o))
    BY <1>2, <1>3, <2>1, StartStep DEF Inv, Monotone
  <2>2. CASE Done(p)
    BY <1>2, <2>2, DoneStep DEF Inv
  <2>3. CASE Goto(p, "cancelPayment") /\ pc[p] \in OrderSteps
    BY <1>2, <2>3, GotoStep DEF Inv, OrderSteps
  <2>4. CASE ReturnRead(p, o) \/ HookDone(p, o) \/ HookPartial(p, o) \/ UserCancelRead(p, o)
    BY <2>1, <2>4 DEF ReturnRead, HookDone, HookPartial, UserCancelRead, OrderSteps
  <2>5. CASE HookCancelled(p, o)
    <3>1. CASE o \in paid
      BY <2>1, <2>5, <3>1 DEF HookCancelled, OrderSteps
    <3>2. CASE o \notin paid
      BY <2>1, <2>5, <3>2 DEF HookCancelled, OrderSteps
    <3> QED BY <3>1, <3>2
  <2>6. CASE ReturnFinalizeFails(p)
    BY <2>3, <2>6 DEF ReturnFinalizeFails, OrderSteps
  <2> QED BY <2>2, <2>4, <2>5, <2>6 DEF Crash, CreateRefused
<1> QED BY <1>1, <1>2, <1>4, QuietStep

LEMMA CreateReadInv ==
  ASSUME Inv, NEW p \in Procs, NEW f \in Forms, CreateRead(p, f)
  PROVE  Inv'
<1>1. /\ Monotone /\ PgTypes' /\ PaidWasCharged'
      /\ thanked' \subseteq Orders /\ \A q \in thanked' : status'[q] # "NONE"
  BY StillStep DEF CreateRead
<1>2. /\ at' = [at EXCEPT ![p] = at[p]] /\ at[p] \in Orders \cup {None}
      /\ qty' = [qty EXCEPT ![p] = qty[p]] /\ qty[p] \in [Skus -> Nat]
      /\ pc' = [pc EXCEPT ![p] = "create"] /\ draft' = [draft EXCEPT ![p] = f]
  BY DEF Inv, ProcTypes, CreateRead
<1>3. ProcTypes' /\ ProcInv'
  BY <1>1, <1>2, ProcStep DEF Inv, OrderSteps
<1> QED BY <1>1, <1>3, QuietStep DEF CreateRead

LEMMA RestoreReadInv ==
  ASSUME Inv, NEW p \in Procs, RestoreRead(p)
  PROVE  Inv'
<1>1. /\ Monotone /\ PgTypes' /\ PaidWasCharged'
      /\ thanked' \subseteq Orders /\ \A q \in thanked' : status'[q] # "NONE"
  BY StillStep DEF RestoreRead
<1>2. at[p] \in Orders /\ status[at[p]] # "NONE" /\ form[at[p]] \in Forms
  BY AtFacts DEF RestoreRead, OrderSteps
<1>3. Unrestored(at[p]) \in [Skus -> Nat]
  BY <1>2, FormFacts DEF Unrestored, Inv, StoreInv, StoreTypeOK
<1>4. /\ at' = [at EXCEPT ![p] = at[p]]
      /\ draft' = [draft EXCEPT ![p] = draft[p]] /\ draft[p] \in Forms \cup {None}
      /\ pc' = [pc EXCEPT ![p] = "restore"] /\ qty' = [qty EXCEPT ![p] = Unrestored(at[p])]
  BY DEF Inv, ProcTypes, RestoreRead
<1>5. status'[at[p]] # "NONE"
  BY <1>1, <1>2 DEF Monotone
<1> HIDE DEF Unrestored
<1>6. ProcTypes' /\ ProcInv'
  BY <1>1, <1>2, <1>3, <1>4, <1>5, ProcStep DEF Inv, OrderSteps
<1> QED BY <1>1, <1>6, QuietStep DEF RestoreRead

(* The answers of the provider, and the calls that cancel a payment.       *)
LEMMA PgActions ==
  ASSUME Inv, NEW p \in Procs,
         \/ ReturnApproved(p) \/ ReturnMismatch(p) \/ ReturnRefused(p)
         \/ ReturnLost(p) \/ ReturnCancelPayment(p)
  PROVE  Inv'
<1> DEFINE a == at[p]
<1>1. pc[p] \in OrderSteps
  BY DEF ReturnApproved, ReturnMismatch, ReturnRefused, ReturnLost, ReturnCancelPayment, OrderSteps
<1>2. a \in Orders /\ status[a] # "NONE" /\ form[a] \in Forms
  BY <1>1, AtFacts
<1>3. UNCHANGED <<storeVars, thanked>>
  BY DEF ReturnApproved, ReturnMismatch, ReturnRefused, ReturnLost, ReturnCancelPayment
<1>4. pg[a] \in PgStates /\ pg \in [Orders -> PgStates]
  BY <1>2 DEF Inv, PgTypes
<1>5. \E x \in PgStates : /\ pg' = [pg EXCEPT ![a] = x]
                          /\ Charged(a) => x \in {"approved", "partial", "cancelled"}
  <2>1. CASE pg' = pg
    BY <1>2, <1>4, <2>1 DEF Charged
  <2>2. CASE Approve(a)
    BY <2>2 DEF Approve, PgStates
  <2>3. CASE pg' = [pg EXCEPT ![a] = IF @ = "approved" THEN "cancelled" ELSE @]
    <3>1. pg' = [pg EXCEPT ![a] = IF pg[a] = "approved" THEN "cancelled" ELSE pg[a]]
      BY <2>3
    <3> QED BY <1>4, <3>1 DEF Charged, PgStates
  <2> QED
    BY <2>1, <2>2, <2>3
    DEF ReturnApproved, ReturnMismatch, ReturnRefused, ReturnLost, ReturnCancelPayment
<1>6. /\ Monotone /\ PgTypes' /\ PaidWasCharged'
      /\ thanked' \subseteq Orders /\ \A q \in thanked' : status'[q] # "NONE"
  BY <1>2, <1>3, <1>5, PgStep
<1>7. ProcTypes' /\ ProcInv'
  <2>1. CASE Done(p)
    BY <1>6, <2>1, DoneStep DEF Inv
  <2>2. CASE \E l \in {"netCancel", "cancelPayment", "cancelOrder"} : Goto(p, l)
    BY <1>1, <1>6, <2>2, GotoStep DEF Inv, OrderSteps
  <2>3. CASE ReturnApproved(p)
    <3>1. ChargedNext(at[p])
      BY <1>2, <1>4, <2>3 DEF ReturnApproved, Approve, ChargedNext
    <3> QED BY <1>1, <1>6, <2>3, <3>1, GotoStep DEF Inv, OrderSteps, ReturnApproved
  <2> QED
    BY <2>1, <2>2, <2>3 DEF ReturnMismatch, ReturnRefused, ReturnLost, ReturnCancelPayment
<1> QED BY <1>3, <1>6, <1>7, QuietStep

LEMMA ConsoleCancelInv ==
  ASSUME Inv, NEW o \in Orders, ConsoleCancel(o)
  PROVE  Inv'
<1>1. PICK x \in ConsoleCancels : pg' = [pg EXCEPT ![o] = x]
  BY DEF ConsoleCancel
<1>2. x \in {"partial", "cancelled"}
  BY ConsoleAssumption
<1>3. /\ Monotone /\ PgTypes' /\ PaidWasCharged'
      /\ thanked' \subseteq Orders /\ \A q \in thanked' : status'[q] # "NONE"
  BY <1>1, <1>2, PgStep DEF ConsoleCancel, PgStates
<1>4. ProcTypes' /\ ProcInv'
  BY <1>3, IdleStep DEF Inv, ConsoleCancel
<1> QED BY <1>3, <1>4, QuietStep DEF ConsoleCancel

(* The success page is shown only for an order that is paid, or whose      *)
(* payment the request itself has seen approved.                           *)
LEMMA ThankActions ==
  ASSUME Inv, NEW p \in Procs, NEW o \in Orders, ReturnClosed(p, o) \/ ReturnFinalizeRead(p)
  PROVE  Inv'
<1>1. UNCHANGED <<storeVars, pg>>
  BY DEF ReturnClosed, ReturnFinalizeRead
<1>2. status' = status /\ paid' = paid /\ pg' = pg
  BY <1>1, StoreFrame DEF Inv
<1>3. Monotone
  BY <1>2 DEF Monotone, Charged, ChargedNext
<1>4. \E a \in Orders : /\ thanked' \subseteq thanked \cup {a}
                        /\ Charged(a) /\ status[a] # "NONE"
  <2>1. CASE ReturnClosed(p, o)
    <3>1. o \in paid /\ status[o] # "NONE"
      BY <2>1 DEF ReturnClosed, Inv, StoreInv, PaidRows
    <3>2. Charged(o)
      BY <3>1 DEF Inv, PaidWasCharged
    <3> QED BY <2>1, <3>1, <3>2 DEF ReturnClosed
  <2>2. CASE ReturnFinalizeRead(p)
    <3>1. at[p] \in Orders /\ status[at[p]] # "NONE"
      BY <2>2, AtFacts DEF ReturnFinalizeRead, OrderSteps
    <3>2. Charged(at[p])
      BY <2>2 DEF ReturnFinalizeRead, Inv, ProcInv
    <3> QED BY <2>2, <3>1, <3>2 DEF ReturnFinalizeRead
  <2> QED BY <2>1, <2>2
<1>5. PICK a \in Orders : /\ thanked' \subseteq thanked \cup {a}
                         /\ Charged(a) /\ status[a] # "NONE"
  BY <1>4
<1>6. thanked' \subseteq Orders /\ \A q \in thanked' : status'[q] # "NONE"
  BY <1>2, <1>5 DEF Inv, PgTypes, ProcInv
<1>7. PaidWasCharged'
  BY <1>2, <1>5 DEF Inv, PaidWasCharged, Charged
<1>8. PgTypes'
  BY <1>2, <1>6 DEF Inv, PgTypes
<1>9. ProcTypes' /\ ProcInv'
  <2>1. CASE ReturnClosed(p, o)
    BY <1>3, <1>6, <2>1, IdleStep DEF Inv, ReturnClosed
  <2>2. CASE ReturnFinalizeRead(p) /\ status[at[p]] = "PENDING"
    <3>1. pc[p] \in OrderSteps /\ Charged(at[p]) /\ at[p] \in Orders
      BY <2>2, AtFacts DEF ReturnFinalizeRead, OrderSteps, Inv, ProcInv
    <3>2. ChargedNext(at[p])
      BY <1>3, <3>1 DEF Monotone
    <3> QED BY <1>3, <1>6, <2>2, <3>1, <3>2, GotoStep DEF Inv, ReturnFinalizeRead, OrderSteps
  <2>3. CASE ReturnFinalizeRead(p) /\ status[at[p]] # "PENDING"
    BY <1>3, <1>6, <2>3, DoneStep DEF Inv, ReturnFinalizeRead
  <2> QED BY <2>1, <2>2, <2>3
<1> QED BY <1>1, <1>7, <1>8, <1>9, QuietStep

-----------------------------------------------------------------------------
(* The steps that commit a transaction.                                    *)

(* Only an order whose payment was taken becomes paid or thanked for.      *)
LEMMA CommitStep ==
  ASSUME Inv, StoreInv', UNCHANGED pg,
         \A q \in Orders : status[q] # "NONE" => status'[q] # "NONE",
         \A q \in (paid' \ paid) \cup (thanked' \ thanked) :
            q \in Orders /\ status[q] # "NONE" /\ Charged(q)
  PROVE  /\ Monotone /\ PgTypes' /\ PaidWasCharged'
         /\ thanked' \subseteq Orders /\ \A q \in thanked' : status'[q] # "NONE"
<1>1. Monotone
  BY DEF Monotone, Charged, ChargedNext
<1>2. thanked' \subseteq Orders
  BY DEF Inv, PgTypes
<1>3. PaidWasCharged'
  BY DEF Inv, PaidWasCharged, Charged
<1> QED BY <1>1, <1>2, <1>3 DEF Inv, PgTypes, ProcInv

LEMMA CreateCommitInv ==
  ASSUME Inv, NEW p \in Procs, CreateCommit(p)
  PROVE  Inv'
<1>1. PICK o \in Orders : InsertOrder(o, draft[p])
  BY DEF CreateCommit
<1>2. draft[p] \in Forms
  BY DEF CreateCommit, Inv, ProcInv
<1>3. StoreInv'
  BY <1>1, <1>2, InsertOrderStoreInv DEF Inv
<1>4. \A q \in Orders : status[q] # "NONE" => status'[q] # "NONE"
  BY <1>1 DEF InsertOrder, Inv, StoreInv, StoreTypeOK
<1>5. paid' = paid /\ thanked' = thanked /\ pg' = pg
  BY <1>1 DEF InsertOrder, CreateCommit
<1>6. /\ Monotone /\ PgTypes' /\ PaidWasCharged'
      /\ thanked' \subseteq Orders /\ \A q \in thanked' : status'[q] # "NONE"
  BY <1>3, <1>4, <1>5, CommitStep
<1>7. ProcTypes' /\ ProcInv'
  BY <1>6, DoneStep DEF Inv, CreateCommit
<1> QED BY <1>3, <1>6, <1>7 DEF Inv

LEMMA FinalizeInv ==
  ASSUME Inv, NEW p \in Procs, ReturnFinalizeCommit(p) \/ HookFinalize(p)
  PROVE  Inv'
<1> DEFINE a == at[p]
<1>1. pc[p] \in {"commit", "hookCommit"} /\ FinalizePayment(a) /\ Done(p) /\ pg' = pg
  BY DEF ReturnFinalizeCommit, HookFinalize
<1>2. a \in Orders /\ status[a] # "NONE" /\ Charged(a)
  BY <1>1, AtFacts DEF OrderSteps, Inv, ProcInv
<1>3. StoreInv'
  BY <1>1, <1>2, FinalizePaymentStoreInv DEF Inv
<1>4. \A q \in Orders : status[q] # "NONE" => status'[q] # "NONE"
  BY <1>1, <1>2 DEF FinalizePayment, Inv, StoreInv, StoreTypeOK
<1>5. paid' \subseteq paid \cup {a} /\ thanked' \subseteq thanked \cup {a}
  BY <1>1 DEF FinalizePayment, ReturnFinalizeCommit, HookFinalize
<1>6. /\ Monotone /\ PgTypes' /\ PaidWasCharged'
      /\ thanked' \subseteq Orders /\ \A q \in thanked' : status'[q] # "NONE"
  BY <1>1, <1>2, <1>3, <1>4, <1>5, CommitStep
<1>7. ProcTypes' /\ ProcInv'
  BY <1>1, <1>6, DoneStep DEF Inv
<1> QED BY <1>3, <1>6, <1>7 DEF Inv

LEMMA CancelPendingStep ==
  ASSUME Inv, NEW o \in Orders, status[o] # "NONE", CancelPendingOrder(o), UNCHANGED <<pg, thanked>>
  PROVE  /\ StoreInv' /\ Monotone /\ PgTypes' /\ PaidWasCharged'
         /\ thanked' \subseteq Orders /\ \A q \in thanked' : status'[q] # "NONE"
<1>1. StoreInv'
  BY CancelPendingOrderStoreInv DEF Inv
<1>2. (\A q \in Orders : status[q] # "NONE" => status'[q] # "NONE") /\ paid' = paid
  BY DEF CancelPendingOrder, storeVars, orderVars, Inv, StoreInv, StoreTypeOK
<1> QED BY <1>1, <1>2, CommitStep

LEMMA ReturnCancelInv ==
  ASSUME Inv, NEW p \in Procs, ReturnCancelOrder(p)
  PROVE  Inv'
<1>1. at[p] \in Orders /\ status[at[p]] # "NONE"
  BY AtFacts DEF ReturnCancelOrder, OrderSteps
<1>2. /\ StoreInv' /\ Monotone /\ PgTypes' /\ PaidWasCharged'
      /\ thanked' \subseteq Orders /\ \A q \in thanked' : status'[q] # "NONE"
  BY <1>1, CancelPendingStep DEF ReturnCancelOrder
<1>3. ProcTypes' /\ ProcInv'
  BY <1>2, DoneStep DEF Inv, ReturnCancelOrder
<1> QED BY <1>2, <1>3 DEF Inv

LEMMA PendingEndsInv ==
  ASSUME Inv, NEW o \in Orders, HookClose(o) \/ UserCancelPending(o) \/ CronExpire(o)
  PROVE  Inv'
<1>1. /\ status[o] = "PENDING" /\ CancelPendingOrder(o)
      /\ UNCHANGED <<pg, thanked>> /\ UNCHANGED procVars
  BY DEF HookClose, UserCancelPending, CronExpire
<1>2. /\ StoreInv' /\ Monotone /\ PgTypes' /\ PaidWasCharged'
      /\ thanked' \subseteq Orders /\ \A q \in thanked' : status'[q] # "NONE"
  BY <1>1, CancelPendingStep
<1>3. ProcTypes' /\ ProcInv'
  BY <1>1, <1>2, IdleStep DEF Inv
<1> QED BY <1>2, <1>3 DEF Inv

LEMMA ExpireInv ==
  ASSUME Inv, NEW o \in Orders, Expire(o)
  PROVE  Inv'
<1>1. StoreInv'
  BY DEF Expire, Inv, StoreInv, StoreTypeOK, PaidRows, HeldOrUsed, CouponHeldOnce,
         refundVars, couponVars, memberVars
<1>2. /\ Monotone /\ PgTypes' /\ PaidWasCharged'
      /\ thanked' \subseteq Orders /\ \A q \in thanked' : status'[q] # "NONE"
  BY <1>1, CommitStep DEF Expire
<1>3. ProcTypes' /\ ProcInv'
  BY <1>2, IdleStep DEF Inv, Expire
<1> QED BY <1>1, <1>2, <1>3 DEF Inv

(* The cancellations that update the status without looking at it again.   *)
LEMMA StatusActions ==
  ASSUME Inv, NEW p \in Procs, HookUpdate(p) \/ HookPartialUpdate(p) \/ UserCancelCommit(p)
  PROVE  Inv'
<1> DEFINE a == at[p]
<1>1. pc[p] \in OrderSteps
  BY DEF HookUpdate, HookPartialUpdate, UserCancelCommit, OrderSteps
<1>2. a \in Orders /\ status[a] # "NONE" /\ form[a] \in Forms
  BY <1>1, AtFacts
<1>3. form[a].total \in Nat
  BY <1>2, FormFacts
<1>4. \E x \in {"CANCELLED", "PARTIALLY_REFUNDED"} : status' = [status EXCEPT ![a] = x]
  BY DEF HookUpdate, HookPartialUpdate, UserCancelCommit
<1>5. refundedAmount' \in [Orders -> Nat] /\ refundRequests' \in [Orders -> Nat]
  <2>1. refundedAmount \in [Orders -> Nat] /\ refundRequests \in [Orders -> Nat]
    BY DEF Inv, StoreInv, StoreTypeOK
  <2>2. CASE HookUpdate(p)
    BY <1>2, <1>3, <2>1, <2>2 DEF HookUpdate
  <2>3. CASE HookPartialUpdate(p)
    BY <1>2, <1>3, <2>1, <2>3 DEF HookPartialUpdate
  <2>4. CASE UserCancelCommit(p)
    BY <1>2, <2>1, <2>4 DEF UserCancelCommit
  <2> QED BY <2>2, <2>3, <2>4
<1>6. /\ UNCHANGED <<form, paid, expired, refundedQty, stock, couponVars, memberVars>>
      /\ UNCHANGED <<pg, thanked>>
  BY DEF HookUpdate, HookPartialUpdate, UserCancelCommit
<1>7. StoreInv'
  BY <1>2, <1>4, <1>5, <1>6, StatusUpdateStoreInv DEF Inv
<1>8. \A q \in Orders : status[q] # "NONE" => status'[q] # "NONE"
  BY <1>2, <1>4 DEF Inv, StoreInv, StoreTypeOK
<1>9. /\ Monotone /\ PgTypes' /\ PaidWasCharged'
      /\ thanked' \subseteq Orders /\ \A q \in thanked' : status'[q] # "NONE"
  BY <1>6, <1>7, <1>8, CommitStep
<1>10. ProcTypes' /\ ProcInv'
  <2>1. CASE Done(p)
    BY <1>9, <2>1, DoneStep DEF Inv
  <2>2. CASE Goto(p, "restoreRead")
    BY <1>1, <1>9, <2>2, GotoStep DEF Inv, OrderSteps
  <2> QED BY <2>1, <2>2 DEF HookUpdate, HookPartialUpdate, UserCancelCommit
<1> QED BY <1>7, <1>9, <1>10 DEF Inv

LEMMA RestoreCommitInv ==
  ASSUME Inv, NEW p \in Procs, RestoreCommit(p)
  PROVE  Inv'
<1>1. at[p] \in Orders /\ status[at[p]] # "NONE" /\ qty[p] \in [Skus -> Nat]
  BY AtFacts DEF RestoreCommit, OrderSteps, Inv, ProcTypes
<1>2. StoreInv'
  BY <1>1, RestoreStockStoreInv DEF RestoreCommit, Inv
<1>3. status' = status /\ paid' = paid
  BY DEF RestoreCommit, RestoreStock, orderVars
<1>4. /\ Monotone /\ PgTypes' /\ PaidWasCharged'
      /\ thanked' \subseteq Orders /\ \A q \in thanked' : status'[q] # "NONE"
  BY <1>2, <1>3, CommitStep DEF RestoreCommit
<1>5. ProcTypes' /\ ProcInv'
  BY <1>4, DoneStep DEF Inv, RestoreCommit
<1> QED BY <1>2, <1>4, <1>5 DEF Inv

-----------------------------------------------------------------------------
LEMMA InitInv == Init => Inv
<1> SUFFICES ASSUME Init PROVE Inv
  OBVIOUS
<1> USE DEF Init, StoreInit
<1>1. StoreTypeOK
  BY StoreAssumption, NoneAssumption DEF StoreTypeOK, Statuses
<1>2. PaidRows /\ HeldOrUsed /\ CouponHeldOnce /\ PaidWasCharged
  BY DEF PaidRows, PaidStatuses, HeldOrUsed, CouponHeldOnce, PaidWasCharged
<1>3. PgTypes /\ ProcTypes /\ ProcInv
  BY DEF PgTypes, PgStates, ProcTypes, ProcInv, NoQty, OrderSteps
<1> QED BY <1>1, <1>2, <1>3 DEF Inv, StoreInv

LEMMA NextInv == Inv /\ [Next]_vars => Inv'
<1> SUFFICES ASSUME Inv, [Next]_vars PROVE Inv'
  OBVIOUS
<1>1. ASSUME NEW p \in Procs, Create(p) PROVE Inv'
  <2>1. CASE \E f \in Forms : CreateRead(p, f)
    BY <2>1, CreateReadInv
  <2>2. CASE CreateCommit(p)
    BY <2>2, CreateCommitInv
  <2>3. CASE CreateRefused(p)
    <3>1. CASE Orders = {}
      BY <2>3, <3>1, StillStep, DoneStep, QuietStep DEF CreateRefused, Inv
    <3>2. CASE Orders # {}
      BY <2>3, <3>2, StillActions
    <3> QED BY <3>1, <3>2
  <2> QED BY <1>1, <2>1, <2>2, <2>3 DEF Create
<1>2. ASSUME NEW p \in Procs, Crash(p) PROVE Inv'
  BY <1>2, StillStep, DoneStep, QuietStep DEF Crash, Inv
<1>3. ASSUME NEW p \in Procs, Return(p) PROVE Inv'
  <2>1. CASE \E o \in Orders : ReturnRead(p, o)
    BY <2>1, StillActions
  <2>2. CASE \E o \in Orders : ReturnClosed(p, o)
    BY <2>2, ThankActions
  <2>3. ASSUME pc[p] \in OrderSteps PROVE at[p] \in Orders
    BY <2>3, AtFacts
  <2>4. CASE ReturnFinalizeRead(p)
    BY <2>3, <2>4, ThankActions DEF ReturnFinalizeRead, OrderSteps
  <2>5. CASE ReturnFinalizeFails(p)
    BY <2>3, <2>5, StillActions DEF ReturnFinalizeFails, OrderSteps
  <2>6. CASE ReturnFinalizeCommit(p)
    BY <2>6, FinalizeInv
  <2>7. CASE ReturnCancelOrder(p)
    BY <2>7, ReturnCancelInv
  <2> QED BY <1>3, <2>1, <2>2, <2>4, <2>5, <2>6, <2>7, PgActions DEF Return
<1>4. ASSUME NEW p \in Procs, Hook(p) PROVE Inv'
  <2>1. CASE \E o \in Orders : HookDone(p, o) \/ HookCancelled(p, o) \/ HookPartial(p, o)
    BY <2>1, StillActions
  <2> QED BY <1>4, <2>1, FinalizeInv, StatusActions DEF Hook
<1>5. ASSUME NEW p \in Procs, UserCancel(p) PROVE Inv'
  BY <1>5, StillActions, StatusActions DEF UserCancel
<1>6. ASSUME NEW p \in Procs, Restore(p) PROVE Inv'
  BY <1>6, RestoreReadInv, RestoreCommitInv DEF Restore
<1>7. ASSUME NEW o \in Orders, HookClose(o) \/ UserCancelPending(o) \/ CronExpire(o) PROVE Inv'
  BY <1>7, PendingEndsInv
<1>8. CASE UNCHANGED vars
  BY <1>8, StillStep, IdleStep, QuietStep DEF vars, Inv
<1> QED
  BY <1>1, <1>2, <1>3, <1>4, <1>5, <1>6, <1>7, <1>8, ExpireInv, ConsoleCancelInv DEF Next, Procs

LEMMA InvInductive == Spec => []Inv
BY InitInv, NextInv, PTL DEF Spec

-----------------------------------------------------------------------------
(* In every reachable state the rows, the payments and the requests are of *)
(* their types; no stock and no point balance is ever negative.            *)
THEOREM TypeCorrect == Spec => []TypeOK
<1>1. Inv => TypeOK
  BY DEF Inv, StoreInv, PgTypes, ProcTypes, TypeOK
<1> QED BY <1>1, InvInductive, PTL

(* A coupon is never on two orders that wait for their payment.            *)
THEOREM CouponReservation == Spec => []CouponHeldOnce
<1>1. Inv => CouponHeldOnce
  BY DEF Inv, StoreInv
<1> QED BY <1>1, InvInductive, PTL

(* No order is paid, and no customer thanked, without a charged payment.   *)
THEOREM NoPaymentNoOrder == Spec => []PaidWasCharged
<1>1. Inv => PaidWasCharged
  BY DEF Inv
<1> QED BY <1>1, InvInductive, PTL
=============================================================================
