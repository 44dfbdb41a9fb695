--------------------------- MODULE OrderRequests ---------------------------
(***************************************************************************)
(* POST /api/orders as the browser meets it: the checkout page shows a     *)
(* total it computed itself, a click sends the order under a fresh         *)
(* Idempotency-Key, the network may deliver the request more than once, to *)
(* any instance, and an instance may die in the middle.  The handler looks *)
(* the key up, reads the site settings (SiteSettings), prices the order    *)
(* (Pricing), creates it and only then saves the answer under the key.     *)
(* The rows an order changes afterwards are the matter of Checkout.        *)
(***************************************************************************)
EXTENDS SiteSettings, Pricing, FiniteSets

CONSTANTS
  Requests,     \* deliveries of an order request; they read the settings
  Page,         \* the page's own call of /api/shipping-policy
  Clicks,       \* clicks on the order button, each with a key of its own
  Member,       \* the owner of the session the click was made in
  Guest,        \* userId null: the session has ended
  Carts,        \* what the browser may be about to order
  Fee,          \* SHIPPING_FEE
  NoOrder

ASSUME RequestsAssumption ==
  /\ Requests \subseteq Readers
  /\ Page \in Readers \ Requests
  /\ Member # Guest
  /\ Fee \in Nat
  /\ NoCoupon \notin PricedCoupon
  /\ Carts \subseteq [items : Nat, catalog : Nat, coupon : {NoCoupon} \cup PricedCoupon,
                     typed : Nat, balance : Nat]

Sessions  == {Member, Guest}
Clicked   == [cart : Carts, freeMin : Minimums, points : Nat, shown : Nat]
Handling  == [step : {"check", "price", "save", "done", "lost"}, click : Clicks,
              at : Instances, who : Sessions, answer : Requests \cup {NoOrder}]
OrderRows == [click : Clicks, who : Sessions, coupon : {NoCoupon} \cup PricedCoupon,
              discount : Nat, points : Nat, freeMin : Minimums, total : Nat, earned : Nat]
KeyRows   == [who : Sessions, answer : Requests, live : BOOLEAN]

ASSUME NoOrderAssumption == NoOrder \notin Clicked \cup OrderRows \cup KeyRows

VARIABLES
  policy,     \* the page's freeMin: the default until the fetch answers
  clicked,    \* by click: NoOrder or what the page sent and showed
  request,    \* by delivery: its progress through the handler
  order,      \* by delivery: NoOrder or the row it created
  kept,       \* by click: NoOrder or the IdempotencyKey row
  excused     \* history: clicks whose key could not protect them

requestVars == <<policy, clicked, request, order, kept, excused>>
shopVars    == <<settingsVars, requestVars>>

Idle == [step |-> "idle"]

InHandler(q) == request[q].step \in {"check", "price", "save"}

RequestsTypeOK ==
  /\ SettingsTypeOK
  /\ policy \in Minimums
  /\ clicked \in [Clicks -> {NoOrder} \cup Clicked]
  /\ request \in [Requests -> {Idle} \cup Handling]
  /\ order \in [Requests -> {NoOrder} \cup OrderRows]
  /\ kept \in [Clicks -> {NoOrder} \cup KeyRows]
  /\ excused \subseteq Clicks

RequestsInit ==
  /\ SettingsInit
  /\ policy = DefaultMin
  /\ clicked = [k \in Clicks |-> NoOrder]
  /\ request = [q \in Requests |-> Idle]
  /\ order = [q \in Requests |-> NoOrder]
  /\ kept = [k \in Clicks |-> NoOrder]
  /\ excused = {}

-----------------------------------------------------------------------------
(* The page.  It fetches the policy once, when it mounts.                  *)
PolicyArrives ==
  /\ reading[Page] # NotReading /\ reading[Page].step = "got"
  /\ policy' = reading[Page].data
  /\ reading' = [reading EXCEPT ![Page] = NotReading]
  /\ UNCHANGED <<row, copy, saving, saves, faults, since>>
  /\ UNCHANGED <<clicked, request, order, kept, excused>>

PageView(cart) ==
  [items |-> cart.items, coupon |-> cart.coupon, typed |-> cart.typed,
   balance |-> cart.balance, fee |-> Fee, freeMin |-> policy]

Sending(q, k, i, who) ==
  request' = [request EXCEPT ![q] = [step |-> "check", click |-> k, at |-> i,
                                     who |-> who, answer |-> NoOrder]]

Click(k, q, i) ==
  /\ clicked[k] = NoOrder
  /\ request[q] = Idle
  /\ \E cart \in Carts :
       clicked' = [clicked EXCEPT ![k] =
         [cart |-> cart, freeMin |-> policy, points |-> PagePoints(PageView(cart)),
          shown |-> PageTotal(PageView(cart))]]
  /\ Sending(q, k, i, Member)
  /\ UNCHANGED <<settingsVars, policy, order, kept, excused>>

(* The same request again, with the same key; the session may have ended.  *)
Resend(k, q, i, who) ==
  /\ clicked[k] # NoOrder
  /\ request[q] = Idle
  /\ Sending(q, k, i, who)
  /\ UNCHANGED <<settingsVars, policy, clicked, order, kept, excused>>

-----------------------------------------------------------------------------
(* The handler.                                                            *)
Goes(q, step) == request' = [request EXCEPT ![q].step = step]

Replayable_ByAnyone(q) ==
  LET key == kept[request[q].click]
  IN  key # NoOrder /\ key.live

Replayable_Expired(q) ==
  LET key == kept[request[q].click]
  IN  key # NoOrder /\ ~key.live /\ key.who = request[q].who

Replayable(q) ==
  LET key == kept[request[q].click]
  IN  key # NoOrder /\ key.live /\ key.who = request[q].who

Replay(q) ==
  /\ request[q].step = "check"
  /\ Replayable(q)
  /\ request' = [request EXCEPT ![q].step = "done",
                                ![q].answer = kept[request[q].click].answer]
  /\ UNCHANGED <<settingsVars, policy, clicked, order, kept, excused>>

(* The row is there but of another session or out of date, or another      *)
(* delivery of the click is past its own lookup and has not saved its      *)
(* answer.                                                                 *)
Unprotected(q) ==
  \/ LET key == kept[request[q].click]
     IN  key # NoOrder /\ (~key.live \/ key.who # request[q].who)
  \/ \E p \in Requests \ {q} : request[p] # Idle /\ request[p].click = request[q].click
                               /\ request[p].step \in {"price", "save"}

NotReplayed(q) ==
  /\ request[q].step = "check"
  /\ ~Replayable(q)
  /\ Goes(q, "price")
  /\ excused' = IF Unprotected(q) THEN excused \cup {request[q].click} ELSE excused
  /\ UNCHANGED <<settingsVars, policy, clicked, order, kept>>

(* A failed lookup is taken for a miss.                                    *)
LookupFails(q) ==
  /\ request[q].step = "check"
  /\ faults < MaxFaults
  /\ faults' = faults + 1
  /\ Goes(q, "price")
  /\ excused' = excused \cup {request[q].click}
  /\ UNCHANGED <<row, copy, reading, saving, saves, since, policy, clicked, order, kept>>

(* What the handler prices: today's catalogue amount, the points the page  *)
(* sent, the settings just read.  The coupon of a guest is ignored.        *)
Quote(q) ==
  LET click == clicked[request[q].click]
      guest == request[q].who = Guest
  IN  [items   |-> click.cart.catalog,
       coupon  |-> IF guest THEN NoCoupon ELSE click.cart.coupon,
       points  |-> click.points,
       balance |-> IF guest THEN 0 ELSE click.cart.balance,
       fee     |-> Fee,
       freeMin |-> reading[q].data]

CouponHeld == \E q \in Requests : order[q] # NoOrder /\ order[q].coupon # NoCoupon

Accepted(q) ==
  /\ Acceptable(Quote(q))
  /\ Quote(q).coupon # NoCoupon => ~CouponHeld

EndReading(q) ==
  /\ reading' = [reading EXCEPT ![q] = NotReading]
  /\ UNCHANGED <<row, copy, saving, saves, faults, since>>

Refuse(q) ==
  /\ request[q].step = "price"
  /\ reading[q] # NotReading /\ reading[q].step = "got"
  /\ ~Accepted(q)
  /\ Goes(q, "done")
  /\ EndReading(q)
  /\ UNCHANGED <<policy, clicked, order, kept, excused>>

Create(q) ==
  /\ request[q].step = "price"
  /\ reading[q] # NotReading /\ reading[q].step = "got"
  /\ Accepted(q)
  /\ order' = [order EXCEPT ![q] =
       [click |-> request[q].click, who |-> request[q].who, coupon |-> Quote(q).coupon,
        discount |-> Discount(Quote(q)), points |-> PointsTaken(Quote(q)),
        freeMin |-> reading[q].data, total |-> OrderTotal(Quote(q)),
        earned |-> PointsEarned(Quote(q))]]
  /\ Goes(q, "save")
  /\ EndReading(q)
  /\ UNCHANGED <<policy, clicked, kept, excused>>

Answered(q) == request' = [request EXCEPT ![q].step = "done", ![q].answer = q]

(* upsert with an empty update: the first answer stays, live or not.       *)
SaveKey(q) ==
  /\ request[q].step = "save"
  /\ Answered(q)
  /\ LET k == request[q].click
     IN  kept' = IF kept[k] # NoOrder THEN kept
                 ELSE [kept EXCEPT ![k] = [who |-> request[q].who, answer |-> q, live |-> TRUE]]
  /\ UNCHANGED <<settingsVars, policy, clicked, order, excused>>

SaveFails(q) ==
  /\ request[q].step = "save"
  /\ faults < MaxFaults
  /\ faults' = faults + 1
  /\ Answered(q)
  /\ excused' = excused \cup {request[q].click}
  /\ UNCHANGED <<row, copy, reading, saving, saves, since, policy, clicked, order, kept>>

-----------------------------------------------------------------------------
(* The key's 24 hours end; the cleanup cron deletes such rows.             *)
KeyExpires(k) ==
  /\ kept[k] # NoOrder /\ kept[k].live
  /\ \A q \in Requests : ~InHandler(q)
  /\ kept' = [kept EXCEPT ![k].live = FALSE]
  /\ UNCHANGED <<settingsVars, policy, clicked, request, order, excused>>

PurgeKeys ==
  /\ \E k \in Clicks : kept[k] # NoOrder /\ ~kept[k].live
  /\ kept' = [k \in Clicks |-> IF kept[k] # NoOrder /\ kept[k].live THEN kept[k] ELSE NoOrder]
  /\ excused' = excused \cup {k \in Clicks : kept[k] # NoOrder /\ ~kept[k].live}
  /\ UNCHANGED <<settingsVars, policy, clicked, request, order>>

(* An instance dies with its copy of the settings and its requests: those  *)
(* past the lookup may have created an order whose key is never saved.     *)
Crash(i) ==
  /\ faults < MaxFaults
  /\ faults' = faults + 1
  /\ copy' = [copy EXCEPT ![i] = NoRow]
  /\ reading' = [r \in Readers |-> IF reading[r] # NotReading /\ reading[r].at = i
                                   THEN NotReading ELSE reading[r]]
  /\ saving' = [s \in Savers |-> IF saving[s] # NotSaving /\ saving[s].at = i
                                 THEN NotSaving ELSE saving[s]]
  /\ request' = [q \in Requests |-> IF InHandler(q) /\ request[q].at = i
                                    THEN [request[q] EXCEPT !.step = "lost"] ELSE request[q]]
  /\ excused' = excused \cup {request[q].click : q \in
                  {p \in Requests : request[p].step = "save" /\ request[p].at = i}}
  /\ UNCHANGED <<row, saves, since, policy, clicked, order, kept>>

(* The settings are read by the page and by handlers that have got there,  *)
(* at the instance that serves them.                                       *)
SettingsStep ==
  /\ \/ /\ \A k \in Clicks : clicked[k] = NoOrder
        /\ \E i \in Instances : GetHit(Page, i) \/ GetMiss(Page, i)
     \/ \E q \in Requests : /\ request[q].step = "price"
                            /\ GetHit(q, request[q].at) \/ GetMiss(q, request[q].at)
     \/ \E r \in Readers : /\ reading[r] # NotReading
                           /\ QueryAnswers(r) \/ QueryFails(r) \/ StoreCopy(r)
     \/ \E s \in Savers, i \in Instances, m \in Minimums : UpsertRow(s, i, m)
     \/ \E s \in Savers : DropCopy(s)
     \/ SettingsTick
  /\ UNCHANGED requestVars

RequestStep(q) ==
  \/ Replay(q) \/ NotReplayed(q) \/ LookupFails(q)
  \/ Refuse(q) \/ Create(q)
  \/ SaveKey(q) \/ SaveFails(q)

RequestsNext ==
  \/ SettingsStep
  \/ PolicyArrives
  \/ \E k \in Clicks, q \in Requests, i \in Instances :
       \/ Click(k, q, i)
       \/ \E who \in {Member, Guest} : Resend(k, q, i, who)
  \/ \E q \in Requests : RequestStep(q)
  \/ \E k \in Clicks : KeyExpires(k)
  \/ PurgeKeys
  \/ \E i \in Instances : Crash(i)

RequestsSpec == RequestsInit /\ [][RequestsNext]_shopVars

-----------------------------------------------------------------------------
OrdersOf(k) == {q \in Requests : order[q] # NoOrder /\ order[q].click = k}

(* A click makes one order, however often and wherever its request is      *)
(* delivered, also when its cart carries nothing that can be used once     *)
(* only (idempotency.ts lines 14 to 46).  The key has to be readable, in   *)
(* date and of the same session, and the deliveries must not overlap: two  *)
(* that do both make an order, against line 7 of that file.                *)
OneOrderUnlessExcused ==
  \A k \in Clicks : k \notin excused => Cardinality(OrdersOf(k)) <= 1

(* A replayed answer names an order of the same click and the same owner.  *)
ReplayTellsTheTruth ==
  \A q \in Requests : request[q] # Idle /\ request[q].answer # NoOrder =>
    LET o == order[request[q].answer]
    IN  o # NoOrder /\ o.click = request[q].click /\ o.who = request[q].who

(* The page and the handler compute the total each on its own: when the    *)
(* prices and the settings they saw are the same, so is the total, and the *)
(* provider is not asked for an amount the order will refuse.              *)
PageAndOrderAgree ==
  \A q \in Requests :
    LET click == clicked[order[q].click]
    IN  order[q] # NoOrder /\ order[q].who = Member
        /\ click.cart.items = click.cart.catalog /\ click.freeMin = order[q].freeMin
          => order[q].total = click.shown

(* Coupon and points together never exceed the goods they pay for: the     *)
(* clamp of the total at zero (line 116) hides nothing.                    *)
NothingGivenAway ==
  \A q \in Requests : order[q] # NoOrder =>
    order[q].discount + order[q].points <= clicked[order[q].click].cart.catalog
=============================================================================
