# A model of the BKK_STORE shop

TLA+ modules beside the code of the shop (`src/`, a Next.js application over PostgreSQL and Redis), the
TLC runs that check them on small instances, and TLAPS proofs about them. They cover **the way of an
order from the cart to its payment and through refunds and returns**, and the protocols around it:
idempotency keys, pricing, settings caches, coupons, accounts, codes and links, background jobs, rate
limits, the shopping feed, the wish list and the category tree.

`PROJECT.json` lists components, runs, findings, hazards and theorems, and maps each definition to
the lines it models.

## 1. The system

The shop is a set of stateless request handlers. Everything they share is in PostgreSQL, in three
payment providers (Toss, INICIS, NAVERPAY) that call back, and in Redis. Handlers run concurrently,
in several instances, and can end at any `await`.

| component | state | operations | hard because |
|---|---|---|---|
| payment transactions, `lib/stock.ts` | Order, OrderItem, stock, UserCoupon, Coupon, points | `finalizeOrderPayment`, `cancelPendingOrder`, `restoreOrderStock` | READ COMMITTED: what a transaction has read may be stale when it writes |
| order creation, `api/orders` | Order, coupon reservation | POST | checks before the transaction |
| Toss, `payments/toss/*` | | confirm, webhook | return and webhook race; lost answers; webhooks late, repeated, lost |
| INICIS, `payments/inicis/*` | | prepare, return, notify | netCancel; partial cancellations reported like full ones |
| NAVERPAY, `payments/naver/*` | | reserve, return, webhook | webhook without a look at the status |
| customer cancellation, `orders/[id]/cancel` | Order, RefundRequest | POST | stale status, second transaction that may fail |
| expiry, `cron/expire-pending` | Order.expiresAt | every five minutes | races with payments; the only thing that ends an abandoned order |
| order administration, `admin/orders` | Order, stock, points, coupon | PATCH, bulk shipping | stale status, its own restoration |
| refunds, `admin/refunds`; returns, `returns`, `admin/returns` | RefundRequest, ReturnRequest | full and partial refunds, return workflow | call to the provider between read and transaction |
| pricing, `lib/coupon, shipping, membership` | none | discount, fee, total, points, tier | boundaries and rounding |
| coupon issue, `coupons/redeem` | Coupon.issuedCount | redeem | check-then-act on a limit |
| idempotency, `lib/idempotency` | IdempotencyKey | check, save | concurrent duplicates |
| job queue, `lib/queue`, `workers` | BullMQ or memory | enqueue, run, retry | retries, restarts |
| cache, `lib/cache`, `site-settings` | Redis or memory | read-through, invalidate | stale fills, fallback |
| rate limits, lockout, `lib/security` | Redis, LoginLog | count | non-atomic expiry, in-flight attempts |
| sessions and accounts, `lib/auth`, `withdraw`, crons | User, JWT | login, recheck, withdraw, dormancy | stale claims in the token |
| codes and tokens (phone, mail, password) | one row each | issue, check, consume | concurrent use, attempts |
| stock administration, `admin/products` | stock | edit | absolute stock saved from a stale form |
| wish list, `store/wishlist`, `api/wishlist` | Wishlist rows, browser store | toggle, roll back | optimistic change, list read before a click |
| category tree, `admin/categories` | Category.parentId | create, move, delete | checks before writes |
| shopping feed, `lib/naver-feed` | one cached value | serve, invalidate | instances, outages, late stores |

The parts meet in few places. The order request reads the settings cache, prices the cart, holds a
coupon and leaves a PENDING row; payments, cancellations and the cron decide that row; the
administration takes over once it is paid. Accounts, codes, links, the wish list and the tree share no
row with orders (a withdrawal only asks whether the member has orders under way). Jobs, limits and the feed
share Redis, under different keys.

What makes each correct is in the hazards of `PROJECT.json`, each at its line. The remaining parts
(content pages, search, files, notifications, logging, rendering) are listed there as components
with the reason they are left out.

## 2. What is modelled

| module | models |
|---|---|
| `OrderStore` | the rows of orders, stock, coupons and points, and one operator per database transaction |
| `Checkout` | creation, payment, notices, cancellation, expiry: one action per step between two `await`s that matter |
| `CheckoutClaims` | properties that add up rows, what the documentation says and the code does not keep, and the refinement of `CouponLife` |
| `CouponLife` | abstract: what the shop does with the coupons of its members: free, held by an order that waits, used by an order; `UseLate`, the payment of an order that has ended, is its one exception |
| `AfterSales` | composed with `Checkout`: status changes, shipping, refunds, returns, stock edits; the refinement of `MoneyLife` |
| `MoneyLife` | abstract: what the shop promises about the money of an order (priced, given back at the provider, on record after that) |
| `Pricing` | discount, fee, points, total, points earned: as the handler and as the page compute them |
| `SiteSettings` | the settings row and every instance's copy |
| `OrderRequests` | composed with the two above: the page, clicks, deliveries, the Idempotency-Key |
| `CouponIssue` | redemption of one coupon, its edits and deletion |
| `Accounts` | one member: status, logins by password and by social account, tokens, password reset, withdrawal, dormancy cron |
| `PhoneCode`, `ResetLink` | the codes sent to one number; the password links of one member |
| `Wishlist`, `CategoryTree` | store and rows of the wish list; the tree of categories |
| `JobPromise` | abstract: what `enqueue` promises of a job |
| `JobQueue` | both backends of the queue; implements `JobPromise` |
| `RateLimit`, `NaverFeed` | one key of the limiter; the feed's cache |
| `MCCheckout`, `MCAfterSales`, `MCShop`, `MCPlatform`, `*.cfg` | the instances TLC checks |
| `FiniteSums` | induction over finite sets and over the naturals, and what a sum over a finite set does when one summand changes |
| `CheckoutProofs`, `CheckoutSafety` | theorems about `Checkout` and `CheckoutClaims` |
| `AfterSalesProofs` | theorems about `AfterSales` |
| `RequestsProofs` | theorems about `Pricing`, `SiteSettings`, `OrderRequests` |
| `AccountsProofs` | theorems about `Accounts` |
| `ShopProofs` | theorems about `CouponIssue`, `PhoneCode`, `ResetLink`, `Wishlist`, `CategoryTree`, and about the composition in `MCShop` |
| `PlatformProofs` | theorems about `JobQueue`, `NaverFeed` and `RateLimit`, the refinement of `JobPromise` among them, and about their composition in `MCPlatform` |

### Checkout: state

| variable | in the program |
|---|---|
| `status`, `form`, `paid`, `expired` | the Order row: status; the columns fixed at creation with its items; `paidAt` set; `expiresAt` in the past |
| `refundedQty`, `refundedAmount`, `refundRequests` | OrderItem.refundedQuantity by sku, Order.refundedAmount, number of RefundRequest rows |
| `stock` | ProductVariant.stock, or Product.stock of a product without variants |
| `hold`, `usedBy`, `usedCount` | UserCoupon.reservedOrderId, UserCoupon.orderId with usedAt, Coupon.usedCount |
| `balance`, `lifetime`, `pointRows` | User.pointBalance, User.lifetimeAmount, number of PointHistory rows of an order |
| `pg` | the payment of an order as its provider knows it (external) |
| `pc`, `at`, `draft`, `qty` | what a request in flight does next, and what it has read and will act on |
| `thanked` | the orders whose customer was redirected to `/checkout/success` |

### Checkout: actions

| action | code |
|---|---|
| `CreateRead`, `CreateCommit`, `CreateRefused` | POST /api/orders: checks; transaction; coupon taken meanwhile |
| `ReturnRead`, `ReturnClosed` | the three returns: order still PENDING, or already paid |
| `ReturnApproved`, `ReturnMismatch`, `ReturnRefused`, `ReturnLost` | the answers of the provider, each handler's reaction |
| `ReturnFinalizeRead`, `ReturnFinalizeCommit`, `ReturnFinalizeFails` | finalizeOrderPayment: read; updates; exception |
| `ReturnCancelPayment`, `ReturnCancelOrder` | the compensation: cancel the payment (may fail), then the order |
| `HookDone`, `HookFinalize`, `HookClose` | toss/webhook before the payment is settled |
| `HookCancelled`, `HookPartial`, `HookUpdate`, `HookPartialUpdate` | cancellation notices of the three providers |
| `UserCancelPending`, `UserCancelRead`, `UserCancelCommit` | POST /api/orders/[id]/cancel |
| `RestoreRead`, `RestoreCommit` | restoreOrderStock |
| `Expire`, `CronExpire` | thirty minutes pass; the cron |
| `ConsoleCancel` | the shop cancels a payment in the provider's console (external) |
| `Crash` | a request ends at an `await` |

### Why these steps

* **Transactions.** At READ COMMITTED an `updateMany` locks its rows and evaluates its WHERE clause
  on their latest version, and the locks last until the commit. So a transaction appears to happen
  at once from its first update on, and a plain read before that may be stale. `finalizeOrderPayment`
  is therefore a read (`ReturnFinalizeRead`, `HookDone`) and a commit (`FinalizePayment`), and so is
  `restoreOrderStock`. `cancelPendingOrder` begins with a guarded update and is one step.
* **Two transactions that deadlock** are one failing, which is `ReturnFinalizeFails` or `Crash`.
* **Merged reads.** A read whose result the next transaction checks again is part of that
  transaction: in the cron and in the PENDING branches of the cancellation and of the webhook
  `cancelPendingOrder` decides. A handler's first read and the read of `finalizeOrderPayment` are
  separate in the return handlers (the provider is called between them) and one in the webhook.
* **A provider has one payment per order.** It may be approved again after a lost answer. A customer who pays
  one order in two windows with two payment keys is not modelled.
* **An order's lines of one sku are added up.** At creation the code compares line by line; the
  conditional decrements of the payment, which decide, take all of them.
* **One Coupon.** All UserCoupon rows are issued from one Coupon, so `usedCount` is one counter.
* **Amounts** are data of a `Form` in `Checkout`; `Pricing` and `OrderRequests` compute them.

### AfterSales

Every staff request is *read, (call the provider,) commit*: the handlers check an order against what
they have read, call, and then write in a transaction whose WHERE names the id only. `job[p]` is what request p has read
and decided.

| state | in the program |
|---|---|
| `desk` | which screens this shop's staff uses; chosen at the start and used to state properties |
| `job` | a handler between two `await`s |
| `returns` | ReturnRequest with its items |
| `returned` | what the provider has really given back (external) |
| `refunds`, `backRows` | sums of the RefundRequest rows; PointHistory rows that settle points back |

| action | code |
|---|---|
| `PatchRead`, `PatchCommit`, `BulkShipRead` | PATCH /api/admin/orders/[id] with its own restoration; bulk-shipping |
| `RefundRead`, `CallSucceeds`, `CallFails`, `RefundCommit` | POST /api/admin/refunds |
| `RequestRead`, `RequestCommit` | POST /api/returns; each line compared alone, an item listed at most `Listings` times |
| `ReturnStaffRead`, (call), `ReturnStaffCommit` | PATCH /api/admin/returns/[id] |
| `EditRead`, `EditCommit` | the product form's absolute stock |
| `Cut` | the request ends at an `await` or its transaction fails |
| `CheckoutStep` | any step of `Checkout`; `MoneyFollows` keeps `returned` in step with `pg` |

### OrderRequests, SiteSettings, Pricing

`PolicyArrives`, `Click`, `Resend` are the page and the network; `Replay`, `NotReplayed`, `LookupFails`,
`Refuse`, `Create`, `SaveKey`, `SaveFails` the handler in its order (look up, read settings, price,
create, save the answer); `KeyExpires`, `PurgeKeys` the key's life; `Crash` an instance that dies with its
copy of the settings and its requests. `SiteSettings` has the two halves of a read (`GetHit`/`GetMiss`,
`QueryAnswers`/`QueryFails`, `StoreCopy`) and of a save (`UpsertRow`, `DropCopy`). `since[m]` records how long ago
m could last be read, so freshness is a statement about values and not about timestamps. `excused` names the
clicks the key could not protect: overlapping deliveries, an expired row or one of another session, a failed lookup or save.
A handler that finds a usable row has no excuse.

### The other modules

| module | state | actions |
|---|---|---|
| `CouponIssue` | the coupon's row (`totalQuantity` a number or `Unlimited`, null), its holders, requests past their checks | `RedeemRead`, `RedeemCommit`, `EditCoupon`, `CountIssued`, `DeleteCoupon` |
| `Accounts` | the User row with its dates, logins under way, tokens, a reset link | `LoginRead`, `LoginWrite`, `SocialLogin`, `RecheckToken`, `SessionExpires`, `IssueLink`, `ResetPassword`, `WithdrawRead`, `WithdrawCommit`, `StaffSetsStatus`, `ConvertDormant`, `FindPurge`, `Purge`, `Minute`, `Years` |
| `PhoneCode` | the rows of one number, requests under way | `CheckSend`, `CreateCode`, `CheckCode`, `WrongCode`, `RightCode`, `CodesTick` |
| `ResetLink` | the tokens of one member, requests past their check; `late`: the uses that had passed it when the password was reset | `IssueDelete`, `IssueCreate`, `UseRead`, `UseCommit`, `Expire`, `Cleanup` |
| `Wishlist` | rows, the store's ids, pending, initialized; the lists under way (`Fetches`) | `ButtonMounts`, `SessionChanges`, `ListRead`, `ListArrives`, `ListFails`, `Toggle`, `Served`, `NotServed`, `AnswerLost`, `Settles` |
| `CategoryTree` | parentId, products' categories, requests past their checks | `CreateCategory`, `CheckMove`, `Move`, `CheckDelete`, `Delete`, `PutProduct` |
| `JobQueue` | per job: state and failures; memQueue, memRunning; what BullMQ keeps | `EnqueueMem`, `LoopTake`, `LoopEnd`, `TimerFires`, `MemCrash`; `EnqueueRedis`, `WorkerTake`, `Promote`, `Recover`, `WorkerCrash`, `Forget`, `RetryFailedJob`; `HandlerSucceeds`, `HandlerFails` |
| `RateLimit` | counter with its expiry, buckets in memory | `Multi`, `PExpire`, `MultiFails`, `PExpireFails`, `Dies`, `LimitTick` |
| `NaverFeed` | the copies by place, requests under way | `Hit`, `Miss`, `Generate`, `Store`, `StoreFails`, `Invalidate`, `InvalidateFails`, `Answer`, `FeedTick`, `ChangeCatalogue` |

Clocks are ticks. Where a request is shorter than a tick (a query against a time to live of a minute, a login
against years) the tick waits for the requests under way; that is an assumption about the deployment, stated
in each module's heading.

## 3. The runs

The runs of `Checkout` have two orders and one member with one coupon and one point. The member's order takes
both skus, uses the coupon and the point and earns one. Two orders are enough for the interesting
conflicts, which are about one resource (a unit, a coupon, a point, one order's row) that two actors
want; each run has at least two requests in flight.

| run | instance | shows |
|---|---|---|
| `checkout` | the member pays by INICIS or NAVERPAY, a guest by Toss; stock for one order of the member; two requests, any of which can return, one of which also handles webhooks and cancellations; partial and full cancellations in the console; symmetric orders; about a million states | `TypeOK`, `CouponHeldOnce`, `PaidWasCharged`, `SoldWithinStock`, `PaidUntilRefund`, and the refinement `CouponLifeKept` |
| `checkout_toss` | everybody pays by Toss; whole payments cancelled in the console; fair cron; no symmetry, because of the liveness properties | `HoldOfPending`, `PendingEnds` |
| `double_finalize` | Toss, return and webhook, ample stock | `EarnedOnce` is violated |
| `success_unpaid` | Toss, one request | `SuccessMeansPaid` is violated |
| `hold_lost` | NAVERPAY | `HoldOfPending` is violated |
| `coupon_taken` | Toss, two orders of one member with one coupon, the payment of the first one late | `CouponNotTaken` is violated |

The others:

| run | instance | shows |
|---|---|---|
| `after_sales` | one order of two units of one sku, with coupon and points, total 2 or 3; two administrators, one of whom handles returns, a customer with two possible return rows, a cancellation; each of four `Desks` | `AfterTypeOK`, `RefundsBacked`, `UnitsBackOnce`, `PointsBackOnce`, `CouponBackWhenClosed`, and the refinement `MoneyLifeKept` |
| `reopened` | the refund desk of `after_sales` with one return row | `RefundedIsFinal` is violated |
| `restored_twice` | one administrator and one customer in a shop that uses refunds and returns | `RestoredOnce` is violated |
| `platform` | three jobs, two of them with one jobId and one without a handler; two callers of the limiter on two instances; two requests for the feed on two instances | `PlatformTypeOK`, `OneLoop`, `FeedFresh`, `FeedPromise`, the refinement `PromiseKept`, and the liveness `JobEnds`, `BlockEnds` |
| `shop` | the seven parts of `MCShop`, each with two or three requests at once | the properties of `OrderRequests`, `CouponIssue`, `Wishlist`, `CategoryTree`, `Accounts`, `PhoneCode`, `ResetLink` |
| `dormant` | the account of `shop`, with a password, a social account or both | `DormantMeansAway` is violated |

`MCShop` and `MCPlatform` put modules that share no state into one run: the initial choice of `part` decides which one
moves, so a run is the union of the components' behaviours and not their product.

Deadlock is not checked: when all orders exist and have reached their end, or all tokens and codes that
the bounds allow exist, nothing remains to be done; that is the end of the instance and no fault.

### Bounds

* `Checkout`: the number of orders (`Orders`, each created once), of requests in flight (`CreateProcs`,
  `ReturnProcs`, `HookProcs`, `CancelProcs`), the forms and the initial stock and points. No counter is cut
  off: each is bounded by the requests that can still run.
* `AfterSales`: `Admins`, `ReturnStaff`, `Customers`, `Returns`, `MaxUnits`, `Listings` (1: the storefront's form lists an item once). All its conflicts are about the
  rows of one order (two refunds, a refund and a return, a retry after a lost answer), so one order is enough, and a total
  of 3 lets a refund be made in three parts, two of which may claim to be the last.
* Time: `Ttl`, `FeedTtl`, `Window`, `ResendWindow`, `CodeTtl`, `Hour`, `Recheck`. In Shop.cfg `Ttl` is 1, to
  keep the run short with two instances, a page and two handlers; `SettingsAreFresh` is proved for every `Ttl`.
* What the environment may do: `MaxFaults`, `MaxSaves`, `MaxEdits`, `MaxLosses`, `MaxStaff`, `MaxCodes`, `MaxLinks`,
  `MaxCrashes`, `MaxRetries`, `MaxTroubles`, `MaxChanges`, `MaxOutages`, and `Fetches`, the lists of wishes that can be under way at once (2). Each admits
  the events its properties are about, at least once, on top of a full run without them; the theorems hold for any value.
* `Shop.cfg` has two carts, both with 100 points typed: one with a coupon worth more than the goods (discount, points and the
  clamp at zero all matter), and one without, where nothing but the key is in the way of a second order; and two values of the free shipping minimum, one on each side of it; `TotalsAgree` and
  `NothingIsGivenAway` are proved for all carts.
* Symmetry: instances and deliveries are interchangeable in `MCShop` (`MCSym`), orders in the run `checkout`. Runs
  with liveness properties use none.

### Where a property needs its scope

* `SoldWithinStock` is checked with one request at a time that restores stock. Two of them at once can
  restore twice (hazard at `stock.ts:185`).
* `HoldOfPending` holds only where no provider's notice hits a waiting order, hence the Toss-only run; the run
  `hold_lost` shows what happens otherwise.
* `UnitsBackOnce` and `PointsBackOnce` hold in a shop that gives goods back on one screen (`OneDesk`: refunds
  only, or returns only). On the return screen it takes one clerk, one customer and requests that list an item once, as
  `ReturnForm.tsx` sends them: two requests at once, two clerks who complete one return, or an item listed twice (each line is
  compared alone, `returns/route.ts` lines 73 to 83) restore more than was taken. The proofs add when that is so (section 4, *After the sale*). `restored_twice` shows that using both is enough to break the first. The administrator's
  cancellation restores without recording it in `refundedQuantity`, and the product form saves a stock
  number it loaded earlier, so no such property holds with them. `RefundsBacked` and `CouponBackWhenClosed` hold on every desk.
* `MoneyLifeKept` needs that nothing but returns records refunds on a desk that has them. The rest of a return is
  `Math.min(rr.refundAmount, totalAmount - refundedAmount)` (`admin/returns/[id]/route.ts` line 59) and is not compared with
  zero; a refund by hand next to it, or a notice that sets `refundedAmount`, can take `refundedAmount` past the price, and then
  a negative refund is recorded. The desks of the run keep returns apart from both.
* `RootReached` excludes two moves that overlap (`crossed`): they pass each other's checks and can make a
  cycle, which every page that walks up the tree would follow for ever.
* `FeedPromise` excludes a request that had generated an older feed before the invalidation and stores it afterwards.

### Fairness

`FairSpec` adds weak fairness of `Expire` and `CronExpire` only: time passes, and the scheduler calls
the cron every five minutes (docs/DEPLOY.md line 222; the handler goes on with the next order when one
fails). Customers, providers and running requests owe nothing: a customer may never come back, a webhook may be lost, a
request may hang. `PendingEnds` rests on the cron alone, and `HoldEnds` follows from it (`HoldsEnd`).

`Platform.cfg` uses `QueueFairness` of `JobQueue`: the event loop runs (`Loop`), timers fire, BullMQ promotes,
recovers and hands out jobs, and a call of an outside service ends one way or the other
(HTTP and SMTP connections are closed sooner or later).
`WorkerTake` is strongly fair, since the worker's slots fill and empty while a job waits: BullMQ hands out in order. Nobody owes a crash, a
retry by hand or another job. For the limiter: time passes, a PEXPIRE that was sent ends, and callers
keep calling; without the last a key that lost its expiry would stay, but block nobody.

### Findings

1. **An order can be settled twice** (`double_finalize`). `finalizeOrderPayment` checks the status in a
   plain read and updates the order by id. The webhook and the customer's return of one payment both
   pass the check; stock is taken twice, points are earned twice and the coupon counted twice.
   A status condition in the update of the order, as in `cancelPendingOrder`, would decide the race.
2. **Success without an order** (`success_unpaid`). If the order is cancelled while the provider approves,
   `finalizeOrderPayment` returns silently, and the handler neither cancels the payment nor tells the customer.
3. **A coupon blocked for good** (`hold_lost`). The NAVERPAY webhook (and inicis/notify) cancels a waiting order
   without releasing its coupon.
4. **A coupon taken from the order that reserved it** (`coupon_taken`). `finalizeOrderPayment` finds the coupon's row by its
   being unused, whoever has reserved it. An order that was read PENDING and expires while its payment is approved gives its
   reservation up, a second order takes it, and the late commit uses the coupon up. The second order is paid with its
   discount all the same, updates no row and counts a second use of one coupon. src/README.md line 370 promises that the
   reservation prevents this. `CouponLifeKept` says that there is no other way: this is the step `UseLate` of `CouponLife`.
5. **Stock restored twice** (`restored_twice`). An administrator decides a full refund; before its transaction the
   customer asks for a return of the same units, reading `refundedQuantity` 0; the refund commits and restores; the
   return is written, later completed, and restores again, beyond the quantity ordered. stock.ts line 181 says that
   recording the restored quantity prevents this.
6. **Dormant without having been away** (`dormant`). Only the password login writes `lastLoginAt`; a member who logs in by
   a social account every day, or whose session is prolonged, is converted a year after the last login by password. This includes
   members who have a password as well: find-password/by-pass gives one to anybody who verifies the phone.
7. **A refunded order goes on** (`reopened`). An administrator's change of the status is checked against a status read before
   its transaction, which then updates the order by id. A full refund that commits in between is overwritten: the money, the
   points and the units are back, and the order is PREPARING and can be shipped. On the return screen such an order is
   DELIVERED and admits a further return, and the points can be settled a second time (see `PointsComeBackOnce`).

Met on the way, without a run of their own: the Idempotency-Key is saved after the order is created, so two deliveries of one
click that overlap both find nothing and make two orders, although idempotency.ts line 7 promises to prevent that for
double clicks (`OneOrderUnlessExcused` excuses such clicks and says what does hold); cancelling a paid order gives
neither the coupon nor the points back and does not cancel the payment, against src/README.md line 565; a request for a return may list one
item twice and then asks for more than is left of it; a password link whose use passed its check before another use
committed resets the password a second time, against "one-time" in password-reset.ts line 11 (`OldLinksDead` says that there is no other way); the save of a key is an upsert with an empty update, so an expired row stays and the new
answer is not kept; the checkout page makes a new key for every click, so a second click is never a repetition;
after a refund whose transaction failed no row tells of the money; a failed fetch of the wish list fills the store with
nothing, and the button's comment that it waits for the session is not true when it mounts first; a failed query of the settings
counts as "no row" and its defaults are kept for TTL_MS; the depth limit of categories is
not enforced on moves; the tiers of membership.ts have no caller and the order handler uses flat values; hero-sync writes
slides from settings that may be cached; the restock job has a name but neither caller nor handler; the rest of a return can be
negative when `refundedAmount` has passed the price, and is recorded as a negative refund.

## 4. What is proved

Each proof module has one inductive invariant per component, a lemma per action (or per group of actions that change
the same thing) that it is preserved, and the theorems as consequences. TLC checks the properties on the small
instances; the theorems hold for all values of the constants that satisfy the named assumptions. A few theorems have a hypothesis about
the behaviour as well (`[]NoOverlap`, `[]PaidOnce`, `[](OneDesk => NotReopened)`): each names a race the code does not exclude, and the section says which
finding or hazard it is. `HoldsEnd` alone has a liveness property as hypothesis, `PendingEnds`, which TLC checks.

### Checkout

`CheckoutProofs.tla` and `CheckoutSafety.tla` prove, for every set of orders, members, coupons, skus, forms and
requests (assumptions: `NoneAssumption`, `FormsAssumption`, `StoreAssumption`, `ConsoleAssumption`, which say
that the constants are of their types, that NULL is no id and that guests use neither coupons nor points):

| theorem | of |
|---|---|
| `TypeCorrect` | `Spec => []TypeOK`: also that no stock and no balance is ever negative |
| `CouponReservation` | `Spec => []CouponHeldOnce` |
| `NoPaymentNoOrder` | `Spec => []PaidWasCharged` |
| `NothingSoldTwice` | `Spec /\ []NoOverlap => []SoldWithinStock`, for finitely many orders |
| `NothingSoldTwiceAlone` | `Spec => []SoldWithinStock`, with one process in `HookProcs` and `CancelProcs` |
| `PaidStays` | `Spec => PaidUntilRefund` |
| `HoldsOfToss` | `Spec => []HoldOfPending`, assuming `TossOnly` |
| `HoldsEnd` | `Spec /\ PendingEnds => HoldEnds`, assuming `TossOnly`: every hold ends if every order leaves PENDING |
| `CouponLivesOn` | `Spec => CouponLifeKept`: the payment flow implements `CouponLife` |

`CouponHeldOnce` is not inductive: an order that waits need not have the hold on its coupon any more, since a
late payment of another order can take it away. The strengthening is `HeldOrUsed`: a waiting order
has the hold, or its coupon is used up, and then nobody can take the hold again. `PaidRows`
(a paid order exists, and a status that says paid implies `paidAt`) and the types complete `StoreInv`, which speaks of the rows only; each
transaction of `OrderStore` has a lemma that it preserves `StoreInv`. `ProcInv` relates a
running request to the rows: it works on an existing order, and one that finalizes has seen the
payment charged, which is never undone (`Monotone`). `Inv` is their conjunction; `NextInv` goes through the actions.

`PaidStays` is an action property and rests on the ways a status can change (`StatusShape`: created, settled,
abandoned while it waits, or an unguarded update after a provider's notice or a refund request). An unguarded update
acts on what an earlier step has read, so the invariant `NoticeSeen` says that a notice was about a reversed
payment, and `ReversedStays` that this cannot become untrue while the request is suspended.

`HoldsOfToss` says when a hold belongs to a waiting order: `TossOnly` excludes the notices that cancel a waiting order
(INICIS, NAVERPAY, and partial cancellations in Toss' console). Without it the property is false (`hold_lost`). The proof
adds `ClosedSeen` (an unguarded update hits an order that no longer waits) and `NoPartial`.

`CouponLivesOn` maps the coupons' rows and the orders that wait. Its invariant adds `HoldCarried`: a hold is on an unused coupon and by an
existing order that carries it, so a cancellation releases at most one coupon, and each transaction is one step of `CouponLife` or
leaves coupons and waiting orders as they are.

`NothingSoldTwice` rests on `NoOverlap`: no two requests are at once between reading and giving back the units of
one order. It is a hypothesis about behaviours and not about constants, since whether a provider notifies once and the customer
clicks once is not in the hands of the code (which could decide the race with a conditional update of `refundedQuantity`).
Adding up the paid orders is not inductive: an order paid twice takes its units twice, and a cancelled one keeps them until
the restoration. The invariant `Sold` says that there is an account `net` of units by order which adds up to what is missing from
the stock (`Balanced`) and in which each order has what it must have (`Covers`): its units while it counts as paid and
until they come back, and once more if a request is about to give them back while it counts as paid.
`RestoreSeen` says that what such a request has read is still so. `NothingSoldTwiceAlone` discharges the hypothesis where one
process handles all cancellations and notices, as in the run.

### After the sale (`AfterSalesProofs`)

Assumptions: those of `Checkout`, `AfterAssumption` (types of prices, options and screens), and that the sets that are summed over are finite
(skus for the amount of a return; administrators and customers for the money in flight; orders for the units).

| theorem | of | further hypotheses |
|---|---|---|
| `AfterTypeCorrect` | `AfterTypeOK` | none |
| `RefundsAreBacked` | `RefundsBacked` | none |
| `CouponsComeBack` | the action property `CouponBackWhenClosed` | none |
| `PointsComeBackOnce` | `PointsBackOnce` | `Apart`, `[](OneDesk => NotReopened)` |
| `UnitsComeBackOnce` | `UnitsBackOnce` | `Apart`, `[]PaidOnce` |
| `UnitsComeBackOnceAlone` | `UnitsBackOnce` | `Apart`, one process in `ReturnProcs` |
| `PointsComeBackOnceAlone` | `PointsBackOnce` | one administrator, one customer, one process in `ReturnProcs` |
| `MoneyGoesBackFirst` | `MoneyLifeKept`: the shop implements `MoneyLife` | `ReturnsAlone` |

* `AfterInv` is the types and what a suspended request knows (`JobsKnow`: its order exists, its sums are naturals, its row is a
  row). The steps of `Checkout` are used through what they can do to rows and requests (`RowMoves`, `ProcMoves`), so each is
  looked at once.
* `Backed`: what is on record, and what requests past their call are about to record (`Flying`, a sum over them), is
  at most what the provider gave back. `RefundsBacked` alone is not inductive: between a call and its transaction the money is on no row.
* `PointsInv`: points are settled at most once, and then all money is on record. It needs `DeskInv`: on one screen the amounts on record are
  the refunds' (`BooksKept`), and returns of one order run one after the other (`ReturnsApart`).
* `UnitsInv`: the units missing from the stock are the sum over the paid orders of what was not given back, and an order is settled once.
* `Apart` restricts a shop with the return screen to one clerk and one customer at a time, and `OneDesk` to requests that list an item
  once (`Listings = 1`). Both are needed: lines are compared one by one, the check for a running return is read
  before the new one is created (`returns/route.ts` line 61), and a return's completion is not guarded by its status. Shops with
  the refund form are not restricted.
* `NotReopened` concerns the return screen only: no order whose points were settled is DELIVERED. A change of the status that was read before can
  break it (finding 7); then a total made up by further returns settles the points again. In the run the totals of the
  forms and the prices leave no such sum, so the run needs no such hypothesis.
* `PointsComeBackOnceAlone` needs no hypothesis about behaviours. It discharges `NotReopened` by the invariant `ClosedStays`: an order whose
  points were settled is neither paid nor waiting, and the one administrator who is changing a status looked at an order whose points
  were not settled. To settle them takes the same administrator, so nothing happens between the look and the write; with two it can
  (finding 7). With `HookProcs` not empty the property says nothing (`OneDesk`).
* `MoneyGoesBackFirst` maps the price, `returned` and the sum of the RefundRequest rows to `MoneyLife`: each step is one of its steps or leaves
  all three alone. `Backed` gives that a record is covered; that it never shrinks is `SoundJob`: what a request past its call
  is about to record is not negative. For the refund form this is the schema's `positive()`; for a return it is the rest of the
  order, so `SoundBooks` keeps `refundedAmount` equal to the sum of the rows while the return screen is used, and the rows are below the price.
  `ReturnsAlone` excludes what would break that equation (section 3, *Where a property needs its scope*); it restricts no shop without the return screen.
* `PaidOnce`: no two requests settle one payment at once (finding 1), which takes the units twice.

### Pricing, settings and order requests (`RequestsProofs`)

Assumptions: `SettingsAssumption`, `RequestsAssumption`, `NoOrderAssumption` (types of the constants; NULL-like values
are no rows; pages are no deliveries).

| theorem | of |
|---|---|
| `SettingsAreFresh`, `OrdersReadFreshSettings` | `SettingsFresh`, of the settings alone and within the order requests |
| `RequestsTypeCorrect` | `RequestsTypeOK`: also that no total, discount or number of points is negative |
| `OneOrder` | `OneOrderUnlessExcused` |
| `ReplaysAreTrue` | `ReplayTellsTheTruth` |
| `TotalsAgree`, `NothingIsGivenAway` | `PageAndOrderAgree`, `NothingGivenAway` |

The pricing lemmas say that a discount is between 0 and the goods, that discount and points together do not exceed them,
and that `PagePoints` of the page, sent through the handler's `PointsTaken`, come back unchanged: hence one total. For freshness
the invariant adds to `CopyHonest` and `ReadFresh` that the current value has `since` 0 and that a reader who is about to
store has a value of this tick: the tick waits for readers, so an answer cannot age between the query and the store. For the order
requests `OrderInv` says what a click has shown (`PageTrue`), that an answer names an order made for that click
(`MadeOnce`, `KeyTrue`), that an order that was made is saved under its key or its handler is about to save it
(`SavedOrSaving`), and that an unexcused click has at most one delivery past its lookup (`OneBusy`): a second
one would have found the first one's row.

### Accounts (`AccountsProofs`)

Assumption: `RecheckAssumption`.

| theorem | of |
|---|---|
| `AccountsTypeCorrect` | `AccountsTypeOK` |
| `BlockReachesSessions` | `SignedOutSoon` |
| `BlocksStay`, `PasswordLoginsKeep` | the action properties `BlockedStays`, `PasswordLoginKeeps` |

The invariant adds that `gone` counts only while the member is blocked, that a stamp is old or missing only if
nobody logged in by password since the years passed (`StampTrue`), and what the cron's suspect was when it was found (`Suspects`): purging acts on an earlier look.

### Codes, links, coupons, wish list, categories (`ShopProofs`)

Assumptions: `CodeAssumption`, `LinksAssumption`, `IssueAssumption` (sets of requests finite and not empty), `TreeAssumption`
(finitely many categories; the root and NULL are none of them).

| theorem | of | why it is inductive |
|---|---|---|
| `FewGuesses` | `GuessesBounded` | wrong guesses equal the attempts counted (`Counted`); a request past its check saw fewer than MAX_ATTEMPTS, so the sum is bounded by cardinality |
| `MessagesApart` | `CodesApart` | a sender whose count is still the number of rows saw the newest row old enough (`SawOldEnough`) |
| `NewestLinkOnly` | `OneLiveLink` | an issuer that deleted when there were n left nothing alive up to n (`NothingLeft`) |
| `ResetEndsLinks` | `OldLinksDead` | every reset marks what is unused and nothing comes back to life, so a use that passes its check later has a newer link; those that had passed it are in `late` |
| `CountIsTrue` | `IssuedCountTrue` | row and count are one transaction; a deletion needs no holders |
| `OverIssueIsBounded` | `OverIssueBounded` | `WithinAllowed`: a request past its check had seen a free place, so holders and requests together pass the limit by the other requests at most |
| `IssueTypeCorrect`, `CodesTypeCorrect`, `LinksTypeCorrect`, `WishTypeCorrect`, `TreeTypeCorrect` | the type invariants; the last says that no row refers to a deleted category | |
| `ShopTypeCorrect` | `ShopTypeOK`, of the composition `MCSpec` | `PartsOfShop`: a behaviour of the composition is one of each part, since a step of one leaves the variables of the others alone |
| `HeartIsTrue` | `HeartTellsTheTruth` | a request under way shows in the store what it asked for, and the row is that once it was served and the opposite before (`RequestRight`, `PendingHasWish`); the list on its way is right about the products nobody clicked since it was read (`ListRight`); what the store was never told is `doubtful` (`NothingKnownYet`) |
| `TreeHasARoot` | `RootReached` | a move past its check has a set of categories, closed under children, with the moved one in it and the new parent not (`NotBelow`); so no move makes a cycle. Without cycles a walk up meets new categories only, and comes to the root in as many steps as there are categories (pigeonhole) |

### Platform (`PlatformProofs`)

Assumptions: `JobAssumption`, `FeedAssumption`, and the limiter's.

| theorem | of |
|---|---|
| `QueueTypeCorrect`, `FeedTypeCorrect`, `LimitTypeCorrect` | the type invariants `TypeOK` of `JobQueue`, `FeedTypeOK`, `LimitTypeOK` |
| `LoopIsOne` | `OneLoop` |
| `PromiseIsKept` | `PromiseKept`: the queue implements `JobPromise` |
| `FeedIsFresh`, `InvalidationHolds` | `FeedFresh`, `FeedPromise` |
| `PlatformTypeCorrect` | `PlatformTypeOK`, of the composition `MCSpec` |

`JobInv` says which jobs the array holds (`ArrayWaits`) and that a job's failures are those it can still afford or it is
at its end (`Accounted`); `LoopInv` that running loops and `memRunning` agree. The refinement goes through the actions: each is a step of
`JobPromise` or a stutter. The queue's types include that
the array has as many entries as jobs wait; with `ArrayHolds` (none of them is missing) the array is a bijection, which
`ArrayCounts` counts. For the feed `FeedInv` adds that `past` is ordered (`PastInOrder`), that a copy of age k holds at least
the catalogue of k ticks ago (`CopiesDated`), that what is about to be stored was generated in this tick (`StoresOfNow`),
and what invalidations under way promise (`PromisesKept`). `PartsOfPlatform` says that every behaviour of the composition is one of the
queue, one of the limiter and one of the feed; `PlatformTypeCorrect` follows from it and the three theorems about types, as any other
theorem here would.

### Induction

The library's induction theorems take an operator as a parameter, which the provers here cannot instantiate. `FiniteSums` therefore states
induction for sets: a family of subsets that holds the empty set and is closed under adding an element holds every finite set
(`SubsetInduction`), and a set of naturals with 0 and every successor is Nat (`NatSetInduction`). That is enough for the sums and
for the walk up the category tree. `SumChange` is what the proofs about units and refunds use: a step that changes one row changes the
sum by the difference, in whatever order the fold takes the rows.

### Only model-checked

* The liveness properties `PendingEnds`, `JobEnds`, `BlockEnds`: liveness under fairness and ENABLED are beyond the prover.
* That `UnitsBackOnce` and `PointsBackOnce` hold with two administrators on the instance of `after_sales` without hypotheses about behaviours; with
  one of each they are theorems (`UnitsComeBackOnceAlone`, `PointsComeBackOnceAlone`).

Every invariant and every action property of a passing run, and every refinement, is stated by a theorem.

## 5. The plan

In this order:

1. The login lockout (a sliding window over the login log, attempts in flight), two-factor enrolment and registration
   as further parts of `Accounts`, with their theorems.
2. `AfterSales` with the providers' notices (`HookProcs`), once the handlers look at the status they write over.
3. Bulk product upload and the catalogue importer against the stock of `OrderStore`.

## 6. What is not modelled, and why

Signatures, tokens of webhooks and crons, validation of request bodies (they reject requests before any
state is touched); notifications, audit log and logging (no row the shop acts on); the linking of a further social account
by a member who is signed in (the login library does it, and
auth.ts lines 203 to 211 do not look at the status there; `AccountsInit` starts with every combination instead); the text of redirects; the seconds and dates
behind `expiresAt` (only "due" matters) and the expiry of points and coupons by date; tracking numbers and memos.

Most of the source is pages, forms and tables of the storefront and the administration, which read rows, format them
and call the routes modelled here: the stateful code (`lib`, `api`, `store`) is about a third of it, and
of that the larger half reads or writes single rows without a protocol (reviews, questions, support tickets, banners, notices,
reports, search, exports). Images, mail and message templates, the outside services, cryptography and the
migration scripts are conversions or input and output. The components are listed in `PROJECT.json` with their status and reasons.
