----------------------------- MODULE RateLimit -----------------------------
(***************************************************************************)
(* One key of rateLimitAsync (lib/security.ts): a counter in Redis that    *)
(* MULTI increments and reads the expiry of, PEXPIRE gives the window to   *)
(* when it has none, and, when Redis fails, a bucket in the memory of the  *)
(* instance that was asked.  An instance may die between the two calls.    *)
(* Time passes in ticks.                                                   *)
(***************************************************************************)
EXTENDS Naturals

CONSTANTS
  Callers,       \* requests at the limiter at once
  Servers,       \* instances with a bucket each
  Limit,         \* max
  Window,        \* windowMs, in ticks
  MaxTroubles    \* bound: Redis calls that fail, instances that die

ASSUME LimitAssumption ==
  /\ Limit \in Nat \ {0}
  /\ Window \in Nat \ {0}
  /\ MaxTroubles \in Nat

VARIABLES
  counter,   \* [count, left]: the Redis key; count 0 is no key
  bucket,    \* by instance: [count, left]; count 0 is no bucket
  call,      \* by caller: "idle", or "expire": its MULTI found no expiry
  troubles

limitVars == <<counter, bucket, call, troubles>>

Endless == Window + 1   \* a counter without an expiry

LimitTypeOK ==
  /\ counter \in [count : 0..Limit + 1, left : 0..Endless]
  /\ bucket \in [Servers -> [count : 0..Limit, left : 0..Window]]
  /\ call \in [Callers -> {"idle", "expire"}]
  /\ troubles \in 0..MaxTroubles

LimitInit ==
  /\ counter = [count |-> 0, left |-> Endless]
  /\ bucket = [s \in Servers |-> [count |-> 0, left |-> 0]]
  /\ call = [c \in Callers |-> "idle"]
  /\ troubles = 0

-----------------------------------------------------------------------------
(* Beyond the limit the count is not told apart.                           *)
Counted == [counter EXCEPT !.count = IF @ > Limit THEN @ ELSE @ + 1]

WantsExpiry_OfTheFirst(c) == counter.count = 0

WantsExpiry(c) == counter.left = Endless

Multi(c) ==
  /\ call[c] = "idle"
  /\ counter' = Counted
  /\ call' = IF WantsExpiry(c) THEN [call EXCEPT ![c] = "expire"] ELSE call
  /\ UNCHANGED <<bucket, troubles>>

(* No key, no effect: the one it was meant for may have expired since.     *)
PExpire(c) ==
  /\ call[c] = "expire"
  /\ counter' = IF counter.count = 0 THEN counter ELSE [counter EXCEPT !.left = Window]
  /\ call' = [call EXCEPT ![c] = "idle"]
  /\ UNCHANGED <<bucket, troubles>>

(* The synchronous rateLimit, in memory.                                   *)
InMemory(s) ==
  bucket' = [bucket EXCEPT ![s] =
    IF @.count = 0 THEN [count |-> 1, left |-> Window]
    ELSE IF @.count >= Limit THEN @ ELSE [bucket[s] EXCEPT !.count = @ + 1]]

(* A call to Redis fails, with or without effect there.                    *)
MultiFails(c, s) ==
  /\ call[c] = "idle"
  /\ troubles < MaxTroubles
  /\ troubles' = troubles + 1
  /\ counter' \in {counter, Counted}
  /\ InMemory(s)
  /\ UNCHANGED call

PExpireFails(c, s) ==
  /\ call[c] = "expire"
  /\ troubles < MaxTroubles
  /\ troubles' = troubles + 1
  /\ call' = [call EXCEPT ![c] = "idle"]
  /\ InMemory(s)
  /\ UNCHANGED counter

Dies(c) ==
  /\ call[c] = "expire"
  /\ troubles < MaxTroubles
  /\ troubles' = troubles + 1
  /\ call' = [call EXCEPT ![c] = "idle"]
  /\ UNCHANGED <<counter, bucket>>

LimitTick ==
  /\ counter' = CASE counter.left = Endless -> counter
                  [] counter.left = 1 -> [count |-> 0, left |-> Endless]
                  [] OTHER -> [counter EXCEPT !.left = @ - 1]
  /\ bucket' = [s \in Servers |-> IF bucket[s].left <= 1 THEN [count |-> 0, left |-> 0]
                                  ELSE [bucket[s] EXCEPT !.left = @ - 1]]
  /\ UNCHANGED <<call, troubles>>

LimitNext ==
  \/ \E c \in Callers :
       \/ Multi(c)
       \/ PExpire(c)
       \/ Dies(c)
       \/ \E s \in Servers : MultiFails(c, s) \/ PExpireFails(c, s)
  \/ LimitTick

LimitSpec == LimitInit /\ [][LimitNext]_limitVars

-----------------------------------------------------------------------------
Blocked == counter.count > Limit

(* The key is never blocked for good: though an instance may die before it *)
(* gave the key its expiry, a later call does, and no call prolongs the    *)
(* window, however often a blocked caller comes back.                      *)
BlockEnds == Blocked ~> ~Blocked
=============================================================================
