----------------------------- MODULE MCPlatform -----------------------------
(***************************************************************************)
(* Small instances, for TLC, of the three services that use Redis where it *)
(* is configured and the memory of the process where it is not: JobQueue,  *)
(* RateLimit and NaverFeed.  They share no state, so each is checked       *)
(* alone: the initial choice of part decides which one runs.               *)
(***************************************************************************)
EXTENDS JobQueue, RateLimit, NaverFeed, TLC

CONSTANTS j1, j2, j3, id

(* Two calls of enqueue with the same jobId and one without, whose name    *)
(* has no handler.                                                         *)
MCJobId == j1 :> id @@ j2 :> id @@ j3 :> NoId

VARIABLE part

MCInit ==
  /\ part \in {"queue", "limit", "feed"}
  /\ Init /\ LimitInit /\ FeedInit
  /\ part # "queue" => backend = "memory"
  /\ part # "feed" => ~shared

LimitPart(A) == part = "limit" /\ A /\ UNCHANGED <<part, vars, feedVars>>

MCNext ==
  \/ part = "queue" /\ Next /\ UNCHANGED <<part, limitVars, feedVars>>
  \/ LimitPart(LimitNext)
  \/ part = "feed" /\ FeedNext /\ UNCHANGED <<part, vars, limitVars>>

(* The queue's fairness is its own; none of its fair actions is possible   *)
(* before the first enqueue.  The limiter's: time passes, a call to Redis  *)
(* that was sent ends, and customers keep calling (a key nobody asks for   *)
(* blocks nobody).                                                         *)
MCSpec ==
  /\ MCInit /\ [][MCNext]_<<part, vars, limitVars, feedVars>>
  /\ QueueFairness
  /\ WF_limitVars(LimitPart(LimitTick))
  /\ WF_limitVars(LimitPart(\E c \in Callers : Multi(c)))
  /\ \A c \in Callers : WF_limitVars(LimitPart(PExpire(c)))

(* Every service keeps its variables in their types; the array of the      *)
(* in-memory queue holds just the jobs that wait, each once.               *)
PlatformTypeOK == TypeOK /\ LimitTypeOK /\ FeedTypeOK
=============================================================================
