------------------------------ MODULE JobQueue ------------------------------
(***************************************************************************)
(* The background jobs of src/src/lib/queue.ts: messages to customers that *)
(* are sent outside of the request.  With REDIS_URL set they are jobs of a *)
(* BullMQ queue and one worker process handles up to Concurrency of them   *)
(* at a time; without it they wait in an array of the server process and a *)
(* loop handles them one after the other.                                  *)
(*                                                                         *)
(* A handler is the call of an outside service, so between its start and   *)
(* its end anything can happen.  Everything else between two awaits is one *)
(* step.  The backend is fixed when a process starts.                      *)
(***************************************************************************)
EXTENDS Naturals, Sequences, FiniteSets

CONSTANTS Jobs,         \* the calls of enqueue()
          Handled,      \* those whose name has a registered handler
          JobId,        \* opts.jobId of a call
          Concurrency,
          MaxCrashes, MaxRetries,  \* bounds: processes that die, retries by hand
          NoId

ASSUME JobAssumption == /\ Handled \subseteq Jobs
                        /\ Concurrency \in Nat \ {0}
                        /\ MaxCrashes \in Nat /\ MaxRetries \in Nat

VARIABLES
  backend,   \* "memory" or "redis"
  state,     \* of each job
  failures,  \* job.attempts, or attemptsMade at BullMQ
  memQueue, memRunning,
  loops,     \* how many instances of memRunLoop are running
  forgotten, \* the finished jobs that Redis has removed
  stalled,   \* the jobs that have once lost their worker
  crashes, retries

memVars == <<memQueue, memRunning, loops>>
vars    == <<backend, state, failures, memVars, stalled, forgotten, crashes, retries>>

attempts == 5

States == {"new", "ignored", "waiting", "active", "stalled", "delayed",
           "completed", "failed"}

Active == {j \in Jobs : state[j] = "active"}

Init == /\ backend \in {"memory", "redis"}
        /\ state = [j \in Jobs |-> "new"]
        /\ failures = [j \in Jobs |-> 0]
        /\ memQueue = <<>> /\ memRunning = FALSE /\ loops = 0
        /\ stalled = {} /\ forgotten = {}
        /\ crashes = 0 /\ retries = 0

Becomes(j, s) == state' = [state EXCEPT ![j] = s]

-----------------------------------------------------------------------------
(* The loop in memory.                                                     *)

MemRunLoop_Unguarded == memRunning' = TRUE /\ loops' = loops + 1

(* A call of memRunLoop returns at once when one is running.               *)
MemRunLoop == IF memRunning THEN UNCHANGED <<memRunning, loops>>
              ELSE memRunning' = TRUE /\ loops' = loops + 1

EnqueueMem(j) == /\ backend = "memory" /\ state[j] = "new"
                 /\ memQueue' = Append(memQueue, j)
                 /\ Becomes(j, "waiting")
                 /\ MemRunLoop
                 /\ UNCHANGED <<backend, failures, stalled, forgotten, crashes, retries>>

(* An instance of the loop that is not waiting for a handler takes the     *)
(* next job; without a handler the job is dropped and the loop goes on.    *)
AtLoopHead == backend = "memory" /\ loops > Cardinality(Active)

LoopTake_KeepsHead ==
  /\ AtLoopHead /\ memQueue # <<>>
  /\ LET j == Head(memQueue) IN Becomes(j, IF j \in Handled THEN "active" ELSE "failed")
  /\ UNCHANGED <<backend, failures, memVars, stalled, forgotten, crashes, retries>>

LoopTake == /\ AtLoopHead /\ memQueue # <<>>
            /\ LET j == Head(memQueue) IN Becomes(j, IF j \in Handled THEN "active" ELSE "failed")
            /\ memQueue' = Tail(memQueue)
            /\ UNCHANGED <<backend, failures, memRunning, loops, stalled, forgotten, crashes, retries>>

LoopEnd_KeepsFlag == /\ AtLoopHead /\ memQueue = <<>>
                     /\ loops' = loops - 1
                     /\ UNCHANGED <<backend, state, failures, memQueue, memRunning, stalled,
                                    forgotten, crashes, retries>>

LoopEnd == /\ AtLoopHead /\ memQueue = <<>>
           /\ memRunning' = FALSE
           /\ loops' = loops - 1
           /\ UNCHANGED <<backend, state, failures, memQueue, stalled, forgotten, crashes, retries>>

(* The back-off of a failed job is over.                                   *)
TimerFires(j) == /\ backend = "memory" /\ state[j] = "delayed"
                 /\ memQueue' = Append(memQueue, j)
                 /\ Becomes(j, "waiting")
                 /\ MemRunLoop
                 /\ UNCHANGED <<backend, failures, stalled, forgotten, crashes, retries>>

(* The server process dies: its array, its timers and its loop are gone.   *)
MemCrash == /\ backend = "memory" /\ crashes < MaxCrashes
            /\ crashes' = crashes + 1
            /\ state' = [j \in Jobs |-> IF state[j] \in {"waiting", "active", "delayed"}
                                        THEN "failed" ELSE state[j]]
            /\ memQueue' = <<>> /\ memRunning' = FALSE /\ loops' = 0
            /\ UNCHANGED <<backend, failures, stalled, forgotten, retries>>

-----------------------------------------------------------------------------
(* The queue in Redis.                                                     *)

(* BullMQ ignores a job whose id it still knows.                           *)
Known(j) == \E k \in Jobs \ {j} : /\ JobId[k] = JobId[j] /\ JobId[j] # NoId
                                  /\ state[k] \notin {"new", "ignored"}
                                  /\ k \notin forgotten

EnqueueRedis(j) == /\ backend = "redis" /\ state[j] = "new"
                   /\ Becomes(j, IF Known(j) THEN "ignored" ELSE "waiting")
                   /\ UNCHANGED <<backend, failures, memVars, stalled, forgotten, crashes, retries>>

(* The worker of the queue; a job nobody can handle fails at once, without *)
(* a retry (UnrecoverableError).                                           *)
WorkerTake(j) == /\ backend = "redis" /\ state[j] = "waiting"
                 /\ Cardinality(Active) < Concurrency
                 /\ Becomes(j, IF j \in Handled THEN "active" ELSE "failed")
                 /\ UNCHANGED <<backend, failures, memVars, stalled, forgotten, crashes, retries>>

(* BullMQ: the back-off is over; the worker process dies with its jobs;    *)
(* such a job is started again, once; an old job is removed.               *)
Promote(j) == /\ backend = "redis" /\ state[j] = "delayed"
              /\ Becomes(j, "waiting")
              /\ UNCHANGED <<backend, failures, memVars, stalled, forgotten, crashes, retries>>

WorkerCrash == /\ backend = "redis" /\ crashes < MaxCrashes
               /\ crashes' = crashes + 1
               /\ state' = [j \in Jobs |-> IF j \in Active THEN "stalled" ELSE state[j]]
               /\ UNCHANGED <<backend, failures, memVars, stalled, forgotten, retries>>

Recover(j) == /\ state[j] = "stalled"
              /\ Becomes(j, IF j \in stalled THEN "failed" ELSE "waiting")
              /\ stalled' = stalled \cup {j}
              /\ UNCHANGED <<backend, failures, memVars, forgotten, crashes, retries>>

Forget(j) == /\ backend = "redis" /\ state[j] \in {"completed", "failed"}
             /\ forgotten' = forgotten \cup {j}
             /\ UNCHANGED <<backend, state, failures, memVars, stalled, crashes, retries>>

(* POST /api/admin/queue/retry: without Redis it does nothing.             *)
RetryFailedJob(j) == /\ backend = "redis" /\ state[j] = "failed"
                     /\ j \notin forgotten /\ retries < MaxRetries
                     /\ retries' = retries + 1
                     /\ Becomes(j, "waiting")
                     /\ UNCHANGED <<backend, failures, memVars, stalled, forgotten, crashes>>

-----------------------------------------------------------------------------
(* The end of a handler.  The array in memory and BullMQ count alike.      *)
HandlerSucceeds(j) == /\ state[j] = "active"
                      /\ Becomes(j, "completed")
                      /\ UNCHANGED <<backend, failures, memVars, stalled, forgotten, crashes, retries>>

HandlerFails_OneTooFew(j) ==
  /\ state[j] = "active"
  /\ failures' = [failures EXCEPT ![j] = @ + 1]
  /\ Becomes(j, IF failures'[j] < attempts - 1 THEN "delayed" ELSE "failed")
  /\ UNCHANGED <<backend, memVars, stalled, forgotten, crashes, retries>>

HandlerFails(j) == /\ state[j] = "active"
                   /\ failures' = [failures EXCEPT ![j] = @ + 1]
                   /\ Becomes(j, IF failures'[j] < attempts THEN "delayed" ELSE "failed")
                   /\ UNCHANGED <<backend, memVars, stalled, forgotten, crashes, retries>>

-----------------------------------------------------------------------------
HandlerEnds(j) == HandlerSucceeds(j) \/ HandlerFails(j)
Loop           == LoopTake \/ LoopEnd

Next == \/ \E j \in Jobs : \/ EnqueueMem(j) \/ EnqueueRedis(j) \/ TimerFires(j)
                           \/ WorkerTake(j) \/ HandlerEnds(j) \/ Promote(j)
                           \/ Recover(j) \/ Forget(j) \/ RetryFailedJob(j)
        \/ Loop \/ MemCrash \/ WorkerCrash

Spec == Init /\ [][Next]_vars

(* The event loop runs, timers fire, a call of an outside service ends one *)
(* way or the other, and BullMQ hands out what is due.  Nobody owes a      *)
(* crash, a retry by hand or another job.                                  *)
QueueFairness == /\ WF_vars(Loop)
                 /\ \A j \in Jobs : /\ WF_vars(TimerFires(j)) /\ WF_vars(Promote(j))
                                    /\ SF_vars(WorkerTake(j))
                                    /\ WF_vars(HandlerEnds(j)) /\ WF_vars(Recover(j))

FairSpec == Spec /\ QueueFairness
-----------------------------------------------------------------------------
(* Jobs, counters and the array are of their types, and the array holds    *)
(* just the jobs that wait, each once.                                     *)
TypeOK == /\ backend \in {"memory", "redis"}
          /\ state \in [Jobs -> States]
          /\ failures \in [Jobs -> 0..(attempts + MaxRetries)]
          /\ memQueue \in Seq(Jobs)
          /\ backend = "memory" =>
               /\ Len(memQueue) = Cardinality({j \in Jobs : state[j] = "waiting"})
               /\ \A n \in DOMAIN memQueue : state[memQueue[n]] = "waiting"
          /\ memRunning \in BOOLEAN
          /\ loops \in Nat
          /\ stalled \subseteq Jobs /\ forgotten \subseteq Jobs
          /\ crashes \in 0..MaxCrashes /\ retries \in 0..MaxRetries

(* The timers of failed jobs and new calls of enqueue start the loop as    *)
(* often as they like: one handler runs at a time, and while jobs wait a   *)
(* loop is there for them (memRunning, queue.ts lines 53 to 78).           *)
OneLoop == backend = "memory" =>
             /\ loops = (IF memRunning THEN 1 ELSE 0)
             /\ Cardinality(Active) <= loops
             /\ memQueue # <<>> => memRunning

(* Every job comes to its end: no failure, no missing handler and no other *)
(* job's back-off leaves it waiting for good.                              *)
JobEnds == \A j \in Jobs : state[j] = "waiting" ~> state[j] \in {"completed", "failed"}

-----------------------------------------------------------------------------
(* What the caller of enqueue sees of a job.                               *)
PromiseOf(j) == CASE state[j] \in {"new", "ignored"} -> "none"
                  [] state[j] = "completed"          -> "kept"
                  [] state[j] = "failed"             -> "over"
                  [] OTHER                           -> "owed"

Promise == INSTANCE JobPromise WITH
  MaxFailures <- attempts,
  promise <- [j \in Jobs |-> PromiseOf(j)],
  left    <- [j \in Jobs |-> IF failures[j] < attempts THEN attempts - failures[j] ELSE 0],
  excused <- crashes > 0

(* Both backends keep the promise of enqueue: no job is given up before it *)
(* has failed five times, unless nobody handles it or its process died,    *)
(* and a job counts as done only if its handler has succeeded.             *)
PromiseKept == Promise!Spec
=============================================================================
