--------------------------- MODULE PlatformProofs ---------------------------
(***************************************************************************)
(* Proofs about the background jobs (JobQueue): one loop at a time, and    *)
(* both backends implement what JobPromise says of enqueue; about the      *)
(* shopping feed (NaverFeed); and that every part keeps its types, alone   *)
(* and in the composition of them that MCPlatform checks.                  *)
(***************************************************************************)
EXTENDS MCPlatform, FiniteSetTheorems, TLAPS

(* What every step needs to know of the jobs: the array holds waiting      *)
(* jobs, each once; only a job with a handler is handled; only the death   *)
(* of a worker leaves a job behind.                                        *)
JobRows ==
  /\ backend \in {"memory", "redis"}
  /\ state \in [Jobs -> States]
  /\ failures \in [Jobs -> Nat]
  /\ memQueue \in Seq(Jobs)
  /\ crashes \in Nat

ArrayWaits ==
  /\ \A n \in 1..Len(memQueue) : state[memQueue[n]] = "waiting"
  /\ \A m, n \in 1..Len(memQueue) : m # n => memQueue[m] # memQueue[n]

Accounted ==
  /\ \A j \in Jobs : state[j] = "active" => j \in Handled
  /\ \A j \in Jobs : state[j] = "stalled" => crashes > 0
  /\ backend = "redis" => memQueue = <<>>

JobInv == JobRows /\ ArrayWaits /\ Accounted

LEMMA JobsInitial == Init => JobInv
<1>. SUFFICES ASSUME Init PROVE JobInv
  OBVIOUS
<1>1. JobRows
  BY DEF Init, JobRows, States
<1>2. ArrayWaits /\ Accounted
  BY DEF Init, ArrayWaits, Accounted
<1>. QED
  BY <1>1, <1>2 DEF JobInv

(* A step that leaves the array alone and what waits in it.                *)
LEMMA ArrayAlone ==
  ASSUME JobInv, state' \in [Jobs -> States], memQueue' = memQueue,
         \A j \in Jobs : state[j] = "waiting" => state'[j] = "waiting"
  PROVE  ArrayWaits'
<1>1. \A n \in 1..Len(memQueue) : memQueue[n] \in Jobs
  BY DEF JobInv, JobRows
<1>. QED
  BY <1>1 DEF JobInv, ArrayWaits

(* A new job or one whose timer has fired joins the array.                 *)
LEMMA ArrayGrows ==
  ASSUME JobInv, NEW j \in Jobs, state[j] # "waiting",
         memQueue' = Append(memQueue, j), Becomes(j, "waiting")
  PROVE  ArrayWaits' /\ memQueue' \in Seq(Jobs) /\ state' \in [Jobs -> States]
<1>1. \A n \in 1..Len(memQueue) : memQueue[n] \in Jobs /\ memQueue[n] # j
  BY DEF JobInv, JobRows, ArrayWaits
<1>2. /\ memQueue' \in Seq(Jobs) /\ Len(memQueue') = Len(memQueue) + 1 /\ Len(memQueue) \in Nat
      /\ memQueue'[Len(memQueue) + 1] = j
      /\ \A n \in 1..Len(memQueue) : memQueue'[n] = memQueue[n]
  BY DEF JobInv, JobRows
<1>3. state' \in [Jobs -> States] /\ state'[j] = "waiting"
      /\ \A k \in Jobs \ {j} : state'[k] = state[k]
  BY DEF JobInv, JobRows, Becomes, States
<1>4. \A n \in 1..Len(memQueue') : n \in 1..Len(memQueue) \/ n = Len(memQueue) + 1
  BY <1>2
<1>5. \A n \in 1..Len(memQueue') : state'[memQueue'[n]] = "waiting"
  BY <1>1, <1>2, <1>3, <1>4 DEF JobInv, ArrayWaits
<1>6. \A m, n \in 1..Len(memQueue') : m # n => memQueue'[m] # memQueue'[n]
  BY <1>1, <1>2, <1>4 DEF JobInv, ArrayWaits
<1>. QED
  BY <1>2, <1>3, <1>5, <1>6 DEF ArrayWaits

(* The head of the array leaves it.                                        *)
LEMMA ArrayShrinks ==
  ASSUME JobInv, memQueue # <<>>, memQueue' = Tail(memQueue),
         NEW s \in States, Becomes(Head(memQueue), s)
  PROVE  /\ Head(memQueue) \in Jobs /\ state[Head(memQueue)] = "waiting"
         /\ ArrayWaits' /\ memQueue' \in Seq(Jobs) /\ state' \in [Jobs -> States]
<1>1. Len(memQueue) \in Nat /\ Len(memQueue) >= 1 /\ Head(memQueue) = memQueue[1]
      /\ \A n \in 1..Len(memQueue) : memQueue[n] \in Jobs
  BY DEF JobInv, JobRows
<1>2. Head(memQueue) \in Jobs /\ state[Head(memQueue)] = "waiting"
  BY <1>1 DEF JobInv, ArrayWaits
<1>3. /\ memQueue' \in Seq(Jobs) /\ Len(memQueue') = Len(memQueue) - 1
      /\ \A n \in 1..Len(memQueue') : memQueue'[n] = memQueue[n + 1] /\ n + 1 \in 1..Len(memQueue)
  BY <1>1 DEF JobInv, JobRows
<1>4. \A n \in 1..Len(memQueue') : memQueue'[n] # Head(memQueue)
  BY <1>1, <1>3 DEF JobInv, ArrayWaits
<1>5. state' \in [Jobs -> States] /\ \A k \in Jobs \ {Head(memQueue)} : state'[k] = state[k]
  BY <1>2 DEF JobInv, JobRows, Becomes
<1>6. \A n \in 1..Len(memQueue') : state'[memQueue'[n]] = "waiting"
  BY <1>1, <1>3, <1>4, <1>5 DEF JobInv, ArrayWaits
<1>7. \A m, n \in 1..Len(memQueue') : m # n => memQueue'[m] # memQueue'[n]
  BY <1>1, <1>3 DEF JobInv, ArrayWaits
<1>. QED
  BY <1>2, <1>3, <1>5, <1>6, <1>7 DEF ArrayWaits

LEMMA JobsStep == JobInv /\ [Next]_vars => JobInv'
<1>. SUFFICES ASSUME JobInv, [Next]_vars
              PROVE  JobInv'
  OBVIOUS
<1>1. ASSUME NEW j \in Jobs, EnqueueMem(j) \/ TimerFires(j)
      PROVE  JobInv'
  <2>1. /\ state[j] # "waiting" /\ memQueue' = Append(memQueue, j) /\ Becomes(j, "waiting")
        /\ UNCHANGED <<backend, failures, crashes>> /\ backend = "memory"
    BY <1>1 DEF EnqueueMem, TimerFires
  <2>2. ArrayWaits' /\ memQueue' \in Seq(Jobs) /\ state' \in [Jobs -> States]
    BY <2>1, ArrayGrows
  <2>3. JobRows'
    BY <2>1, <2>2 DEF JobInv, JobRows
  <2>4. Accounted'
    BY <2>1 DEF JobInv, JobRows, Accounted, Becomes
  <2>. QED
    BY <2>2, <2>3, <2>4 DEF JobInv
<1>2. ASSUME LoopTake
      PROVE  JobInv'
  <2>. DEFINE h == Head(memQueue)
              s == IF h \in Handled THEN "active" ELSE "failed"
  <2>1. /\ memQueue # <<>> /\ memQueue' = Tail(memQueue) /\ Becomes(h, s)
        /\ UNCHANGED <<backend, failures, memRunning, loops, crashes>> /\ backend = "memory"
    BY <1>2 DEF LoopTake, AtLoopHead
  <2>2. s \in States
    BY DEF States
  <2>. HIDE DEF s
  <2>3. h \in Jobs /\ ArrayWaits' /\ memQueue' \in Seq(Jobs) /\ state' \in [Jobs -> States]
    BY <2>1, <2>2, ArrayShrinks
  <2>4. JobRows'
    BY <2>1, <2>3 DEF JobInv, JobRows
  <2>5. s # "stalled" /\ (s = "active" => h \in Handled)
    BY DEF s
  <2>6. Accounted'
    BY <2>1, <2>3, <2>5 DEF JobInv, JobRows, Accounted, Becomes
  <2>. QED
    BY <2>3, <2>4, <2>6 DEF JobInv
<1>3. ASSUME LoopEnd
      PROVE  JobInv'
  BY <1>3, ArrayAlone DEF LoopEnd, JobInv, JobRows, Accounted
<1>4. ASSUME MemCrash
      PROVE  JobInv'
  <2>1. state' \in [Jobs -> States] /\ \A j \in Jobs : state'[j] \in {state[j], "failed"}
    BY <1>4 DEF MemCrash, JobInv, JobRows, States
  <2>2. memQueue' \in Seq(Jobs) /\ Len(memQueue') = 0 /\ crashes' \in Nat /\ memQueue' = <<>>
        /\ UNCHANGED <<backend, failures>>
    BY <1>4 DEF MemCrash, JobInv, JobRows
  <2>20. JobRows'
    BY <2>1, <2>2 DEF JobInv, JobRows
  <2>21. ArrayWaits'
    BY <2>2 DEF ArrayWaits
  <2>3. Accounted'
    BY <1>4, <2>1 DEF MemCrash, JobInv, JobRows, Accounted
  <2>. QED
    BY <2>20, <2>21, <2>3 DEF JobInv
<1>5. ASSUME WorkerCrash
      PROVE  JobInv'
  <2>1. /\ state' \in [Jobs -> States]
        /\ \A j \in Jobs : IF state[j] = "active" THEN state'[j] = "stalled" ELSE state'[j] = state[j]
    BY <1>5 DEF WorkerCrash, Active, JobInv, JobRows, States
  <2>2. ArrayWaits'
    BY <1>5, <2>1, ArrayAlone DEF WorkerCrash, memVars
  <2>3. JobRows'
    BY <1>5, <2>1 DEF WorkerCrash, JobInv, JobRows, memVars
  <2>4. Accounted'
    BY <1>5, <2>1 DEF WorkerCrash, JobInv, JobRows, Accounted, memVars
  <2>. QED
    BY <2>2, <2>3, <2>4 DEF JobInv
<1>6. ASSUME NEW j \in Jobs, NEW s \in States \ {"stalled"}, Becomes(j, s), UNCHANGED <<backend, memVars, crashes>>,
             failures' \in [Jobs -> Nat],
             backend = "redis" \/ state[j] # "waiting", s = "active" => j \in Handled
      PROVE  JobInv'
  <2>1. /\ state' \in [Jobs -> States] /\ state'[j] = s
        /\ \A k \in Jobs \ {j} : state'[k] = state[k]
    BY <1>6 DEF Becomes, JobInv, JobRows
  <2>2. JobRows'
    BY <1>6, <2>1 DEF JobInv, JobRows, memVars
  <2>3. Accounted'
    BY <1>6, <2>1 DEF JobInv, Accounted, memVars
  <2>4. ArrayWaits'
    <3>1. CASE backend = "redis"
      BY <1>6, <3>1 DEF JobInv, Accounted, ArrayWaits, memVars
    <3>2. CASE state[j] # "waiting"
      BY <1>6, <2>1, <3>2, ArrayAlone DEF memVars
    <3>. QED
      BY <1>6, <3>1, <3>2
  <2>. QED
    BY <2>2, <2>3, <2>4 DEF JobInv
<1>7. ASSUME NEW j \in Jobs, EnqueueRedis(j) \/ WorkerTake(j) \/ Promote(j) \/ Recover(j) \/ RetryFailedJob(j)
                             \/ HandlerSucceeds(j)
      PROVE  JobInv'
  <2>1. failures' \in [Jobs -> Nat] /\ UNCHANGED <<backend, memVars, crashes>>
    BY <1>7 DEF EnqueueRedis, WorkerTake, Promote, Recover, RetryFailedJob, HandlerSucceeds, JobInv, JobRows
  <2>2. PICK s \in States \ {"stalled"} : /\ Becomes(j, s) /\ (backend = "redis" \/ state[j] # "waiting")
                                          /\ (s = "active" => j \in Handled)
    BY <1>7 DEF EnqueueRedis, WorkerTake, Promote, Recover, RetryFailedJob, HandlerSucceeds, States, Becomes
  <2>. QED
    BY <2>1, <2>2, <1>6
<1>8. ASSUME NEW j \in Jobs, HandlerFails(j)
      PROVE  JobInv'
  <2>1. failures' \in [Jobs -> Nat] /\ UNCHANGED <<backend, memVars, crashes>> /\ state[j] # "waiting"
    BY <1>8 DEF HandlerFails, JobInv, JobRows
  <2>2. Becomes(j, "delayed") \/ Becomes(j, "failed")
    BY <1>8 DEF HandlerFails
  <2>. QED
    BY <2>1, <2>2, <1>6 DEF States
<1>9. ASSUME NEW j \in Jobs, Forget(j)
      PROVE  JobInv'
  BY <1>9, ArrayAlone DEF Forget, JobInv, JobRows, Accounted, memVars
<1>10. ASSUME UNCHANGED vars
       PROVE  JobInv'
  BY <1>10, ArrayAlone DEF vars, JobInv, JobRows, Accounted, memVars
<1>. QED
  BY <1>1, <1>2, <1>3, <1>4, <1>5, <1>7, <1>8, <1>9, <1>10 DEF Next, Loop, HandlerEnds

LEMMA JobsInvariant == Spec => []JobInv
BY JobsInitial, JobsStep, PTL DEF Spec
-----------------------------------------------------------------------------
(* The loop.                                                               *)
LoopInv == memRunning \in BOOLEAN /\ (backend = "memory" => IsFiniteSet(Active)) /\ OneLoop

(* Fewer jobs in hand, and the loop as it is.                              *)
LEMMA FewerActive ==
  ASSUME LoopInv, Active' \subseteq Active, UNCHANGED <<backend, memQueue, memRunning, loops>>
  PROVE  LoopInv'
<1>1. CASE backend = "memory"
  <2>1. IsFiniteSet(Active) /\ IsFiniteSet(Active') /\ Cardinality(Active') <= Cardinality(Active)
    BY <1>1, FS_Subset DEF LoopInv
  <2>2. Cardinality(Active) \in Nat /\ Cardinality(Active') \in Nat
    BY <2>1, FS_CardinalityType
  <2>3. memRunning' \in BOOLEAN /\ (loops' = IF memRunning' THEN 1 ELSE 0)
        /\ (memQueue' # <<>> => memRunning') /\ Cardinality(Active) <= loops
    BY <1>1 DEF LoopInv, OneLoop
  <2>4. loops \in Nat /\ loops' = loops
    BY <1>1 DEF LoopInv, OneLoop
  <2>5. Cardinality(Active') <= loops'
    BY <2>1, <2>2, <2>3, <2>4
  <2>. QED
    BY <2>1, <2>3, <2>5 DEF LoopInv, OneLoop
<1>2. CASE backend # "memory"
  BY <1>2 DEF LoopInv, OneLoop
<1>. QED
  BY <1>1, <1>2

(* No loop, and nothing for it to do.                                      *)
LEMMA EmptyLoop ==
  ASSUME IsFiniteSet(Active)', (Cardinality(Active) = 0)', (memRunning = FALSE)', (loops = 0)',
         (memQueue = <<>>)'
  PROVE  LoopInv'
<1>1. memRunning' \in BOOLEAN /\ ~memRunning'
  OBVIOUS
<1>2. loops' = (IF memRunning' THEN 1 ELSE 0)
  BY <1>1
<1>3. Cardinality(Active') <= loops'
  OBVIOUS
<1>. QED
  BY <1>1, <1>2, <1>3 DEF LoopInv, OneLoop

LEMMA LoopStep == JobInv /\ LoopInv /\ [Next]_vars => LoopInv'
<1>. SUFFICES ASSUME JobInv, LoopInv, [Next]_vars
              PROVE  LoopInv'
  OBVIOUS
<1>0. backend = "memory" => /\ IsFiniteSet(Active) /\ Cardinality(Active) \in Nat
                            /\ (loops = IF memRunning THEN 1 ELSE 0) /\ memRunning \in BOOLEAN
                            /\ Cardinality(Active) <= loops
                            /\ (memQueue # <<>> => memRunning)
  BY FS_CardinalityType DEF LoopInv, OneLoop
<1>1. ASSUME NEW j \in Jobs, EnqueueMem(j) \/ TimerFires(j)
      PROVE  LoopInv'
  <2>1. /\ Becomes(j, "waiting") /\ state[j] # "active" /\ backend = "memory" /\ backend' = backend
        /\ MemRunLoop
    BY <1>1 DEF EnqueueMem, TimerFires
  <2>2. Active' = Active
    BY <2>1 DEF Active, Becomes, JobInv, JobRows
  <2>3. memRunning' = TRUE /\ loops' = 1
    BY <2>1, <1>0 DEF MemRunLoop
  <2>4. Cardinality(Active') <= 1 /\ IsFiniteSet(Active')
    BY <2>1, <2>2, <1>0
  <2>. QED
    BY <2>3, <2>4 DEF LoopInv, OneLoop
<1>2. ASSUME LoopTake
      PROVE  LoopInv'
  <2>1. /\ backend = "memory" /\ UNCHANGED <<backend, memRunning, loops>>
        /\ loops > Cardinality(Active) /\ memQueue # <<>>
        /\ Active' \subseteq Active \cup {Head(memQueue)}
    BY <1>2 DEF LoopTake, AtLoopHead, Active, Becomes, JobInv, JobRows
  <2>2. IsFiniteSet(Active \cup {Head(memQueue)})
        /\ Cardinality(Active \cup {Head(memQueue)}) <= Cardinality(Active) + 1
    <3>1. CASE Head(memQueue) \in Active
      <4>1. Active \cup {Head(memQueue)} = Active
        BY <3>1
      <4>2. IsFiniteSet(Active) /\ Cardinality(Active) \in Nat
        BY <2>1, <1>0
      <4>3. Cardinality(Active) <= Cardinality(Active) + 1
        BY <4>2
      <4>. QED
        BY <4>1, <4>2, <4>3, Zenon
    <3>2. CASE Head(memQueue) \notin Active
      <4>1. IsFiniteSet(Active) /\ Cardinality(Active) \in Nat
        BY <2>1, <1>0
      <4>2. IsFiniteSet(Active \cup {Head(memQueue)})
            /\ Cardinality(Active \cup {Head(memQueue)}) = Cardinality(Active) + 1
        BY <3>2, <4>1, FS_AddElement, Zenon
      <4>. QED
        BY <4>1, <4>2
    <3>. QED
      BY <3>1, <3>2
  <2>3. IsFiniteSet(Active') /\ Cardinality(Active') <= Cardinality(Active \cup {Head(memQueue)})
    BY <2>1, <2>2, FS_Subset
  <2>4. Cardinality(Active') \in Nat /\ Cardinality(Active \cup {Head(memQueue)}) \in Nat
    BY <2>2, <2>3, FS_CardinalityType
  <2>5. loops \in Nat /\ Cardinality(Active') <= loops
    BY <2>1, <2>2, <2>3, <2>4, <1>0
  <2>. QED
    BY <2>1, <2>3, <2>5, <1>0 DEF LoopInv, OneLoop
<1>3. ASSUME LoopEnd
      PROVE  LoopInv'
  <2>1. /\ backend = "memory" /\ backend' = backend /\ loops > Cardinality(Active)
        /\ memQueue = <<>> /\ memQueue' = memQueue /\ state' = state
        /\ memRunning' = FALSE /\ loops' = loops - 1
    BY <1>3 DEF LoopEnd, AtLoopHead
  <2>2. loops = 1 /\ Cardinality(Active) = 0
    BY <2>1, <1>0
  <2>3. Active' = Active
    BY <2>1 DEF Active
  <2>4. IsFiniteSet(Active') /\ Cardinality(Active') = 0 /\ loops' = 0
    BY <2>1, <2>2, <2>3, <1>0
  <2>. QED
    BY <2>1, <2>4, EmptyLoop
<1>4. ASSUME MemCrash
      PROVE  LoopInv'
  <2>1. Active' = {} /\ memRunning' = FALSE /\ loops' = 0 /\ memQueue' = <<>>
    BY <1>4 DEF MemCrash, Active
  <2>2. IsFiniteSet(Active') /\ Cardinality(Active') = 0
    BY <2>1, FS_EmptySet
  <2>. QED
    BY <2>1, <2>2, EmptyLoop
<1>5. ASSUME NEW j \in Jobs, Recover(j) \/ HandlerSucceeds(j) \/ HandlerFails(j) \/ Forget(j)
      PROVE  LoopInv'
  <2>1. Active' \subseteq Active
    BY <1>5 DEF Recover, HandlerSucceeds, HandlerFails, Forget, Active, Becomes, JobInv, JobRows
  <2>2. UNCHANGED <<backend, memQueue, memRunning, loops>>
    BY <1>5 DEF Recover, HandlerSucceeds, HandlerFails, Forget, memVars
  <2>. QED
    BY <2>1, <2>2, FewerActive
<1>6. ASSUME WorkerCrash \/ \E j \in Jobs : EnqueueRedis(j) \/ WorkerTake(j) \/ Promote(j)
                                         \/ RetryFailedJob(j)
      PROVE  LoopInv'
  BY <1>6 DEF WorkerCrash, EnqueueRedis, WorkerTake, Promote, RetryFailedJob, LoopInv, OneLoop, memVars
<1>7. ASSUME UNCHANGED vars
      PROVE  LoopInv'
  BY <1>7, FewerActive DEF vars, memVars, Active
<1>. QED
  BY <1>1, <1>2, <1>3, <1>4, <1>5, <1>6, <1>7 DEF Next, Loop, HandlerEnds

LEMMA LoopInvariant == Spec => []LoopInv
<1>1. Init => LoopInv
  <2>. SUFFICES ASSUME Init PROVE LoopInv
    OBVIOUS
  <2>1. Active = {}
    BY DEF Init, Active
  <2>2. IsFiniteSet(Active) /\ Cardinality(Active) = 0
    BY <2>1, FS_EmptySet
  <2>3. memRunning = FALSE /\ loops = 0 /\ memQueue = <<>>
    BY DEF Init
  <2>4. memRunning \in BOOLEAN
    BY <2>3
  <2>5. loops = (IF memRunning THEN 1 ELSE 0)
    BY <2>3
  <2>6. Cardinality(Active) <= loops
    BY <2>2, <2>3
  <2>. QED
    BY <2>2, <2>3, <2>4, <2>5, <2>6 DEF LoopInv, OneLoop
<1>. QED
  BY <1>1, LoopStep, JobsInvariant, PTL DEF Spec

(* One handler at a time in memory, and a loop while jobs wait, for any    *)
(* number of jobs and of processes that die (memRunLoop).                  *)
THEOREM LoopIsOne == Spec => []OneLoop
<1>1. LoopInv => OneLoop
  BY DEF LoopInv
<1>. QED
  BY <1>1, LoopInvariant, PTL

-----------------------------------------------------------------------------
(* The types of the queue.  A job in hand or due has failed fewer times    *)
(* than it may, once for each retry by hand besides.                       *)
FailuresBounded ==
  /\ retries \in 0..MaxRetries
  /\ \A j \in Jobs : /\ failures[j] <= attempts + retries
                     /\ state[j] \in {"new", "waiting", "active", "stalled", "delayed"}
                          => failures[j] < attempts + retries

(* The array forgets no job that waits.                                    *)
ArrayHolds ==
  backend = "memory" =>
    \A j \in Jobs : /\ state[j] # "stalled"
                    /\ state[j] = "waiting" => \E n \in 1..Len(memQueue) : memQueue[n] = j

Marks ==
  /\ stalled \subseteq Jobs /\ forgotten \subseteq Jobs
  /\ loops \in Nat /\ crashes \in 0..MaxCrashes

QueueInv == FailuresBounded /\ ArrayHolds /\ Marks

LEMMA FailuresStep ==
  ASSUME JobInv, FailuresBounded, [Next]_vars
  PROVE  FailuresBounded'
<1>. USE JobAssumption DEF JobInv, JobRows, FailuresBounded, attempts
<1>1. ASSUME NEW j \in Jobs, NEW s, Becomes(j, s), UNCHANGED <<failures, retries>>,
             state[j] \in {"new", "waiting", "active", "stalled", "delayed"}
      PROVE  FailuresBounded'
  BY <1>1 DEF Becomes
<1>2. ASSUME \A j \in Jobs : \/ state'[j] \in {state[j], "failed"}
                             \/ state[j] = "active" /\ state'[j] = "stalled",
             UNCHANGED <<failures, retries>>
      PROVE  FailuresBounded'
  BY <1>2
<1>3. ASSUME NEW j \in Jobs, HandlerFails(j) PROVE FailuresBounded'
  <2>1. /\ failures'[j] = failures[j] + 1
        /\ \A k \in Jobs \ {j} : failures'[k] = failures[k] /\ state'[k] = state[k]
    BY <1>3 DEF HandlerFails, Becomes
  <2>2. /\ state'[j] = IF failures'[j] < 5 THEN "delayed" ELSE "failed"
        /\ state[j] = "active" /\ retries' = retries
    BY <1>3 DEF HandlerFails, Becomes
  <2>3. failures[j] \in Nat /\ retries \in Nat /\ failures[j] < 5 + retries
    BY <2>2
  <2>4. failures'[j] <= 5 + retries /\ (state'[j] # "failed" => failures'[j] < 5 + retries)
    BY <2>1, <2>2, <2>3
  <2>5. ASSUME NEW k \in Jobs
        PROVE  /\ failures'[k] <= 5 + retries
               /\ state'[k] \in {"new", "waiting", "active", "stalled", "delayed"}
                    => failures'[k] < 5 + retries
    BY <2>1, <2>4
  <2>. QED
    BY <2>2, <2>5
<1>4. ASSUME NEW j \in Jobs, RetryFailedJob(j) PROVE FailuresBounded'
  <2>1. retries' = retries + 1 /\ retries < MaxRetries /\ failures' = failures
    BY <1>4 DEF RetryFailedJob
  <2>2. ASSUME NEW k \in Jobs PROVE failures[k] \in Nat /\ failures[k] < 5 + retries'
    BY <2>1
  <2>. QED
    BY <2>1, <2>2
<1>5. ASSUME NEW j \in Jobs, EnqueueMem(j) \/ EnqueueRedis(j) \/ TimerFires(j) \/ WorkerTake(j)
                             \/ HandlerSucceeds(j) \/ Promote(j) \/ Recover(j)
      PROVE  FailuresBounded'
  <2>1. PICK s : Becomes(j, s)
    BY <1>5 DEF EnqueueMem, EnqueueRedis, TimerFires, WorkerTake, HandlerSucceeds, Promote, Recover
  <2>. QED
    BY <1>1, <1>5, <2>1
       DEF EnqueueMem, EnqueueRedis, TimerFires, WorkerTake, HandlerSucceeds, Promote, Recover
<1>6. CASE LoopTake
  <2>1. Head(memQueue) \in Jobs /\ state[Head(memQueue)] = "waiting"
    <3>1. memQueue # <<>> /\ memQueue' = Tail(memQueue)
      BY <1>6 DEF LoopTake
    <3>2. Len(memQueue) \in Nat /\ Len(memQueue) >= 1 /\ Head(memQueue) = memQueue[1]
          /\ memQueue[1] \in Jobs
      BY <3>1
    <3>. QED
      BY <3>2 DEF ArrayWaits
  <2>2. PICK s : Becomes(Head(memQueue), s)
    BY <1>6 DEF LoopTake
  <2>3. UNCHANGED <<failures, retries>>
    BY <1>6 DEF LoopTake
  <2>. QED
    BY <1>1, <2>1, <2>2, <2>3
<1>7. CASE LoopEnd \/ UNCHANGED vars \/ \E j \in Jobs : Forget(j)
  BY <1>7 DEF LoopEnd, vars, Forget
<1>8. CASE MemCrash \/ WorkerCrash
  BY <1>2, <1>8 DEF MemCrash, WorkerCrash, Active
<1>. QED
  BY <1>3, <1>4, <1>5, <1>6, <1>7, <1>8 DEF Next, Loop, HandlerEnds

LEMMA ArrayHoldsStep ==
  ASSUME JobInv, ArrayHolds, [Next]_vars
  PROVE  ArrayHolds'
<1>. SUFFICES ASSUME backend = "memory" PROVE ArrayHolds'
  BY DEF ArrayHolds, Next, Loop, HandlerEnds, EnqueueMem, EnqueueRedis, TimerFires, WorkerTake,
         HandlerSucceeds, HandlerFails, Promote, Recover, Forget, RetryFailedJob, LoopTake, LoopEnd,
         MemCrash, WorkerCrash, vars
<1>. USE DEF JobInv, JobRows, ArrayHolds
<1>1. ASSUME NEW j \in Jobs, NEW s \in States \ {"stalled", "waiting"}, Becomes(j, s), UNCHANGED memQueue
      PROVE  ArrayHolds'
  BY <1>1 DEF Becomes
<1>2. ASSUME NEW j \in Jobs, EnqueueMem(j) \/ TimerFires(j) PROVE ArrayHolds'
  <2>1. memQueue' = Append(memQueue, j) /\ Becomes(j, "waiting")
    BY <1>2 DEF EnqueueMem, TimerFires
  <2>2. /\ Len(memQueue') = Len(memQueue) + 1 /\ Len(memQueue) \in Nat
        /\ memQueue'[Len(memQueue) + 1] = j
        /\ \A n \in 1..Len(memQueue) : memQueue'[n] = memQueue[n]
    BY <2>1
  <2>3. \A k \in Jobs : state'[k] = IF k = j THEN "waiting" ELSE state[k]
    BY <2>1 DEF Becomes
  <2>4. Len(memQueue) + 1 \in 1..Len(memQueue') /\ \A n \in 1..Len(memQueue) : n \in 1..Len(memQueue')
    BY <2>2
  <2>. QED
    BY <2>2, <2>3, <2>4
<1>3. CASE LoopTake
  <2>. DEFINE h == Head(memQueue)
  <2>1. memQueue # <<>> /\ memQueue' = Tail(memQueue) /\ (Becomes(h, "active") \/ Becomes(h, "failed"))
    BY <1>3 DEF LoopTake
  <2>2. Len(memQueue) \in Nat /\ Len(memQueue) >= 1 /\ h = memQueue[1] /\ h \in Jobs
    BY <2>1
  <2>3. /\ Len(memQueue') = Len(memQueue) - 1
        /\ \A n \in 1..Len(memQueue') : memQueue'[n] = memQueue[n + 1]
    BY <2>1, <2>2
  <2>. HIDE DEF h
  <2>6. state'[h] \in {"active", "failed"} /\ \A k \in Jobs \ {h} : state'[k] = state[k]
    BY <2>1, <2>2 DEF Becomes
  <2>4. \A k \in Jobs : /\ state'[k] = "waiting" => state[k] = "waiting" /\ k # h
                        /\ state'[k] # "stalled"
    BY <2>6
  <2>5. ASSUME NEW k \in Jobs, state'[k] = "waiting" PROVE \E n \in 1..Len(memQueue') : memQueue'[n] = k
    <3>1. PICK n \in 1..Len(memQueue) : memQueue[n] = k
      BY <2>4, <2>5
    <3>2. n # 1 /\ n - 1 \in 1..Len(memQueue') /\ (n - 1) + 1 = n
      BY <2>2, <2>3, <2>4, <2>5, <3>1
    <3>. QED
      BY <2>3, <3>1, <3>2
  <2>. QED
    BY <2>4, <2>5
<1>4. ASSUME NEW j \in Jobs, HandlerSucceeds(j) \/ HandlerFails(j) PROVE ArrayHolds'
  <2>1. UNCHANGED memQueue /\ \E s \in {"completed", "delayed", "failed"} : Becomes(j, s)
    BY <1>4 DEF HandlerSucceeds, HandlerFails, memVars
  <2>. QED
    BY <1>1, <2>1 DEF States
<1>5. CASE MemCrash
  BY <1>5 DEF MemCrash
<1>6. CASE LoopEnd \/ UNCHANGED vars
  BY <1>6 DEF LoopEnd, vars, memVars
<1>7. /\ ~WorkerCrash
      /\ \A j \in Jobs : ~(EnqueueRedis(j) \/ WorkerTake(j) \/ Promote(j) \/ Forget(j) \/ RetryFailedJob(j))
  BY DEF WorkerCrash, EnqueueRedis, WorkerTake, Promote, Forget, RetryFailedJob
<1>8. \A j \in Jobs : ~Recover(j)
  BY DEF Recover
<1>. QED
  BY <1>2, <1>3, <1>4, <1>5, <1>6, <1>7, <1>8 DEF Next, Loop, HandlerEnds

LEMMA MarksStep ==
  ASSUME JobInv, LoopInv, Marks, [Next]_vars
  PROVE  Marks'
<1>. USE JobAssumption DEF Marks, memVars
<1>1. CASE LoopEnd
  <2>1. loops \in Nat /\ Cardinality(Active) \in Nat /\ loops > Cardinality(Active)
    BY <1>1, FS_CardinalityType DEF LoopEnd, AtLoopHead, LoopInv
  <2>. QED
    BY <1>1, <2>1 DEF LoopEnd
<1>2. CASE ~LoopEnd
  BY <1>2 DEF Next, Loop, HandlerEnds, EnqueueMem, EnqueueRedis, TimerFires, WorkerTake, MemRunLoop,
         HandlerSucceeds, HandlerFails, Promote, Recover, Forget, RetryFailedJob, LoopTake,
         MemCrash, WorkerCrash, vars
<1>. QED
  BY <1>1, <1>2

(* The array has as many places as there are jobs that wait.               *)
LEMMA ArrayCounts ==
  ASSUME JobInv, ArrayHolds, backend = "memory"
  PROVE  Len(memQueue) = Cardinality({j \in Jobs : state[j] = "waiting"})
<1>. DEFINE W == {j \in Jobs : state[j] = "waiting"}
            place == [n \in 1..Len(memQueue) |-> memQueue[n]]
<1>1. Len(memQueue) \in Nat /\ \A n \in 1..Len(memQueue) : memQueue[n] \in W
  BY DEF JobInv, JobRows, ArrayWaits
<1>2. /\ place \in [1..Len(memQueue) -> W]
      /\ \A m, n \in 1..Len(memQueue) : place[m] = place[n] => m = n
      /\ \A j \in W : \E n \in 1..Len(memQueue) : place[n] = j
  BY <1>1 DEF JobInv, ArrayWaits, ArrayHolds
<1>3. place \in Bijection(1..Len(memQueue), W)
  <2>. HIDE DEF place, W
  <2>. QED
    BY <1>2 DEF Bijection, Injection, IsInjective, Surjection
<1>. QED
  BY <1>1, <1>3, FS_CountingElements DEF ExistsBijection

(* queue.ts: rows and counters keep their types, and in memory the array   *)
(* holds exactly the jobs that wait, each once.                            *)
THEOREM QueueTypeCorrect == Spec => []TypeOK
<1>1. Init => QueueInv
  BY JobAssumption DEF Init, QueueInv, FailuresBounded, ArrayHolds, Marks, attempts
<1>2. JobInv /\ LoopInv /\ QueueInv /\ [Next]_vars => QueueInv'
  BY FailuresStep, ArrayHoldsStep, MarksStep DEF QueueInv
<1>3. JobInv /\ LoopInv /\ QueueInv => TypeOK
  <2>. SUFFICES ASSUME JobInv, LoopInv, QueueInv PROVE TypeOK
    OBVIOUS
  <2>1. failures \in [Jobs -> 0..(attempts + MaxRetries)]
    <3>1. ASSUME NEW j \in Jobs PROVE failures[j] \in 0..(attempts + MaxRetries)
      BY JobAssumption DEF JobInv, JobRows, QueueInv, FailuresBounded, attempts
    <3>. QED
      BY <3>1 DEF JobInv, JobRows
  <2>2. backend = "memory" =>
          /\ Len(memQueue) = Cardinality({j \in Jobs : state[j] = "waiting"})
          /\ \A n \in DOMAIN memQueue : state[memQueue[n]] = "waiting"
    BY ArrayCounts DEF QueueInv, JobInv, JobRows, ArrayWaits
  <2>. QED
    BY <2>1, <2>2 DEF TypeOK, JobInv, JobRows, LoopInv, QueueInv, Marks, FailuresBounded
<1>. QED
  BY <1>1, <1>2, <1>3, JobsInvariant, LoopInvariant, PTL DEF Spec

-----------------------------------------------------------------------------
(* The refinement: a step of the queue is one of the promise, or none.     *)
LEMMA PromiseInitial == Init => Promise!Init
BY DEF Init, Promise!Init, PromiseOf, attempts

(* What the caller of enqueue sees of a state, of the failures, and of the *)
(* dead processes.                                                         *)
Seen(s) == CASE s \in {"new", "ignored"} -> "none"
             [] s = "completed"          -> "kept"
             [] s = "failed"             -> "over"
             [] OTHER                    -> "owed"

PromiseNow == [j \in Jobs |-> PromiseOf(j)]
LeftNow    == [j \in Jobs |-> IF failures[j] < attempts THEN attempts - failures[j] ELSE 0]
Excused    == crashes > 0

PromiseNext == [Promise!Next]_<<PromiseNow, LeftNow, Excused>>

LEMMA JobMoves ==
  ASSUME JobInv, NEW j \in Jobs, NEW s, Becomes(j, s)
  PROVE  PromiseNow' = [PromiseNow EXCEPT ![j] = Seen(s)] /\ PromiseNow[j] = Seen(state[j])
<1>1. state \in [Jobs -> States]
  BY DEF JobInv, JobRows
<1>2. state' = [state EXCEPT ![j] = s]
  BY DEF Becomes
<1>3. \A k \in Jobs : PromiseOf(k) = Seen(state[k]) /\ PromiseOf(k)' = Seen(state'[k])
  BY DEF PromiseOf, Seen
<1>4. \A k \in Jobs : PromiseOf(k)' = IF k = j THEN Seen(s) ELSE PromiseOf(k)
  BY <1>1, <1>2, <1>3
<1>5. PromiseNow = [k \in Jobs |-> PromiseOf(k)] /\ PromiseNow' = [k \in Jobs |-> PromiseOf(k)']
  BY DEF PromiseNow
<1>. QED
  BY <1>3, <1>4, <1>5

(* The steps that the caller does not see, and those that it does: one of  *)
(* JobPromise each.                                                        *)
LEMMA Unseen ==
  ASSUME PromiseNow' = PromiseNow, failures' = failures, crashes' = crashes
  PROVE  PromiseNext
<1>1. LeftNow' = LeftNow /\ Excused' = Excused
  BY DEF LeftNow, Excused
<1>. QED
  BY <1>1 DEF PromiseNext

LEMMA UnseenMove ==
  ASSUME JobInv, NEW j \in Jobs, NEW s, Becomes(j, s), Seen(s) = Seen(state[j]),
         failures' = failures, crashes' = crashes
  PROVE  PromiseNext
<1>1. PromiseNow' = [PromiseNow EXCEPT ![j] = PromiseNow[j]]
  BY JobMoves
<1>2. PromiseNow' = PromiseNow
  BY <1>1 DEF PromiseNow
<1>. QED
  BY <1>2, Unseen

LEMMA Counting ==
  ASSUME JobInv, NEW j \in Jobs
  PROVE  /\ LeftNow[j] = IF failures[j] < attempts THEN attempts - failures[j] ELSE 0
         /\ failures[j] \in Nat /\ attempts = 5
BY DEF JobInv, JobRows, LeftNow, attempts

LEMMA PromiseStep == JobInv /\ [Next]_vars => PromiseNext
<1>. SUFFICES ASSUME JobInv, [Next]_vars
              PROVE  PromiseNext
  OBVIOUS
<1>1. ASSUME NEW j \in Jobs, Promise!Accept(j) \/ Promise!Keep(j) \/ Promise!FailOnce(j)
                              \/ Promise!GiveUp(j) \/ Promise!Reopen(j)
      PROVE  PromiseNext
  BY <1>1 DEF PromiseNext, Promise!Next
<1>2. ASSUME failures' = failures, crashes' = crashes
      PROVE  LeftNow' = LeftNow /\ Excused' = Excused
  BY <1>2 DEF LeftNow, Excused
<1>3. ASSUME NEW j \in Jobs, EnqueueMem(j) \/ EnqueueRedis(j)
      PROVE  PromiseNext
  <2>1. PICK s \in {"ignored", "waiting"} : Becomes(j, s)
    BY <1>3 DEF EnqueueMem, EnqueueRedis
  <2>2. PromiseNow' = [PromiseNow EXCEPT ![j] = Seen(s)] /\ PromiseNow[j] = Seen(state[j])
    BY <2>1, JobMoves
  <2>3. state[j] = "new" /\ failures' = failures /\ crashes' = crashes
    BY <1>3 DEF EnqueueMem, EnqueueRedis
  <2>4. CASE s = "ignored"
    <3>1. PromiseNow' = PromiseNow
      BY <2>2, <2>3, <2>4 DEF Seen, PromiseNow
    <3>. QED
      BY <3>1, <2>3, Unseen
  <2>5. CASE s = "waiting"
    <3>1. PromiseNow[j] = "none" /\ PromiseNow' = [PromiseNow EXCEPT ![j] = "owed"]
      BY <2>2, <2>3, <2>5 DEF Seen
    <3>2. Promise!Accept(j)
      BY <3>1, <2>3, <1>2 DEF Promise!Accept, Promise!Becomes, PromiseNow, LeftNow, Excused
    <3>. QED
      BY <3>2, <1>1
  <2>. QED
    BY <2>4, <2>5
<1>4. ASSUME NEW j \in Jobs, state[j] = "waiting", failures' = failures, crashes' = crashes,
             Becomes(j, IF j \in Handled THEN "active" ELSE "failed")
      PROVE  PromiseNext
  <2>1. CASE j \in Handled
    <3>1. Becomes(j, "active")
      BY <1>4, <2>1
    <3>2. PromiseNow' = PromiseNow
      BY <1>4, <3>1, JobMoves DEF Seen, PromiseNow
    <3>. QED
      BY <3>2, <1>4, Unseen
  <2>2. CASE j \notin Handled
    <3>1. Becomes(j, "failed")
      BY <1>4, <2>2
    <3>2. PromiseNow[j] = "owed" /\ PromiseNow' = [PromiseNow EXCEPT ![j] = "over"]
      BY <1>4, <3>1, JobMoves DEF Seen
    <3>3. Promise!GiveUp(j)
      BY <3>2, <2>2, <1>2, <1>4 DEF Promise!GiveUp, Promise!Becomes, PromiseNow, LeftNow, Excused
    <3>. QED
      BY <3>3, <1>1
  <2>. QED
    BY <2>1, <2>2
<1>5. ASSUME LoopTake
      PROVE  PromiseNext
  <2>. DEFINE h == Head(memQueue)
              s == IF h \in Handled THEN "active" ELSE "failed"
  <2>1. /\ memQueue # <<>> /\ memQueue' = Tail(memQueue) /\ Becomes(h, s)
        /\ failures' = failures /\ crashes' = crashes
    BY <1>5 DEF LoopTake
  <2>2. s \in States
    BY DEF States
  <2>3. h \in Jobs /\ state[h] = "waiting"
    <3>. HIDE DEF s
    <3>. QED
      BY <2>1, <2>2, ArrayShrinks
  <2>. QED
    BY <2>1, <2>3, <1>4
<1>6. ASSUME NEW j \in Jobs, WorkerTake(j)
      PROVE  PromiseNext
  BY <1>6, <1>4 DEF WorkerTake
<1>7. ASSUME NEW j \in Jobs, TimerFires(j) \/ Promote(j)
      PROVE  PromiseNext
  <2>1. Becomes(j, "waiting") /\ state[j] = "delayed" /\ failures' = failures /\ crashes' = crashes
    BY <1>7 DEF TimerFires, Promote
  <2>2. Seen("waiting") = Seen(state[j])
    BY <2>1 DEF Seen
  <2>. QED
    BY <2>1, <2>2, UnseenMove
<1>8. ASSUME NEW j \in Jobs, Recover(j)
      PROVE  PromiseNext
  <2>1. /\ Becomes(j, "waiting") \/ Becomes(j, "failed")
        /\ state[j] = "stalled" /\ failures' = failures /\ crashes' = crashes
    BY <1>8 DEF Recover
  <2>2. CASE Becomes(j, "waiting")
    <3>1. Seen("waiting") = Seen(state[j])
      BY <2>1 DEF Seen
    <3>. QED
      BY <2>1, <2>2, <3>1, UnseenMove
  <2>3. CASE Becomes(j, "failed")
    <3>1. PromiseNow[j] = "owed" /\ PromiseNow' = [PromiseNow EXCEPT ![j] = "over"]
      BY <2>1, <2>3, JobMoves DEF Seen
    <3>2. crashes > 0
      BY <2>1 DEF JobInv, Accounted
    <3>3. Promise!GiveUp(j)
      BY <3>1, <3>2, <2>1, <1>2 DEF Promise!GiveUp, Promise!Becomes, PromiseNow, LeftNow, Excused
    <3>. QED
      BY <3>3, <1>1
  <2>. QED
    BY <2>1, <2>2, <2>3
<1>9. ASSUME NEW j \in Jobs, RetryFailedJob(j)
      PROVE  PromiseNext
  <2>1. Becomes(j, "waiting") /\ state[j] = "failed" /\ failures' = failures /\ crashes' = crashes
    BY <1>9 DEF RetryFailedJob
  <2>2. PromiseNow[j] = "over" /\ PromiseNow' = [PromiseNow EXCEPT ![j] = "owed"]
    BY <2>1, JobMoves DEF Seen
  <2>3. Promise!Reopen(j)
    BY <2>1, <2>2, <1>2 DEF Promise!Reopen, Promise!Becomes, PromiseNow, LeftNow, Excused
  <2>. QED
    BY <2>3, <1>1
<1>10. ASSUME NEW j \in Jobs, HandlerSucceeds(j)
       PROVE  PromiseNext
  <2>1. /\ Becomes(j, "completed") /\ state[j] = "active" /\ failures' = failures
        /\ crashes' = crashes /\ j \in Handled
    BY <1>10 DEF HandlerSucceeds, JobInv, Accounted
  <2>2. PromiseNow[j] = "owed" /\ PromiseNow' = [PromiseNow EXCEPT ![j] = "kept"]
    BY <2>1, JobMoves DEF Seen
  <2>3. Promise!Keep(j)
    BY <2>1, <2>2, <1>2 DEF Promise!Keep, Promise!Becomes, PromiseNow, LeftNow, Excused
  <2>. QED
    BY <2>3, <1>1
<1>11. ASSUME NEW j \in Jobs, HandlerFails(j)
       PROVE  PromiseNext
  <2>1. /\ state[j] = "active" /\ crashes' = crashes /\ Excused' = Excused
        /\ failures' = [failures EXCEPT ![j] = @ + 1]
        /\ Becomes(j, IF failures'[j] < attempts THEN "delayed" ELSE "failed")
    BY <1>11 DEF HandlerFails, Excused
  <2>2. failures'[j] = failures[j] + 1 /\ failures[j] \in Nat /\ attempts = 5
        /\ \A k \in Jobs \ {j} : failures'[k] = failures[k]
    BY <2>1, Counting DEF JobInv, JobRows
  <2>3. LeftNow' = [k \in Jobs |-> IF failures'[k] < attempts THEN attempts - failures'[k] ELSE 0]
    BY DEF LeftNow, attempts
  <2>4. CASE failures[j] < 4
    <3>1. Becomes(j, "delayed")
      BY <2>1, <2>2, <2>4
    <3>2. PromiseNow' = PromiseNow /\ PromiseNow[j] = "owed"
      BY <2>1, <3>1, JobMoves DEF Seen, PromiseNow
    <3>3. LeftNow[j] > 1 /\ LeftNow' = [LeftNow EXCEPT ![j] = @ - 1]
      <4>1. LeftNow[j] = 5 - failures[j] /\ LeftNow[j] > 1
        BY <2>2, <2>4, Counting
      <4>2. \A k \in Jobs : (IF failures'[k] < attempts THEN attempts - failures'[k] ELSE 0)
                            = IF k = j THEN LeftNow[j] - 1 ELSE LeftNow[k]
        BY <4>1, <2>2, <2>4 DEF LeftNow
      <4>3. LeftNow = [k \in Jobs |-> LeftNow[k]]
        BY DEF LeftNow
      <4>. QED
        BY <4>1, <4>2, <4>3, <2>3
    <3>4. Promise!FailOnce(j)
      BY <2>1, <3>2, <3>3 DEF Promise!FailOnce, PromiseNow, LeftNow, Excused
    <3>. QED
      BY <3>4, <1>1
  <2>5. CASE failures[j] >= 4
    <3>1. Becomes(j, "failed")
      BY <2>1, <2>2, <2>5
    <3>2. PromiseNow[j] = "owed" /\ PromiseNow' = [PromiseNow EXCEPT ![j] = "over"]
      BY <2>1, <3>1, JobMoves DEF Seen
    <3>3. LeftNow[j] <= 1 /\ LeftNow' = [LeftNow EXCEPT ![j] = 0]
      <4>1. LeftNow[j] <= 1
        BY <2>2, <2>5, Counting
      <4>2. \A k \in Jobs : (IF failures'[k] < attempts THEN attempts - failures'[k] ELSE 0)
                            = IF k = j THEN 0 ELSE LeftNow[k]
        BY <2>2, <2>5 DEF LeftNow
      <4>3. LeftNow = [k \in Jobs |-> LeftNow[k]]
        BY DEF LeftNow
      <4>. QED
        BY <4>1, <4>2, <4>3, <2>3
    <3>4. Promise!GiveUp(j)
      BY <2>1, <3>2, <3>3 DEF Promise!GiveUp, Promise!Becomes, PromiseNow, LeftNow, Excused
    <3>. QED
      BY <3>4, <1>1
  <2>. QED
    BY <2>2, <2>4, <2>5
<1>12. ASSUME MemCrash \/ WorkerCrash
       PROVE  PromiseNext
  <2>1. failures' = failures /\ crashes' > 0 /\ Excused' = TRUE /\ LeftNow' = LeftNow
    BY <1>12 DEF MemCrash, WorkerCrash, JobInv, JobRows, Excused, LeftNow
  <2>2. \A j \in Jobs : PromiseNow'[j] = PromiseNow[j] \/ (PromiseNow[j] = "owed" /\ PromiseNow'[j] = "over")
    <3>1. ASSUME NEW j \in Jobs
          PROVE  \/ state'[j] = state[j]
                 \/ state[j] \in {"waiting", "active", "delayed"} /\ state'[j] = "failed"
                 \/ state[j] = "active" /\ state'[j] = "stalled"
      BY <1>12 DEF MemCrash, WorkerCrash, Active
    <3>2. \A j \in Jobs : PromiseNow[j] = Seen(state[j]) /\ PromiseNow'[j] = Seen(state'[j])
      BY DEF PromiseNow, PromiseOf, Seen
    <3>. QED
      BY <3>1, <3>2 DEF Seen
  <2>3. Promise!Die
    BY <2>1, <2>2 DEF Promise!Die, PromiseNow, LeftNow, Excused
  <2>. QED
    BY <2>3 DEF PromiseNext, Promise!Next
<1>13. ASSUME LoopEnd \/ UNCHANGED vars \/ \E j \in Jobs : Forget(j)
       PROVE  PromiseNext
  <2>1. state' = state /\ failures' = failures /\ crashes' = crashes
    BY <1>13 DEF LoopEnd, vars, Forget
  <2>2. PromiseNow' = PromiseNow
    BY <2>1 DEF PromiseNow, PromiseOf
  <2>. QED
    BY <2>1, <2>2, Unseen
<1>. QED
  BY <1>3, <1>5, <1>6, <1>7, <1>8, <1>9, <1>10, <1>11, <1>12, <1>13 DEF Next, Loop, HandlerEnds

(* Both backends keep what enqueue promises, whatever fails or dies.       *)
THEOREM PromiseIsKept == Spec => PromiseKept
<1>1. JobInv /\ [Next]_vars
        => [Promise!Next]_<<[j \in Jobs |-> PromiseOf(j)],
                            [j \in Jobs |-> IF failures[j] < attempts THEN attempts - failures[j] ELSE 0],
                            crashes > 0>>
  BY PromiseStep DEF PromiseNext, PromiseNow, LeftNow, Excused
<1>. QED
  BY <1>1, PromiseInitial, JobsInvariant, PTL DEF Spec, PromiseKept, Promise!Spec
-----------------------------------------------------------------------------
(* The feed.                                                               *)
Crawling == [step : {"generate", "store", "served"}, at : Hosts,
             data : 0..MaxChanges, promises : 0..MaxChanges]

FeedRows ==
  /\ shared \in BOOLEAN
  /\ catalogue \in 0..MaxChanges
  /\ copies \in [Hosts \cup {Redis} -> [data : 0..MaxChanges, age : 0..FeedTtl]]
  /\ crawl \in [Crawls -> Crawling \cup {NoCrawl}]
  /\ past \in [0..FeedTtl -> 0..MaxChanges]
  /\ promised \in 0..MaxChanges

(* The past only grows towards the present.                                *)
PastInOrder ==
  /\ past[0] <= catalogue
  /\ \A i, k \in 0..FeedTtl : i <= k => past[k] <= past[i]

(* A copy is as new as the catalogue was when it was this young, and a     *)
(* feed about to be stored is of this tick.                                *)
CopiesDated ==
  \A l \in Hosts \cup {Redis} : copies[l].age < FeedTtl => copies[l].data >= past[copies[l].age]

StoresOfNow ==
  \A r \in Crawls : crawl[r].step = "store" => crawl[r].data >= past[0]

(* What is promised is of the past, only Redis keeps promises, and nobody  *)
(* is about to store less than what is or will be promised.                *)
PromisesKept ==
  /\ promised <= catalogue
  /\ \A r \in Crawls : crawl[r] # NoCrawl =>
       /\ crawl[r].promises <= catalogue /\ (crawl[r].promises > 0 => shared)
       /\ crawl[r].step = "store" => crawl[r].data >= promised /\ crawl[r].data >= crawl[r].promises

FeedInv ==
  FeedRows /\ PastInOrder /\ CopiesDated /\ StoresOfNow /\ PromisesKept /\ FeedFresh /\ FeedPromise

LEMMA FeedFacts ==
  ASSUME FeedInv
  PROVE  /\ FeedTtl \in Nat /\ FeedTtl >= 1 /\ MaxChanges \in Nat /\ Redis \notin Hosts
         /\ catalogue \in Nat /\ promised \in Nat
         /\ \A k \in 0..FeedTtl : past[k] \in Nat /\ past[k] <= catalogue
         /\ \A r \in Crawls : crawl[r].step \in {"generate", "store", "served"} => crawl[r] \in Crawling
<1>1. FeedTtl \in Nat /\ FeedTtl >= 1 /\ MaxChanges \in Nat /\ Redis \notin Hosts
  BY FeedAssumption
<1>2. catalogue \in Nat /\ promised \in Nat /\ \A k \in 0..FeedTtl : past[k] \in Nat
  BY <1>1 DEF FeedInv, FeedRows
<1>3. \A k \in 0..FeedTtl : past[k] <= past[0] /\ past[0] <= catalogue /\ 0 \in 0..FeedTtl
  BY <1>1 DEF FeedInv, PastInOrder
<1>4. \A k \in 0..FeedTtl : past[k] <= catalogue
  BY <1>2, <1>3
<1>5. \A r \in Crawls : crawl[r].step \in {"generate", "store", "served"} => crawl[r] \in Crawling
  BY DEF FeedInv, FeedRows, NoCrawl
<1>. QED
  BY <1>1, <1>2, <1>4, <1>5

(* A copy's data is never newer than now, and never older than FeedTtl.    *)
LEMMA AliveIsFresh ==
  ASSUME FeedInv, NEW l \in Hosts \cup {Redis}, copies[l].age < FeedTtl
  PROVE  copies[l].data \in 0..MaxChanges /\ copies[l].data >= past[FeedTtl - 1]
<1>1. copies[l].data \in 0..MaxChanges /\ copies[l].age \in 0..FeedTtl
  BY DEF FeedInv, FeedRows
<1>2. copies[l].data >= past[copies[l].age]
  BY DEF FeedInv, CopiesDated
<1>3. copies[l].age <= FeedTtl - 1 /\ FeedTtl - 1 \in 0..FeedTtl
  BY <1>1, FeedFacts
<1>4. past[FeedTtl - 1] <= past[copies[l].age]
  BY <1>1, <1>3 DEF FeedInv, PastInOrder
<1>. QED
  BY <1>1, <1>2, <1>3, <1>4, FeedFacts

(* A request goes on to c, and the copies and the promise may change.      *)
LEMMA CrawlMoves ==
  ASSUME FeedInv, NEW r \in Crawls, NEW c \in Crawling \cup {NoCrawl},
         crawl' = [crawl EXCEPT ![r] = c], UNCHANGED <<shared, catalogue, past>>,
         copies' \in [Hosts \cup {Redis} -> [data : 0..MaxChanges, age : 0..FeedTtl]],
         CopiesDated', FeedPromise',
         promised' \in 0..MaxChanges, promised' <= catalogue,
         \A q \in Crawls \ {r} : crawl[q].step = "store" => crawl[q].data >= promised',
         c.step = "store" => c.data >= past[0] /\ c.data >= promised' /\ c.data >= c.promises,
         c.step = "served" => c.data >= past[FeedTtl - 1],
         c # NoCrawl => c.promises <= catalogue /\ (c.promises > 0 => shared)
  PROVE  FeedInv'
<1>1. crawl'[r] = c /\ \A q \in Crawls \ {r} : crawl'[q] = crawl[q]
  BY DEF FeedInv, FeedRows
<1>2. FeedRows'
  BY DEF FeedInv, FeedRows
<1>3. PastInOrder'
  BY DEF FeedInv, PastInOrder
<1>4. StoresOfNow'
  BY <1>1 DEF FeedInv, StoresOfNow
<1>5. PromisesKept'
  BY <1>1 DEF FeedInv, PromisesKept
<1>6. FeedFresh'
  BY <1>1 DEF FeedInv, FeedFresh
<1>. QED
  BY <1>2, <1>3, <1>4, <1>5, <1>6 DEF FeedInv

(* The same without a change of the copies and the promise.                *)
LEMMA CrawlOnly ==
  ASSUME FeedInv, NEW r \in Crawls, NEW c \in Crawling \cup {NoCrawl},
         crawl' = [crawl EXCEPT ![r] = c], UNCHANGED <<shared, catalogue, copies, past, promised>>,
         c.step = "store" => c.data >= past[0] /\ c.data >= promised /\ c.data >= c.promises,
         c.step = "served" => c.data >= past[FeedTtl - 1],
         c # NoCrawl => c.promises <= catalogue /\ (c.promises > 0 => shared)
  PROVE  FeedInv'
<1>1. CopiesDated' /\ FeedPromise'
  BY DEF FeedInv, CopiesDated, FeedPromise
<1>2. \A q \in Crawls \ {r} : crawl[q].step = "store" => crawl[q].data >= promised'
  BY FeedFacts DEF FeedInv, PromisesKept, NoCrawl
<1>3. /\ copies' \in [Hosts \cup {Redis} -> [data : 0..MaxChanges, age : 0..FeedTtl]]
      /\ promised' \in 0..MaxChanges /\ promised' <= catalogue /\ promised' = promised
  BY DEF FeedInv, FeedRows, PromisesKept
<1>. QED
  BY <1>1, <1>2, <1>3, CrawlMoves

(* A copy that is written is of this tick, or none.                        *)
LEMMA CopyWritten ==
  ASSUME FeedInv, NEW set, NEW e \in [data : 0..MaxChanges, age : 0..FeedTtl],
         copies' = [l \in Hosts \cup {Redis} |-> IF l \in set THEN e ELSE copies[l]],
         past' = past, e.age = FeedTtl \/ (e.age = 0 /\ e.data >= past[0])
  PROVE  /\ copies' \in [Hosts \cup {Redis} -> [data : 0..MaxChanges, age : 0..FeedTtl]]
         /\ CopiesDated'
<1>1. copies' \in [Hosts \cup {Redis} -> [data : 0..MaxChanges, age : 0..FeedTtl]]
  BY DEF FeedInv, FeedRows
<1>2. ASSUME NEW l \in Hosts \cup {Redis}, copies'[l].age < FeedTtl
      PROVE  copies'[l].data >= past[copies'[l].age]
  <2>1. CASE l \in set
    BY <1>2, <2>1, FeedFacts
  <2>2. CASE l \notin set
    BY <1>2, <2>2 DEF FeedInv, CopiesDated
  <2>. QED
    BY <2>1, <2>2
<1>. QED
  BY <1>1, <1>2 DEF CopiesDated

LEMMA FeedInitial == FeedInit => FeedInv
<1>. SUFFICES ASSUME FeedInit PROVE FeedInv
  OBVIOUS
<1>1. FeedTtl \in Nat /\ FeedTtl >= 1 /\ MaxChanges \in Nat
  BY FeedAssumption
<1>2. FeedRows
  BY <1>1 DEF FeedInit, FeedRows, NoCopy
<1>3. PastInOrder /\ CopiesDated
  BY <1>1 DEF FeedInit, PastInOrder, CopiesDated, NoCopy
<1>4. StoresOfNow /\ PromisesKept /\ FeedFresh
  BY DEF FeedInit, StoresOfNow, PromisesKept, FeedFresh, NoCrawl
<1>5. FeedPromise
  BY <1>1 DEF FeedInit, FeedPromise, NoCopy
<1>. QED
  BY <1>2, <1>3, <1>4, <1>5 DEF FeedInv

(* A request begins: a hit serves an alive copy.                           *)
LEMMA BeginKeeps ==
  ASSUME FeedInv, NEW r \in Crawls, NEW s \in Hosts, Hit(r, s) \/ Miss(r, s)
  PROVE  FeedInv'
<1>1. ASSUME NEW step \in {"generate", "served"}, NEW data \in 0..MaxChanges,
             Starting(r, s, step, data, 0), UNCHANGED <<shared, catalogue, copies, past, promised>>,
             step = "served" => data >= past[FeedTtl - 1]
      PROVE  FeedInv'
  <2>. DEFINE c == [step |-> step, at |-> s, data |-> data, promises |-> 0]
  <2>1. c \in Crawling /\ c.step # "store"
    BY FeedFacts DEF Crawling
  <2>2. crawl' = [crawl EXCEPT ![r] = c] /\ c.promises = 0 /\ c.step = step /\ c.data = data
    BY <1>1 DEF Starting
  <2>3. c.promises <= catalogue
    BY <2>2, FeedFacts
  <2>4. c.step = "served" => c.data >= past[FeedTtl - 1]
    BY <1>1, <2>2
  <2>5. ~(c.promises > 0)
    BY <2>2
  <2>. HIDE DEF c
  <2>6. crawl' = [crawl EXCEPT ![r] = c] /\ c \in Crawling \cup {NoCrawl}
        /\ UNCHANGED <<shared, catalogue, copies, past, promised>>
    BY <1>1, <2>1, <2>2
  <2>. QED
    BY <2>1, <2>3, <2>4, <2>5, <2>6, CrawlOnly
<1>2. CASE Hit(r, s)
  <2>1. Place(s) \in Hosts \cup {Redis}
    BY DEF Place
  <2>. QED
    BY <1>1, <1>2, <2>1, AliveIsFresh DEF Hit, Alive
<1>3. CASE Miss(r, s)
  BY <1>1, <1>3, FeedFacts DEF Miss
<1>. QED
  BY <1>2, <1>3

(* An invalidation begins: its promise is the catalogue of now.            *)
LEMMA InvalidateKeeps ==
  ASSUME FeedInv, NEW r \in Crawls, NEW s \in Hosts, Invalidate(r, s) \/ InvalidateFails(r, s)
  PROVE  FeedInv'
<1>. DEFINE c == [step |-> "generate", at |-> s, data |-> 0, promises |-> Promising]
            set == IF Invalidate(r, s) /\ shared THEN {s, Redis} ELSE {s}
<1>1. /\ crawl' = [crawl EXCEPT ![r] = c] /\ UNCHANGED <<shared, catalogue, past, promised>>
  BY DEF Invalidate, InvalidateFails, Starting
<1>2. copies' = [l \in Hosts \cup {Redis} |-> IF l \in set THEN NoCopy ELSE copies[l]]
  <2>1. CASE Invalidate(r, s)
    BY <2>1 DEF Invalidate, Dropped
  <2>2. CASE ~Invalidate(r, s)
    BY <2>2 DEF InvalidateFails, FeedInv, FeedRows
  <2>. QED
    BY <2>1, <2>2
<1>3. Promising \in 0..MaxChanges /\ Promising <= catalogue /\ (Promising > 0 => shared)
  BY FeedFacts DEF Promising, FeedInv, FeedRows
<1>4. /\ c \in Crawling /\ c.step = "generate" /\ c.promises = Promising
  BY <1>3, FeedFacts DEF Crawling
<1>5. NoCopy \in [data : 0..MaxChanges, age : 0..FeedTtl] /\ NoCopy.age = FeedTtl
  BY FeedFacts DEF NoCopy
<1>. HIDE DEF set, c
<1>6. /\ copies' \in [Hosts \cup {Redis} -> [data : 0..MaxChanges, age : 0..FeedTtl]]
      /\ CopiesDated'
  BY <1>1, <1>2, <1>5, CopyWritten
<1>7. FeedPromise'
  <2>1. copies'[Redis] = NoCopy \/ copies'[Redis] = copies[Redis]
    BY <1>2
  <2>. QED
    BY <1>1, <1>5, <2>1, FeedFacts DEF FeedInv, FeedPromise
<1>8. \A q \in Crawls \ {r} : crawl[q].step = "store" => crawl[q].data >= promised'
  BY <1>1, FeedFacts DEF FeedInv, PromisesKept, NoCrawl
<1>9. promised' \in 0..MaxChanges /\ promised' <= catalogue
  BY <1>1 DEF FeedInv, FeedRows, PromisesKept
<1>. QED
  BY <1>1, <1>3, <1>4, <1>6, <1>7, <1>8, <1>9, CrawlMoves

LEMMA GenerateKeeps ==
  ASSUME FeedInv, NEW r \in Crawls, Generate(r)
  PROVE  FeedInv'
<1>. DEFINE c == crawl'[r]
<1>1. /\ crawl[r].step = "generate" /\ UNCHANGED <<shared, catalogue, copies, past, promised>>
      /\ crawl' = [crawl EXCEPT ![r].step = "store", ![r].data = catalogue]
  BY DEF Generate
<1>2. crawl[r] \in Crawling
  BY <1>1, FeedFacts
<1>3. c = [crawl[r] EXCEPT !.step = "store", !.data = catalogue]
  BY <1>1 DEF FeedInv, FeedRows
<1>4. crawl' = [crawl EXCEPT ![r] = c]
  BY <1>1 DEF FeedInv, FeedRows
<1>5. c \in Crawling /\ c.step = "store" /\ c.data = catalogue /\ c.promises = crawl[r].promises
  BY <1>2, <1>3, FeedFacts DEF Crawling, FeedInv, FeedRows
<1>6. crawl[r].promises <= catalogue /\ (crawl[r].promises > 0 => shared) /\ promised <= catalogue
  BY <1>1 DEF FeedInv, PromisesKept, NoCrawl
<1>7. catalogue >= past[0] /\ catalogue >= promised /\ catalogue >= crawl[r].promises
  BY <1>2, <1>6, FeedFacts DEF Crawling, FeedInv, PastInOrder
<1>. HIDE DEF c
<1>. QED
  BY <1>1, <1>4, <1>5, <1>6, <1>7, CrawlOnly

LEMMA StoreKeeps ==
  ASSUME FeedInv, NEW r \in Crawls, Store(r) \/ StoreFails(r)
  PROVE  FeedInv'
<1>. DEFINE d == crawl[r].data
            e == [data |-> d, age |-> 0]
            c == crawl'[r]
            l == IF Store(r) THEN Place(crawl[r].at) ELSE crawl[r].at
<1>1. /\ crawl[r].step = "store" /\ UNCHANGED <<shared, catalogue, past>>
      /\ crawl' = [crawl EXCEPT ![r].step = "served"]
  BY DEF Store, StoreFails, Ends
<1>2. crawl[r] \in Crawling /\ d \in 0..MaxChanges /\ crawl[r].at \in Hosts
      /\ crawl[r].promises \in 0..MaxChanges
  BY <1>1, FeedFacts DEF Crawling
<1>3. crawl' = [crawl EXCEPT ![r] = c] /\ c \in Crawling
      /\ c.step = "served" /\ c.data = d /\ c.promises = crawl[r].promises
  <2>1. c = [crawl[r] EXCEPT !.step = "served"]
    BY <1>1 DEF FeedInv, FeedRows
  <2>2. crawl' = [crawl EXCEPT ![r] = c]
    BY <1>1 DEF FeedInv, FeedRows
  <2>. QED
    BY <1>2, <2>1, <2>2 DEF Crawling
<1>4. copies' = [copies EXCEPT ![l] = e] /\ l \in Hosts \cup {Redis}
  BY <1>2 DEF Store, StoreFails, Place
<1>5. copies' = [k \in Hosts \cup {Redis} |-> IF k \in {l} THEN e ELSE copies[k]]
  BY <1>4 DEF FeedInv, FeedRows
<1>6. d >= past[0] /\ d >= promised /\ d >= crawl[r].promises /\ crawl[r].promises <= catalogue
      /\ (crawl[r].promises > 0 => shared) /\ promised <= catalogue
  BY <1>1 DEF FeedInv, StoresOfNow, PromisesKept, NoCrawl
<1>7. d >= past[FeedTtl - 1]
  <2>1. past[FeedTtl - 1] <= past[0] /\ FeedTtl - 1 \in 0..FeedTtl /\ 0 \in 0..FeedTtl
    BY FeedFacts DEF FeedInv, PastInOrder
  <2>. QED
    BY <1>2, <1>6, <2>1, FeedFacts
<1>8. e \in [data : 0..MaxChanges, age : 0..FeedTtl] /\ e.age = 0 /\ e.data = d
  BY <1>2, FeedFacts
<1>9. \/ promised' = promised
      \/ /\ Store(r) /\ promised' = crawl[r].promises /\ crawl[r].promises > promised
         /\ \A q \in Crawls \ {r} : crawl[q].step = "store" => crawl[q].data >= crawl[r].promises
  BY DEF Store, StoreFails, Ends
<1>. HIDE DEF c, e, l
<1>10. /\ copies' \in [Hosts \cup {Redis} -> [data : 0..MaxChanges, age : 0..FeedTtl]]
       /\ CopiesDated'
  <2>1. past' = past /\ e.data >= past[0]
    BY <1>1, <1>6, <1>8
  <2>. QED
    BY <1>5, <1>8, <2>1, CopyWritten
<1>11. promised' \in 0..MaxChanges /\ promised' <= catalogue /\ d >= promised'
  BY <1>2, <1>6, <1>9 DEF FeedInv, FeedRows
<1>12. \A q \in Crawls \ {r} : crawl[q].step = "store" => crawl[q].data >= promised'
  BY <1>9, FeedFacts DEF FeedInv, PromisesKept, NoCrawl
<1>13. FeedPromise'
  <2>. SUFFICES ASSUME shared, copies'[Redis].age < FeedTtl
                PROVE  copies'[Redis].data >= promised'
    BY <1>1 DEF FeedPromise
  <2>1. CASE l = Redis
    BY <1>5, <1>8, <1>11, <2>1
  <2>2. CASE l # Redis
    <3>1. copies'[Redis] = copies[Redis]
      BY <1>5, <2>2
    <3>2. promised' = promised
      BY <1>2, <1>9, <2>2 DEF Place, l
    <3>. QED
      BY <3>1, <3>2 DEF FeedInv, FeedPromise
  <2>. QED
    BY <2>1, <2>2
<1>. QED
  BY <1>1, <1>3, <1>6, <1>7, <1>10, <1>11, <1>12, <1>13, CrawlMoves

LEMMA FeedTickKeeps ==
  ASSUME FeedInv, FeedTick
  PROVE  FeedInv'
<1>1. /\ copies' = [l \in Hosts \cup {Redis} |->
                     [copies[l] EXCEPT !.age = IF @ = FeedTtl THEN @ ELSE @ + 1]]
      /\ past' = [k \in 0..FeedTtl |-> IF k = 0 THEN catalogue ELSE past[k - 1]]
      /\ UNCHANGED <<shared, catalogue, crawl, promised>>
      /\ \A r \in Crawls : crawl[r] = NoCrawl
  BY DEF FeedTick
<1>2. \A k \in 0..FeedTtl : k # 0 => k - 1 \in 0..FeedTtl
  BY FeedFacts
<1>3. past' \in [0..FeedTtl -> 0..MaxChanges]
  BY <1>1, <1>2 DEF FeedInv, FeedRows
<1>4. \A l \in Hosts \cup {Redis} :
        /\ copies[l].age \in 0..FeedTtl /\ copies[l].data \in 0..MaxChanges
        /\ copies'[l].data = copies[l].data
        /\ copies'[l].age = IF copies[l].age = FeedTtl THEN FeedTtl ELSE copies[l].age + 1
        /\ copies'[l] \in [data : 0..MaxChanges, age : 0..FeedTtl]
  <2>. SUFFICES ASSUME NEW l \in Hosts \cup {Redis}
                PROVE  /\ copies[l].age \in 0..FeedTtl /\ copies[l].data \in 0..MaxChanges
                       /\ copies'[l].data = copies[l].data
                       /\ copies'[l].age = IF copies[l].age = FeedTtl THEN FeedTtl ELSE copies[l].age + 1
                       /\ copies'[l] \in [data : 0..MaxChanges, age : 0..FeedTtl]
    OBVIOUS
  <2>. DEFINE a == copies[l].age
              b == IF a = FeedTtl THEN FeedTtl ELSE a + 1
  <2>1. copies[l] \in [data : 0..MaxChanges, age : 0..FeedTtl] /\ a \in 0..FeedTtl
    BY DEF FeedInv, FeedRows
  <2>2. b \in 0..FeedTtl
    BY <2>1, FeedFacts
  <2>3. copies'[l] = [copies[l] EXCEPT !.age = b]
    BY <1>1
  <2>. HIDE DEF b
  <2>4. copies'[l].age = b /\ copies'[l].data = copies[l].data
        /\ copies'[l] \in [data : 0..MaxChanges, age : 0..FeedTtl]
    BY <2>1, <2>2, <2>3
  <2>. QED
    BY <2>1, <2>4 DEF b
<1>5. FeedRows'
  <2>1. copies' \in [Hosts \cup {Redis} -> [data : 0..MaxChanges, age : 0..FeedTtl]]
    BY <1>1, <1>4
  <2>. QED
    BY <1>1, <1>3, <2>1 DEF FeedInv, FeedRows
<1>6. PastInOrder'
  <2>1. past'[0] <= catalogue /\ 0 \in 0..FeedTtl
    BY <1>1, FeedFacts
  <2>2. ASSUME NEW i \in 0..FeedTtl, NEW k \in 0..FeedTtl, i <= k
        PROVE  past'[k] <= past'[i]
    <3>1. CASE i = 0
      BY <1>1, <1>2, <3>1, FeedFacts
    <3>2. CASE i # 0
      <4>1. k # 0 /\ i - 1 <= k - 1 /\ i - 1 \in 0..FeedTtl /\ k - 1 \in 0..FeedTtl
        BY <1>2, <2>2, <3>2, FeedFacts
      <4>2. past[k - 1] <= past[i - 1]
        BY <4>1 DEF FeedInv, PastInOrder
      <4>. QED
        BY <1>1, <4>1, <4>2, <3>2
    <3>. QED
      BY <3>1, <3>2
  <2>. QED
    BY <1>1, <2>1, <2>2 DEF PastInOrder
<1>7. CopiesDated'
  <2>. SUFFICES ASSUME NEW l \in Hosts \cup {Redis}, copies'[l].age < FeedTtl
                PROVE  copies'[l].data >= past'[copies'[l].age]
    BY DEF CopiesDated
  <2>1. copies'[l].age = copies[l].age + 1 /\ copies[l].age < FeedTtl /\ copies[l].age \in 0..FeedTtl
    BY <1>4, FeedFacts
  <2>2. past'[copies'[l].age] = past[copies[l].age]
    BY <1>1, <2>1, FeedFacts
  <2>. QED
    BY <1>4, <2>1, <2>2 DEF FeedInv, CopiesDated
<1>8. StoresOfNow' /\ FeedFresh' /\ PromisesKept'
  BY <1>1 DEF FeedInv, StoresOfNow, FeedFresh, PromisesKept, NoCrawl
<1>9. FeedPromise'
  <2>. SUFFICES ASSUME shared, copies'[Redis].age < FeedTtl
                PROVE  copies'[Redis].data >= promised
    BY <1>1 DEF FeedPromise
  <2>1. copies[Redis].age < FeedTtl /\ copies'[Redis].data = copies[Redis].data
    BY <1>4, FeedFacts
  <2>. QED
    BY <2>1 DEF FeedInv, FeedPromise
<1>. QED
  BY <1>5, <1>6, <1>7, <1>8, <1>9 DEF FeedInv

LEMMA FeedStep == FeedInv /\ [FeedNext]_feedVars => FeedInv'
<1>. SUFFICES ASSUME FeedInv, [FeedNext]_feedVars
              PROVE  FeedInv'
  OBVIOUS
<1>1. CASE ChangeCatalogue
  <2>1. /\ catalogue' = catalogue + 1 /\ catalogue < MaxChanges
        /\ UNCHANGED <<shared, copies, crawl, past, promised>>
    BY <1>1 DEF ChangeCatalogue
  <2>2. FeedRows'
    BY <2>1, FeedFacts DEF FeedInv, FeedRows
  <2>3. PastInOrder'
    BY <2>1, FeedFacts DEF FeedInv, PastInOrder
  <2>4. CopiesDated' /\ StoresOfNow' /\ FeedFresh' /\ FeedPromise'
    BY <2>1 DEF FeedInv, CopiesDated, StoresOfNow, FeedFresh, FeedPromise
  <2>5. \A r \in Crawls : crawl[r] # NoCrawl => crawl[r].promises \in Nat
    BY FeedFacts DEF FeedInv, FeedRows, Crawling
  <2>6. PromisesKept'
    BY <2>1, <2>5, FeedFacts DEF FeedInv, PromisesKept
  <2>. QED
    BY <2>2, <2>3, <2>4, <2>6 DEF FeedInv
<1>2. ASSUME NEW r \in Crawls, CrawlStep(r)
      PROVE  FeedInv'
  <2>1. CASE Answer(r)
    BY <2>1, CrawlOnly DEF Answer, NoCrawl
  <2>. QED
    BY <1>2, <2>1, BeginKeeps, InvalidateKeeps, GenerateKeeps, StoreKeeps DEF CrawlStep
<1>3. CASE FeedTick
  BY <1>3, FeedTickKeeps
<1>4. CASE UNCHANGED feedVars
  BY <1>4 DEF feedVars, FeedInv, FeedRows, PastInOrder, CopiesDated, StoresOfNow, PromisesKept,
              FeedFresh, FeedPromise
<1>. QED
  BY <1>1, <1>2, <1>3, <1>4 DEF FeedNext

LEMMA FeedInvariant == FeedSpec => []FeedInv
BY FeedInitial, FeedStep, PTL DEF FeedSpec

(* For any number of instances, requests and outages no feed served is     *)
(* older than CACHE_TTL_SEC.                                               *)
THEOREM FeedIsFresh == FeedSpec => []FeedFresh
<1>1. FeedInv => FeedFresh
  BY DEF FeedInv
<1>. QED
  BY <1>1, FeedInvariant, PTL

(* An invalidation that has stored its feed is not undone.                 *)
THEOREM InvalidationHolds == FeedSpec => []FeedPromise
<1>1. FeedInv => FeedPromise
  BY DEF FeedInv
<1>. QED
  BY <1>1, FeedInvariant, PTL

(* lib/naver-feed.ts: copies, crawls and what was promised keep their      *)
(* types.                                                                  *)
THEOREM FeedTypeCorrect == FeedSpec => []FeedTypeOK
<1>1. FeedInit => outages \in 0..MaxOutages
  BY FeedAssumption DEF FeedInit
<1>2. outages \in 0..MaxOutages /\ [FeedNext]_feedVars => (outages \in 0..MaxOutages)'
  <2>. SUFFICES ASSUME outages \in 0..MaxOutages, [FeedNext]_feedVars
                PROVE  outages' = outages \/ (outages < MaxOutages /\ outages' = outages + 1)
    BY FeedAssumption
  <2>1. ASSUME NEW r \in Crawls, CrawlStep(r)
        PROVE  outages' = outages \/ (outages < MaxOutages /\ outages' = outages + 1)
    BY <2>1 DEF CrawlStep, Hit, Miss, Invalidate, InvalidateFails, Generate, Store, StoreFails, Answer
  <2>. QED
    BY <2>1 DEF FeedNext, ChangeCatalogue, FeedTick, feedVars
<1>3. FeedInv /\ outages \in 0..MaxOutages => FeedTypeOK
  BY DEF FeedInv, FeedRows, Crawling, FeedTypeOK
<1>. QED
  BY <1>1, <1>2, <1>3, FeedInvariant, PTL DEF FeedSpec

-----------------------------------------------------------------------------
(***************************************************************************)
(* The rate limiter.                                                       *)
(***************************************************************************)
(* A key whose time is over is gone, so no expiry counts below zero.       *)
LimitInv == LimitTypeOK /\ counter.left # 0

(* security.ts: the counters stay within the limit and the window.         *)
THEOREM LimitTypeCorrect == LimitSpec => []LimitTypeOK
<1>. USE LimitAssumption DEF LimitInv, LimitTypeOK, Endless
<1>1. LimitInit => LimitInv
  BY DEF LimitInit
<1>2. LimitInv /\ [LimitNext]_limitVars => LimitInv'
  <2>. SUFFICES ASSUME LimitInv, [LimitNext]_limitVars PROVE LimitInv'
    OBVIOUS
  <2>1. Counted \in [count : 0..Limit + 1, left : 1..Endless]
    BY DEF Counted
  <2>2. ASSUME NEW s \in Servers, InMemory(s)
        PROVE  bucket' \in [Servers -> [count : 0..Limit, left : 0..Window]]
    BY <2>2 DEF InMemory
  <2>3. ASSUME NEW c \in Callers, Multi(c) PROVE LimitInv'
    BY <2>1, <2>3 DEF Multi
  <2>4. ASSUME NEW c \in Callers, PExpire(c) PROVE LimitInv'
    BY <2>4 DEF PExpire
  <2>5. ASSUME NEW c \in Callers, Dies(c) PROVE LimitInv'
    BY <2>5 DEF Dies
  <2>6. ASSUME NEW c \in Callers, NEW s \in Servers, MultiFails(c, s) PROVE LimitInv'
    BY <2>1, <2>2, <2>6 DEF MultiFails
  <2>7. ASSUME NEW c \in Callers, NEW s \in Servers, PExpireFails(c, s) PROVE LimitInv'
    BY <2>2, <2>7 DEF PExpireFails
  <2>8. CASE LimitTick
    BY <2>8 DEF LimitTick
  <2>9. CASE UNCHANGED limitVars
    BY <2>9 DEF limitVars
  <2>. QED
    BY <2>3, <2>4, <2>5, <2>6, <2>7, <2>8, <2>9 DEF LimitNext
<1>3. LimitInv => LimitTypeOK
  OBVIOUS
<1>. QED
  BY <1>1, <1>2, <1>3, PTL DEF LimitSpec

-----------------------------------------------------------------------------
(***************************************************************************)
(* The three services side by side.  They share no variable: a step of the *)
(* composition is a step of one of them and a stutter of the others, so    *)
(* what each promises alone it promises here.                              *)
(***************************************************************************)
LEMMA PartsOfPlatform == MCSpec => Spec /\ LimitSpec /\ FeedSpec
<1>1. MCInit => Init /\ LimitInit /\ FeedInit
  BY DEF MCInit
<1>2. ASSUME [MCNext]_<<part, vars, limitVars, feedVars>>
      PROVE  [Next]_vars /\ [LimitNext]_limitVars /\ [FeedNext]_feedVars
  BY <1>2 DEF MCNext, LimitPart
<1>. QED
  BY <1>1, <1>2, PTL DEF MCSpec, Spec, LimitSpec, FeedSpec

(* Whichever of the queue, the limiter and the feed runs (queue.ts,        *)
(* security.ts, naver-feed.ts), for any jobs, callers, servers and         *)
(* bounds, all of their state keeps its types: the array of the in-memory  *)
(* queue holds just the waiting jobs, each once, and no counter passes     *)
(* its limit.                                                              *)
THEOREM PlatformTypeCorrect == MCSpec => []PlatformTypeOK
<1>1. TypeOK /\ LimitTypeOK /\ FeedTypeOK => PlatformTypeOK
  BY DEF PlatformTypeOK
<1>. QED
  BY <1>1, PartsOfPlatform, QueueTypeCorrect, LimitTypeCorrect, FeedTypeCorrect, PTL
=============================================================================
