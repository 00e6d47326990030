------------------------------ MODULE JobQueue ------------------------------
(***************************************************************************)
(* ProcessingQueue (src/src/services/queue.ts): the job queue persisted in *)
(* the SQLite table job_queue and worked off by an in-process pool.        *)
(*                                                                         *)
(* better-sqlite3 is synchronous, so everything between two awaits is one  *)
(* atomic action; the callbacks of a settled promise are microtasks and    *)
(* run before any timer or request (Drained).  The row is persistent, the  *)
(* worker's Job object (held), the slots (active) and the running flag are *)
(* lost in a crash.                                                        *)
(*                                                                         *)
(* Jobs are numbered in the order they are enqueued, which is the order of *)
(* queued_at.  Times are abstracted to whether next_attempt_at has passed. *)
(***************************************************************************)
EXTENDS Integers, FiniteSets

CONSTANTS
  MaxJobs,          \* bound: number of jobs ever enqueued
  Concurrency,      \* worker slots (QUEUE_CONCURRENCY)
  Types, Handled,   \* job types, and those with a registered handler
  Keys, NoKey,      \* idempotency keys callers use, and the absence of one
  Priorities,       \* ranks in PRIORITY_ORDER: 0 is the most urgent
  MaxAttemptsArgs,  \* values callers give maxAttempts
  Undefined,        \* JavaScript's undefined
  MaxFailures,      \* bound: how often handlers reject, over a behaviour
  MaxRestarts        \* bound: how often the process ends, over a behaviour

Jobs == 1 .. MaxJobs

ASSUME QueueAssumption ==
  /\ MaxJobs \in Nat \ {0}
  /\ Concurrency \in Nat \ {0}
  /\ Types # {} /\ Handled \subseteq Types
  /\ NoKey \notin Keys
  /\ Priorities # {} /\ Priorities \subseteq Nat
  /\ MaxAttemptsArgs \subseteq Nat \ {0}
  /\ Undefined \notin Nat
  /\ MaxFailures \in Nat
  /\ MaxRestarts \in Nat

VARIABLES
  job_queue,   \* the table: one row per job, status "absent" when not enqueued, "purged" when deleted
  proc,        \* "down", "running" (this.running) or "stopping" (after stop())
  active,      \* jobs whose processJob has not been through .finally yet
  held,        \* held[j]: the Job object a worker got from dequeueNext
  failures,    \* how often a handler rejected so far
  restarts     \* how often the process was stopped or died so far

vars == <<job_queue, proc, active, held, failures, restarts>>

Statuses == {"absent", "queued", "processing", "completed", "dead", "purged"}

Row == [status       : Statuses,
        type         : Types,
        priority     : Priorities,
        key          : Keys \cup {NoKey},
        attempts     : Nat,
        max_attempts : Nat,
        due          : BOOLEAN]      \* next_attempt_at is NULL or has passed

JobObject == [attempts : Nat, maxAttempts : Nat \cup {Undefined}]
NoJob     == [attempts |-> 0, maxAttempts |-> Undefined]

\* No row: not enqueued yet, or deleted by purge().
AbsentRow ==
  [status |-> "absent", type |-> CHOOSE t \in Types : TRUE,
   priority |-> CHOOSE p \in Priorities : TRUE, key |-> NoKey,
   attempts |-> 0, max_attempts |-> 0, due |-> TRUE]
PurgedRow == [AbsentRow EXCEPT !.status = "purged"]

Live(row)     == row.status \in {"queued", "processing"}
Present(row)  == row.status \notin {"absent", "purged"}
Terminal(row) == row.status \in {"completed", "dead"}

TypeOK ==
  /\ job_queue \in [Jobs -> Row]
  /\ proc \in {"down", "running", "stopping"}
  /\ active \in SUBSET Jobs
  /\ held \in [Jobs -> JobObject]
  /\ failures \in 0 .. MaxFailures
  /\ restarts \in 0 .. MaxRestarts

-----------------------------------------------------------------------------
(* The worker loop. *)

\* dequeueNext: WHERE status = 'queued' AND next_attempt_at has passed.
Ready(q) == {j \in Jobs : q[j].status = "queued" /\ q[j].due}

\* dequeueNext: ORDER BY priority rank, queued_at.
Before(q, i, j) ==
  \/ q[i].priority < q[j].priority
  \/ q[i].priority = q[j].priority /\ i < j

\* Faults: ORDER BY queued_at alone; the loop of tick() tests activeCount <= concurrency.
PickedInOrderOfArrival(q, act) ==
  {j \in Ready(q) :
     Cardinality({i \in Ready(q) : i < j}) < Concurrency - Cardinality(act)}

\* The jobs the loop of tick() dequeues: those with fewer jobs before them
\* than there are free slots.
Picked(q, act) ==
  {j \in Ready(q) :
     Cardinality({i \in Ready(q) : Before(q, i, j)}) < Concurrency - Cardinality(act)}

\* The row after dequeueNext's UPDATE; processJob buries it at once when no
\* handler is registered for its type.
Started(row) ==
  [row EXCEPT !.attempts = @ + 1,
              !.status   = IF row.type \in Handled THEN "processing" ELSE "dead"]

\* dequeueNext returns the row as it was BEFORE its UPDATE, and the column is
\* max_attempts: the Job object has no maxAttempts.
JobOf(row) == [attempts |-> row.attempts, maxAttempts |-> Undefined]

\* The picked rows are dequeued and their workers started.
StartWorkers(q, act, picked) ==
  /\ job_queue' = [j \in Jobs |-> IF j \in picked THEN Started(q[j]) ELSE q[j]]
  /\ active'    = act \cup picked
  /\ held'      = [j \in Jobs |-> IF j \in picked THEN JobOf(q[j])
                                 ELSE IF j \in act THEN held[j] ELSE NoJob]

\* tick(): does nothing unless running, else fills the free slots from q.
Tick(q, act) == StartWorkers(q, act, IF proc = "running" THEN Picked(q, act) ELSE {})

\* No settled processJob waits for its finally callback: timers and requests
\* run only then.
Drained == \A j \in active : job_queue[j].status = "processing"

-----------------------------------------------------------------------------
(* Callers. *)

\* The row the next INSERT fills: rows are numbered in order of queued_at.
NextRow(j) ==
  /\ job_queue[j].status = "absent"
  /\ \A i \in Jobs : i < j => job_queue[i].status # "absent"

NewRow(t, p, k, m) ==
  [status |-> "queued", type |-> t, priority |-> p, key |-> k,
   attempts |-> 0, max_attempts |-> m, due |-> TRUE]

\* Fault: idempotency_key without UNIQUE, only the check for live jobs is left.
KeyFreeOfLive(q, k) == k = NoKey \/ \A j \in Jobs : Live(q[j]) => q[j].key # k

\* idempotency_key TEXT UNIQUE: no row of any status holds the key.
KeyFree(q, k) == k = NoKey \/ \A j \in Jobs : Present(q[j]) => q[j].key # k

\* The idempotency check finds a queued or processing job with the key.
EnqueueExisting(k) ==
  /\ k # NoKey
  /\ \E j \in Jobs : Live(job_queue[j]) /\ job_queue[j].key = k
  /\ UNCHANGED <<job_queue, active, held>>

NoLiveTwin(k) == k = NoKey \/ ~\E j \in Jobs : Live(job_queue[j]) /\ job_queue[j].key = k

EnqueueCreates(t, p, k, m) ==
  /\ NoLiveTwin(k)
  /\ KeyFree(job_queue, k)
  /\ \E j \in Jobs :
       /\ NextRow(j)
       /\ Tick([job_queue EXCEPT ![j] = NewRow(t, p, k, m)], active)

\* The INSERT violates the UNIQUE constraint and enqueue throws: a finished job
\* keeps its key until purge() deletes it.
EnqueueThrows(k) ==
  /\ NoLiveTwin(k)
  /\ ~KeyFree(job_queue, k)
  /\ UNCHANGED <<job_queue, active, held>>

Enqueue ==
  /\ proc # "down"
  /\ Drained
  /\ \E t \in Types, p \in Priorities, k \in Keys \cup {NoKey}, m \in MaxAttemptsArgs :
       EnqueueExisting(k) \/ EnqueueCreates(t, p, k, m) \/ EnqueueThrows(k)
  /\ UNCHANGED <<proc, failures, restarts>>

\* retryDead(jobId): UPDATE ... WHERE id = ? AND status = 'dead', then tick().
RetryDead(j) ==
  /\ proc # "down"
  /\ Drained
  /\ job_queue[j].status = "dead"
  /\ Tick([job_queue EXCEPT ![j].status = "queued", ![j].attempts = 0, ![j].due = TRUE],
          active)
  /\ UNCHANGED <<proc, failures, restarts>>

\* purge(): deletes the completed and dead rows older than the cutoff; which
\* rows are old enough is left open.
Purge ==
  /\ proc # "down"
  /\ Drained
  /\ \E old \in SUBSET {j \in Jobs : Terminal(job_queue[j])} :
       /\ old # {}
       /\ job_queue' = [j \in Jobs |-> IF j \in old THEN PurgedRow ELSE job_queue[j]]
  /\ UNCHANGED <<proc, active, held, failures, restarts>>

-----------------------------------------------------------------------------
(* Workers. *)

\* The 500 ms interval of start().
TickInterval ==
  /\ proc = "running"
  /\ Drained
  /\ Picked(job_queue, active) # {}       \* otherwise the tick changes nothing
  /\ Tick(job_queue, active)
  /\ UNCHANGED <<proc, failures, restarts>>

Working(j) == j \in active /\ job_queue[j].status = "processing"

\* The handler's promise resolves: markCompleted.
HandlerResolves(j) ==
  /\ Working(j)
  /\ job_queue' = [job_queue EXCEPT ![j].status = "completed"]
  /\ UNCHANGED <<proc, active, held, failures, restarts>>

\* job.attempts >= job.maxAttempts; a comparison with undefined is false.
Exhausted(job) == job.maxAttempts # Undefined /\ job.attempts >= job.maxAttempts

\* The handler rejects: markFailed buries the job or puts it back with a delay.
HandlerRejects(j) ==
  /\ Working(j)
  /\ failures < MaxFailures
  /\ failures' = failures + 1
  /\ job_queue' = IF Exhausted(held[j])
                  THEN [job_queue EXCEPT ![j].status = "dead"]
                  ELSE [job_queue EXCEPT ![j].status = "queued", ![j].due = FALSE]
  /\ UNCHANGED <<proc, active, held, restarts>>

\* processJob's .finally: frees the slot and ticks.
Finally(j) ==
  /\ j \in active
  /\ job_queue[j].status # "processing"
  /\ Tick(job_queue, active \ {j})
  /\ UNCHANGED <<proc, failures, restarts>>

\* The retry delay of a job passes.
DelayPasses(j) ==
  /\ Drained
  /\ job_queue[j].status = "queued"
  /\ ~job_queue[j].due
  /\ job_queue' = [job_queue EXCEPT ![j].due = TRUE]
  /\ UNCHANGED <<proc, active, held, failures, restarts>>

-----------------------------------------------------------------------------
(* The process. *)

\* Fault: no recovery in the constructor.
BootWithoutRecovery ==
  /\ proc = "down"
  /\ proc' = "running"
  /\ UNCHANGED <<job_queue, active, held, failures, restarts>>

\* Fault: the recovery's UPDATE lost its WHERE clause.
BootRequeuesAll ==
  /\ proc = "down"
  /\ proc' = "running"
  /\ job_queue' = [j \in Jobs |-> IF Present(job_queue[j])
                                  THEN [job_queue[j] EXCEPT !.status = "queued"]
                                  ELSE job_queue[j]]
  /\ UNCHANGED <<active, held, failures, restarts>>

\* The constructor's recovery, then start().
Boot ==
  /\ proc = "down"
  /\ proc' = "running"
  /\ job_queue' = [j \in Jobs |-> IF job_queue[j].status = "processing"
                                  THEN [job_queue[j] EXCEPT !.status = "queued"]
                                  ELSE job_queue[j]]
  /\ UNCHANGED <<active, held, failures, restarts>>

\* stop(): running = false; it then waits for the slots to empty.
Stop ==
  /\ proc = "running"
  /\ Drained
  /\ restarts < MaxRestarts
  /\ restarts' = restarts + 1
  /\ proc' = "stopping"
  /\ UNCHANGED <<job_queue, active, held, failures>>

Lose ==
  /\ proc' = "down"
  /\ active' = {}
  /\ held' = [j \in Jobs |-> NoJob]
  /\ UNCHANGED <<job_queue, failures>>

\* stop() returns when no job is active, or when its 15 seconds are over with
\* handlers still at work: the process ends.
Exit ==
  /\ proc = "stopping"
  /\ Lose
  /\ UNCHANGED restarts

\* The process dies.
Crash ==
  /\ proc # "down"
  /\ restarts < MaxRestarts
  /\ restarts' = restarts + 1
  /\ Lose

-----------------------------------------------------------------------------
Init ==
  /\ job_queue = [j \in Jobs |-> AbsentRow]
  /\ proc = "down"
  /\ active = {}
  /\ held = [j \in Jobs |-> NoJob]
  /\ failures = 0
  /\ restarts = 0

Next ==
  \/ Enqueue
  \/ \E j \in Jobs : RetryDead(j)
  \/ Purge
  \/ TickInterval
  \/ \E j \in Jobs : HandlerResolves(j)
  \/ \E j \in Jobs : HandlerRejects(j)
  \/ \E j \in Jobs : Finally(j)
  \/ \E j \in Jobs : DelayPasses(j)
  \/ Boot
  \/ Stop
  \/ Exit
  \/ Crash

Spec == Init /\ [][Next]_vars

-----------------------------------------------------------------------------
(* Safety. *)

\* While the process is up, a row in status 'processing' has a worker: no crash,
\* stop or restart leaves a job that nobody runs and nobody will dequeue
\* (constructor recovery, tick, processJob's finally).
ProcessingHasWorker ==
  proc # "down" => \A j \in Jobs : job_queue[j].status = "processing" => j \in active

\* However ticks from requests, timers and finished workers interleave, never
\* more jobs run than there are slots (tick's activeCount).
SlotsBounded == Cardinality(active) <= Concurrency

\* No two queued or processing jobs share an idempotency key, not even when an
\* operator retries a dead job whose key was used again (enqueue, retryDead).
OneLiveJobPerKey ==
  \A i, j \in Jobs :
    (Live(job_queue[i]) /\ Live(job_queue[j]) /\ job_queue[i].key = job_queue[j].key
       /\ job_queue[i].key # NoKey) => i = j

\* When a worker starts a job, every job still ready to run comes after it in
\* priority, then in order of arrival, whichever of enqueue, retryDead, the
\* interval or a finished worker triggered the tick (dequeueNext).
NoPriorityInversion ==
  [][\A j \in active' \ active : \A i \in Ready(job_queue') : Before(job_queue', j, i)]_vars

\* Once stop() was called no job starts: not by a request that still enqueues,
\* not by a worker that finishes during the drain (tick, stop).
NoStartAfterStop == [][proc # "running" => active' \subseteq active]_vars

\* The queue keeps what it promises about a job (module JobLife).
Life == [j \in Jobs |-> IF Live(job_queue[j]) THEN "pending" ELSE job_queue[j].status]
Promise == INSTANCE JobLife WITH life <- Life
ImplementsJobLife == Promise!LifeSpec

-----------------------------------------------------------------------------
(* Liveness. *)

\* An accepted job is not lost: through retries, stops and crashes, as long as its
\* handler does not reject for ever, it ends completed or dead (recovery,
\* markFailed's re-queue, the interval of start()).
EveryJobSettles ==
  \A j \in Jobs : Live(job_queue[j]) ~> Terminal(job_queue[j])
=============================================================================
