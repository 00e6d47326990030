------------------------------ MODULE Shutdown ------------------------------
(***************************************************************************)
(* The life of the process around the job queue: startServer and the cron  *)
(* jobs of src/src/app.ts, and the teardown of src/src/lib/shutdown.ts.    *)
(*                                                                         *)
(* A signal closes the HTTP server; when its last request is answered the  *)
(* cron jobs and the queue are stopped without an await in between; when   *)
(* the queue has drained the WAL is checkpointed and the database closed.  *)
(* A timer of 15 seconds ends the process if that takes too long: it is    *)
(* set before the queue's own limit of 15 seconds starts, so that limit is *)
(* never what ends the drain.                                              *)
(***************************************************************************)
EXTENDS JobQueue

VARIABLES
  stage,      \* "up", "http" and "queue" (being closed, drained), "closed" (the database is)
  requests,   \* requests are in flight
  cron,       \* the cron jobs are scheduled
  backup      \* the nightly backup is under way

stageVars == <<stage, requests, cron, backup>>
allVars == <<vars, stageVars>>

StageTypeOK ==
  /\ TypeOK
  /\ stage \in {"up", "http", "queue", "closed"}
  /\ {requests, cron, backup} \subseteq BOOLEAN

Serving == proc # "down" /\ stage # "closed"

-----------------------------------------------------------------------------
(* Requests and cron jobs. *)

RequestArrives ==
  /\ proc = "running" /\ stage = "up" /\ ~requests
  /\ requests' = TRUE
  /\ UNCHANGED <<vars, stage, cron, backup>>

RequestsEnd ==
  /\ requests
  /\ requests' = FALSE
  /\ UNCHANGED <<vars, stage, cron, backup>>

\* POST /admin/queue/enqueue and the bulk statements, or the daily FX refresh.
EnqueueJob ==
  /\ requests \/ cron
  /\ Enqueue
  /\ UNCHANGED stageVars

\* POST /admin/queue/retry/:jobId.
RetryByRequest(j) == requests /\ RetryDead(j) /\ UNCHANGED stageVars

\* The daily purge.
PurgeByCron == cron /\ Purge /\ UNCHANGED stageVars

\* The backup is awaited by its cron job and by nothing else.
BackupStarts ==
  /\ Serving /\ cron /\ ~backup
  /\ backup' = TRUE
  /\ UNCHANGED <<vars, stage, requests, cron>>

BackupEnds ==
  /\ backup
  /\ backup' = FALSE
  /\ UNCHANGED <<vars, stage, requests, cron>>

Work ==
  /\ \/ TickInterval
     \/ \E j \in Jobs : HandlerResolves(j) \/ HandlerRejects(j) \/ Finally(j) \/ DelayPasses(j)
  /\ UNCHANGED stageVars

-----------------------------------------------------------------------------
(* The teardown. *)

\* SIGTERM, SIGINT, an uncaught exception or an unhandled rejection; a second one
\* finds shuttingDown set and does nothing.
Signal ==
  /\ proc = "running" /\ stage = "up"
  /\ restarts < MaxRestarts
  /\ stage' = "http"
  /\ UNCHANGED <<vars, requests, cron, backup>>

\* The stages during which the cron jobs are still scheduled.
CronLasts(s) == s \in {"up", "http"}

\* server.close() calls back, then stopCron() and the first half of stop().
HttpClosed ==
  /\ stage = "http" /\ ~requests
  /\ Stop
  /\ stage' = "queue"
  /\ cron' = CronLasts("queue")
  /\ UNCHANGED <<requests, backup>>

\* Fault: the queue's promise is not awaited.
QueueDrainedAtOnce == TRUE

QueueDrained == active = {}

\* The loop of stop() ends, the WAL is truncated, the database closed and the
\* timer cleared.
DatabaseClosed ==
  /\ stage = "queue" /\ QueueDrained
  /\ stage' = "closed"
  /\ cron' = CronLasts("closed")
  /\ UNCHANGED <<vars, requests, backup>>

Gone == stage' = "up" /\ requests' = FALSE /\ cron' = FALSE /\ backup' = FALSE

\* Nothing is left on the event loop.
Ends == stage = "closed" /\ ~backup /\ Exit /\ Gone

\* Fault: the timer is armed when the server is closed.
TimerArmedLate == stage = "queue"

TimerArmed == stage \in {"http", "queue"}

\* process.exit(1) after 15 seconds.
ForcedExit == TimerArmed /\ (Exit \/ (proc = "running" /\ Crash)) /\ Gone

Dies == Crash /\ Gone

\* createApp and startServer: recovery, start(), registerCronJobs, listen.
Start ==
  /\ Boot
  /\ cron' = TRUE
  /\ UNCHANGED <<stage, requests, backup>>

-----------------------------------------------------------------------------
StageInit == Init /\ stage = "up" /\ requests = FALSE /\ cron = FALSE /\ backup = FALSE

\* Requests, cron jobs, the start and the teardown.
Around ==
  \/ RequestArrives \/ RequestsEnd
  \/ EnqueueJob
  \/ \E j \in Jobs : RetryByRequest(j)
  \/ PurgeByCron
  \/ BackupStarts \/ BackupEnds
  \/ Signal \/ HttpClosed \/ DatabaseClosed
  \/ Start

\* The steps after which there is no process.
Death == Ends \/ ForcedExit \/ Dies

StageNext == Around \/ Work \/ Death

ShutdownSpec == StageInit /\ [][StageNext]_allVars

-----------------------------------------------------------------------------
\* The database is closed last: no worker, request or cron job of this process is
\* left that could write, in whatever stage requests and jobs were when the signal
\* came (the order of lib/shutdown.ts).
ClosedLast == stage = "closed" => active = {} /\ ~requests /\ ~cron

\* A stopped queue gets no new job, which would wait for the next start: neither
\* a request nor a cron tick comes between the stages.
NoEnqueueAfterStop ==
  [][proc = "stopping" /\ proc' # "down" =>
       \A j \in Jobs : job_queue[j].status = "absent" => job_queue'[j].status = "absent"]_allVars

\* Once the teardown has begun the process ends: a request that is never
\* answered does not keep it alive (the forced exit).
ShutdownEnds == (stage # "up") ~> (proc = "down")
=============================================================================
