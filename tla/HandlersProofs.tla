--------------------------- MODULE HandlersProofs ---------------------------
(***************************************************************************)
(* What TLAPS proves of JobQueue, Shutdown and Handlers for every number   *)
(* of jobs, slots, rejections and ends of the process: the queue by itself *)
(* is safe and implements JobLife, the queue inside the process is that    *)
(* queue, the database is closed last, and no effect of a handler is       *)
(* repeated while the process lives.                                       *)
(***************************************************************************)
EXTENDS Handlers, FiniteSetTheorems, WellFoundedInduction, TLAPS

-----------------------------------------------------------------------------
(* The queue by itself. *)

\* Starting a job keeps its row well-typed.
LEMMA StartedType ==
  ASSUME NEW row \in Row
  PROVE  Started(row) \in Row /\ JobOf(row) \in JobObject
<1>1. row.attempts \in Nat /\ row.attempts + 1 \in Nat
  BY DEF Row
<1>2. Started(row) \in Row
  <2>1. CASE row.type \in Handled
    BY <1>1, <2>1 DEF Started, Row, Statuses
  <2>2. CASE row.type \notin Handled
    BY <1>1, <2>2 DEF Started, Row, Statuses
  <2>3. QED BY <2>1, <2>2
<1>3. JobOf(row) \in JobObject
  BY <1>1 DEF JobOf, JobObject
<1>4. QED BY <1>2, <1>3

\* A tick keeps the table, the slots and the Job objects well-typed.
LEMMA StartWorkersType ==
  ASSUME NEW q \in [Jobs -> Row], NEW act \in SUBSET Jobs, NEW picked \in SUBSET Jobs,
         held \in [Jobs -> JobObject], StartWorkers(q, act, picked)
  PROVE  /\ job_queue' \in [Jobs -> Row]
         /\ active' \in SUBSET Jobs
         /\ held' \in [Jobs -> JobObject]
<1>1. \A j \in Jobs : Started(q[j]) \in Row /\ JobOf(q[j]) \in JobObject
  BY StartedType
<1>2. NoJob \in JobObject
  BY DEF NoJob, JobObject
<1>3. QED
  BY <1>1, <1>2 DEF StartWorkers

LEMMA TickType ==
  ASSUME NEW q \in [Jobs -> Row], NEW act \in SUBSET Jobs,
         held \in [Jobs -> JobObject], Tick(q, act)
  PROVE  /\ job_queue' \in [Jobs -> Row]
         /\ active' \in SUBSET Jobs
         /\ held' \in [Jobs -> JobObject]
<1>1. (IF proc = "running" THEN Picked(q, act) ELSE {}) \in SUBSET Jobs
  BY DEF Picked, Ready
<1>2. QED
  BY <1>1, StartWorkersType DEF Tick

LEMMA AbsentRowType == AbsentRow \in Row /\ PurgedRow \in Row
<1>1. (CHOOSE t \in Types : TRUE) \in Types /\ (CHOOSE p \in Priorities : TRUE) \in Priorities
  BY QueueAssumption
<1>2. QED
  BY <1>1 DEF AbsentRow, PurgedRow, Row, Statuses

LEMMA RetriedType ==
  ASSUME NEW q \in [Jobs -> Row], NEW j \in Jobs
  PROVE  [q EXCEPT ![j].status = "queued", ![j].attempts = 0, ![j].due = TRUE] \in [Jobs -> Row]
  BY ZenonT(60) DEF Row, Statuses

\* The types of the variables are invariant.
THEOREM TypeCorrect == Spec => []TypeOK
<1>1. Init => TypeOK
  BY AbsentRowType, QueueAssumption DEF Init, TypeOK, NoJob, JobObject
<1>2. TypeOK /\ [Next]_vars => TypeOK'
  <2> SUFFICES ASSUME TypeOK, [Next]_vars PROVE TypeOK'
    OBVIOUS
  <2>1. CASE Enqueue
    <3>1. PICK t \in Types, p \in Priorities, k \in Keys \cup {NoKey}, m \in MaxAttemptsArgs :
            EnqueueExisting(k) \/ EnqueueCreates(t, p, k, m) \/ EnqueueThrows(k)
      BY <2>1 DEF Enqueue
    <3>2. CASE EnqueueExisting(k) \/ EnqueueThrows(k)
      BY <2>1, <3>2 DEF Enqueue, EnqueueExisting, EnqueueThrows, TypeOK
    <3>3. CASE EnqueueCreates(t, p, k, m)
      <4>1. PICK j \in Jobs : Tick([job_queue EXCEPT ![j] = NewRow(t, p, k, m)], active)
        BY <3>3 DEF EnqueueCreates
      <4>2. [job_queue EXCEPT ![j] = NewRow(t, p, k, m)] \in [Jobs -> Row]
        BY QueueAssumption DEF TypeOK, NewRow, Row, Statuses
      <4>3. QED
        BY <2>1, <3>3, <4>1, <4>2, TickType DEF Enqueue, EnqueueCreates, TypeOK
    <3>4. QED BY <3>1, <3>2, <3>3
  <2>2. ASSUME NEW j \in Jobs, RetryDead(j) PROVE TypeOK'
    <3>1. [job_queue EXCEPT ![j].status = "queued", ![j].attempts = 0, ![j].due = TRUE]
            \in [Jobs -> Row]
      BY RetriedType DEF TypeOK
    <3>2. QED
      BY <2>2, <3>1, TickType DEF RetryDead, TypeOK
  <2>3. CASE Purge
    BY <2>3, AbsentRowType DEF Purge, TypeOK
  <2>4. CASE TickInterval
    BY <2>4, TickType DEF TickInterval, TypeOK
  <2>5. ASSUME NEW j \in Jobs, HandlerResolves(j) PROVE TypeOK'
    BY <2>5 DEF HandlerResolves, TypeOK, Row, Statuses
  <2>6. ASSUME NEW j \in Jobs, HandlerRejects(j) PROVE TypeOK'
    <3>1. job_queue' \in [Jobs -> Row]
      <4>1. CASE Exhausted(held[j])
        BY <2>6, <4>1 DEF HandlerRejects, TypeOK, Row, Statuses
      <4>2. CASE ~Exhausted(held[j])
        BY <2>6, <4>2, ZenonT(60) DEF HandlerRejects, TypeOK, Row, Statuses
      <4>3. QED BY <4>1, <4>2
    <3>2. failures' \in 0 .. MaxFailures
      BY <2>6, QueueAssumption DEF HandlerRejects, TypeOK
    <3>3. QED
      BY <2>6, <3>1, <3>2 DEF HandlerRejects, TypeOK
  <2>7. ASSUME NEW j \in Jobs, Finally(j) PROVE TypeOK'
    <3>1. active \ {j} \in SUBSET Jobs
      BY DEF TypeOK
    <3>2. QED
      BY <2>7, <3>1, TickType DEF Finally, TypeOK
  <2>8. ASSUME NEW j \in Jobs, DelayPasses(j) PROVE TypeOK'
    <3>1. job_queue' \in [Jobs -> Row]
      BY <2>8 DEF DelayPasses, TypeOK, Row
    <3>2. QED
      BY <2>8, <3>1 DEF DelayPasses, TypeOK
  <2>9. CASE Boot
    BY <2>9 DEF Boot, TypeOK, Row, Statuses
  <2>10. CASE Stop
    BY <2>10, QueueAssumption DEF Stop, TypeOK
  <2>11. CASE Exit
    BY <2>11 DEF Exit, Lose, TypeOK, NoJob, JobObject
  <2>12. CASE Crash
    BY <2>12, QueueAssumption DEF Crash, Lose, TypeOK, NoJob, JobObject
  <2>13. CASE UNCHANGED vars
    BY <2>13 DEF vars, TypeOK
  <2>14. QED
    BY <2>1, <2>2, <2>3, <2>4, <2>5, <2>6, <2>7, <2>8, <2>9, <2>10, <2>11, <2>12, <2>13 DEF Next
<1>3. QED
  BY <1>1, <1>2, PTL DEF Spec

-----------------------------------------------------------------------------
\* A tick over q adds workers exactly for the rows it turns to processing.
LEMMA TickWorkers ==
  ASSUME NEW q \in [Jobs -> Row], NEW act \in SUBSET Jobs, Tick(q, act)
  PROVE  \A j \in Jobs :
           job_queue'[j].status = "processing" =>
             j \in active' \/ (q[j].status = "processing" /\ j \notin act)
  BY DEF Tick, StartWorkers

\* While the process is up every row in status 'processing' has a worker.
THEOREM NoStuckJob == Spec => []ProcessingHasWorker
<1>1. Init => ProcessingHasWorker
  BY DEF Init, ProcessingHasWorker
<1>2. TypeOK /\ ProcessingHasWorker /\ [Next]_vars => ProcessingHasWorker'
  <2> SUFFICES ASSUME TypeOK, ProcessingHasWorker, [Next]_vars,
                      proc' # "down", NEW i \in Jobs, job_queue'[i].status = "processing"
               PROVE  i \in active'
    BY DEF ProcessingHasWorker
  <2>1. CASE Enqueue
    <3>1. PICK t \in Types, p \in Priorities, k \in Keys \cup {NoKey}, m \in MaxAttemptsArgs :
            EnqueueExisting(k) \/ EnqueueCreates(t, p, k, m) \/ EnqueueThrows(k)
      BY <2>1 DEF Enqueue
    <3>2. CASE EnqueueExisting(k) \/ EnqueueThrows(k)
      BY <2>1, <3>2 DEF Enqueue, EnqueueExisting, EnqueueThrows, ProcessingHasWorker
    <3>3. CASE EnqueueCreates(t, p, k, m)
      <4> PICK j \in Jobs : Tick([job_queue EXCEPT ![j] = NewRow(t, p, k, m)], active)
        BY <3>3 DEF EnqueueCreates
      <4> DEFINE q == [job_queue EXCEPT ![j] = NewRow(t, p, k, m)]
      <4>1. q \in [Jobs -> Row]
        BY QueueAssumption DEF TypeOK, NewRow, Row, Statuses
      <4>2. q[i].status = "processing" => job_queue[i].status = "processing"
        BY DEF TypeOK, NewRow
      <4>3. i \in active' \/ (q[i].status = "processing" /\ i \notin active)
        BY <4>1, TickWorkers DEF TypeOK
      <4>4. QED
        BY <2>1, <4>2, <4>3 DEF Enqueue, ProcessingHasWorker
    <3>4. QED BY <3>1, <3>2, <3>3
  <2>2. ASSUME NEW j \in Jobs, RetryDead(j) PROVE i \in active'
    <3> DEFINE q == [job_queue EXCEPT ![j].status = "queued", ![j].attempts = 0, ![j].due = TRUE]
    <3>1. q \in [Jobs -> Row]
      BY RetriedType DEF TypeOK
    <3>2. q[i].status = "processing" => job_queue[i].status = "processing"
      BY DEF TypeOK, Row
    <3>3. i \in active' \/ (q[i].status = "processing" /\ i \notin active)
      BY <2>2, <3>1, TickWorkers DEF RetryDead, TypeOK
    <3>4. QED
      BY <2>2, <3>2, <3>3 DEF RetryDead, ProcessingHasWorker
  <2>3. CASE Purge
    <3>1. job_queue[i].status = "processing"
      BY <2>3 DEF Purge, TypeOK, PurgedRow, AbsentRow
    <3>2. QED BY <2>3, <3>1 DEF Purge, ProcessingHasWorker
  <2>4. CASE TickInterval
    BY <2>4, TickWorkers DEF TickInterval, TypeOK, ProcessingHasWorker
  <2>5. ASSUME NEW j \in Jobs, HandlerResolves(j) PROVE i \in active'
    BY <2>5 DEF HandlerResolves, TypeOK, Row, ProcessingHasWorker
  <2>6. ASSUME NEW j \in Jobs, HandlerRejects(j) PROVE i \in active'
    <3>1. job_queue[i].status = "processing"
      BY <2>6 DEF HandlerRejects, TypeOK, Row
    <3>2. QED BY <2>6, <3>1 DEF HandlerRejects, ProcessingHasWorker
  <2>7. ASSUME NEW j \in Jobs, Finally(j) PROVE i \in active'
    <3>1. i \in active' \/ (job_queue[i].status = "processing" /\ i \notin active \ {j})
      BY <2>7, TickWorkers DEF Finally, TypeOK
    <3>2. QED
      BY <2>7, <3>1 DEF Finally, ProcessingHasWorker
  <2>8. ASSUME NEW j \in Jobs, DelayPasses(j) PROVE i \in active'
    <3>1. job_queue[i].status = "processing"
      BY <2>8 DEF DelayPasses, TypeOK, Row
    <3>2. QED BY <2>8, <3>1 DEF DelayPasses, ProcessingHasWorker
  <2>9. CASE Boot
    <3>1. FALSE
      BY <2>9 DEF Boot, TypeOK, Row
    <3>2. QED BY <3>1
  <2>10. CASE Stop
    BY <2>10 DEF Stop, ProcessingHasWorker
  <2>11. CASE Exit \/ Crash
    BY <2>11 DEF Exit, Crash, Lose
  <2>12. CASE UNCHANGED vars
    BY <2>12 DEF vars, ProcessingHasWorker
  <2>13. QED
    BY <2>1, <2>2, <2>3, <2>4, <2>5, <2>6, <2>7, <2>8, <2>9, <2>10, <2>11, <2>12 DEF Next
<1>3. QED
  BY <1>1, <1>2, TypeCorrect, PTL DEF Spec

-----------------------------------------------------------------------------
\* The UNIQUE constraint on idempotency_key: no two rows, of whatever status, share a key.
KeysUnique ==
  \A i, j \in Jobs :
    (Present(job_queue[i]) /\ Present(job_queue[j]) /\ job_queue[i].key = job_queue[j].key
       /\ job_queue[i].key # NoKey) => i = j

\* A tick changes no key and neither adds nor deletes a row.
LEMMA TickKeys ==
  ASSUME NEW q \in [Jobs -> Row], NEW act \in SUBSET Jobs, Tick(q, act), NEW j \in Jobs
  PROVE  /\ job_queue'[j].key = q[j].key
         /\ Present(job_queue'[j]) => Present(q[j])
<1>1. CASE job_queue'[j] = q[j]
  BY <1>1
<1>2. CASE job_queue'[j] = Started(q[j]) /\ j \in Ready(q)
  BY <1>2 DEF Started, Row, Ready, Present
<1>3. QED
  BY <1>1, <1>2 DEF Tick, StartWorkers, Picked

\* Stated over q, so that it can be carried through a tick.
LEMMA KeysThroughTick ==
  ASSUME NEW q \in [Jobs -> Row], NEW act \in SUBSET Jobs, Tick(q, act),
         \A i, j \in Jobs : (Present(q[i]) /\ Present(q[j]) /\ q[i].key = q[j].key
                              /\ q[i].key # NoKey) => i = j
  PROVE  KeysUnique'
  BY TickKeys DEF KeysUnique

\* No two queued or processing jobs share an idempotency key, through enqueues,
\* retries of dead jobs, purges, crashes and restarts.
THEOREM OneLiveJob == Spec => []OneLiveJobPerKey
<1>1. Init => KeysUnique
  BY DEF Init, KeysUnique, AbsentRow, Present
<1>2. TypeOK /\ KeysUnique /\ [Next]_vars => KeysUnique'
  <2> SUFFICES ASSUME TypeOK, KeysUnique, [Next]_vars PROVE KeysUnique'
    OBVIOUS
  <2>1. CASE Enqueue
    <3>1. PICK t \in Types, p \in Priorities, k \in Keys \cup {NoKey}, m \in MaxAttemptsArgs :
            EnqueueExisting(k) \/ EnqueueCreates(t, p, k, m) \/ EnqueueThrows(k)
      BY <2>1 DEF Enqueue
    <3>2. CASE EnqueueExisting(k) \/ EnqueueThrows(k)
      BY <3>2 DEF EnqueueExisting, EnqueueThrows, KeysUnique
    <3>3. CASE EnqueueCreates(t, p, k, m)
      <4> PICK n \in Jobs : Tick([job_queue EXCEPT ![n] = NewRow(t, p, k, m)], active)
        BY <3>3 DEF EnqueueCreates
      <4> DEFINE q == [job_queue EXCEPT ![n] = NewRow(t, p, k, m)]
      <4>1. q \in [Jobs -> Row]
        BY QueueAssumption DEF TypeOK, NewRow, Row, Statuses
      <4>2. KeyFree(job_queue, k)
        BY <3>3 DEF EnqueueCreates
      <4>3. \A i \in Jobs : q[i] = IF i = n THEN NewRow(t, p, k, m) ELSE job_queue[i]
        BY DEF TypeOK
      <4>4. \A i, j \in Jobs : (Present(q[i]) /\ Present(q[j]) /\ q[i].key = q[j].key
                                 /\ q[i].key # NoKey) => i = j
        BY <4>2, <4>3 DEF KeysUnique, KeyFree, NewRow
      <4> HIDE DEF q
      <4>5. QED
        BY <4>1, <4>4, KeysThroughTick DEF TypeOK, q
    <3>4. QED BY <3>1, <3>2, <3>3
  <2>2. ASSUME NEW n \in Jobs, RetryDead(n) PROVE KeysUnique'
    <3> DEFINE q == [job_queue EXCEPT ![n].status = "queued", ![n].attempts = 0, ![n].due = TRUE]
    <3>1. q \in [Jobs -> Row]
      BY RetriedType DEF TypeOK
    <3>2. \A i \in Jobs : q[i].key = job_queue[i].key /\ (Present(q[i]) => Present(job_queue[i]))
      BY <2>2 DEF TypeOK, Row, RetryDead, Present
    <3>3. Tick(q, active)
      BY <2>2 DEF RetryDead
    <3> HIDE DEF q
    <3>4. QED
      BY <3>1, <3>2, <3>3, KeysThroughTick DEF TypeOK, KeysUnique
  <2>3. CASE Purge
    <3>1. \A i \in Jobs : job_queue'[i] = job_queue[i] \/ ~Present(job_queue'[i])
      BY <2>3 DEF Purge, PurgedRow, AbsentRow, Present
    <3>2. QED BY <3>1 DEF KeysUnique
  <2>4. CASE TickInterval
    BY <2>4, KeysThroughTick DEF TickInterval, TypeOK, KeysUnique
  <2>5. ASSUME NEW n \in Jobs, HandlerResolves(n) \/ HandlerRejects(n) \/ DelayPasses(n)
        PROVE  KeysUnique'
    <3>1. \A i \in Jobs : /\ job_queue'[i].key = job_queue[i].key
                          /\ Present(job_queue'[i]) => Present(job_queue[i])
      BY <2>5 DEF HandlerResolves, HandlerRejects, DelayPasses, Working, TypeOK, Row, Present
    <3>2. QED BY <3>1 DEF KeysUnique
  <2>6. ASSUME NEW n \in Jobs, Finally(n) PROVE KeysUnique'
    <3>1. active \ {n} \in SUBSET Jobs
      BY DEF TypeOK
    <3>2. QED
      BY <2>6, <3>1, KeysThroughTick DEF Finally, TypeOK, KeysUnique
  <2>7. CASE Boot
    <3>1. \A i \in Jobs : /\ job_queue'[i].key = job_queue[i].key
                          /\ Present(job_queue'[i]) => Present(job_queue[i])
      BY <2>7 DEF Boot, TypeOK, Row, Present
    <3>2. QED BY <3>1 DEF KeysUnique
  <2>8. CASE Stop \/ Exit \/ Crash \/ UNCHANGED vars
    BY <2>8 DEF Stop, Exit, Crash, Lose, vars, KeysUnique
  <2>9. QED
    BY <2>1, <2>2, <2>3, <2>4, <2>5, <2>6, <2>7, <2>8 DEF Next
<1>3. KeysUnique => OneLiveJobPerKey
  BY DEF KeysUnique, OneLiveJobPerKey, Live, Present
<1>4. QED
  BY <1>1, <1>2, <1>3, TypeCorrect, PTL DEF Spec

-----------------------------------------------------------------------------
(* Steps. *)

LEMMA TickStops ==
  ASSUME NEW q, NEW act, proc # "running", Tick(q, act)
  PROVE  active' = act
  BY DEF Tick, StartWorkers

LEMMA NothingStarts ==
  ASSUME [Next]_vars, proc # "running"
  PROVE  active' \subseteq active
<1>1. CASE Enqueue
  <2>1. UNCHANGED active \/ \E q : Tick(q, active)
    BY <1>1 DEF Enqueue, EnqueueExisting, EnqueueCreates, EnqueueThrows
  <2> QED BY <2>1, TickStops
<1>2. ASSUME NEW j \in Jobs, RetryDead(j) PROVE active' \subseteq active
  BY <1>2, TickStops DEF RetryDead
<1>3. ASSUME NEW j \in Jobs, Finally(j) PROVE active' \subseteq active
  BY <1>3, TickStops DEF Finally
<1>4. CASE TickInterval
  BY <1>4 DEF TickInterval
<1>5. CASE \/ Purge \/ Boot \/ Stop \/ Exit \/ Crash \/ UNCHANGED vars
           \/ \E j \in Jobs : HandlerResolves(j) \/ HandlerRejects(j) \/ DelayPasses(j)
  BY <1>5 DEF Purge, Boot, Stop, Exit, Crash, Lose, HandlerResolves, HandlerRejects,
              DelayPasses, vars
<1> QED BY <1>1, <1>2, <1>3, <1>4, <1>5 DEF Next

\* Once stop() was called no job starts.
THEOREM NoStart == Spec => NoStartAfterStop
<1>1. [Next]_vars => (proc # "running" => active' \subseteq active)
  BY NothingStarts
<1> QED BY <1>1, PTL DEF Spec, NoStartAfterStop

\* What a status is in the life of a job.
LifeOf(status) == IF status \in {"queued", "processing"} THEN "pending" ELSE status

LEMMA LifeIs == \A j \in Jobs : Life[j] = LifeOf(job_queue[j].status)
  BY DEF Life, LifeOf, Live

\* A step of statuses that every job's life allows.
Lives(from, to) ==
  \A j \in Jobs : \/ LifeOf(to[j].status) = LifeOf(from[j].status)
                  \/ Promise!Move(LifeOf(from[j].status), LifeOf(to[j].status))

LEMMA LivesIsLifeNext ==
  ASSUME TypeOK', Lives(job_queue, job_queue')
  PROVE  Promise!LifeNext
<1>1. Life' \in [Jobs -> Promise!LifeStates]
  BY DEF TypeOK, Row, Statuses, Life, Live, Promise!LifeStates
<1>2. \A j \in Jobs : Life'[j] = LifeOf(job_queue'[j].status)
  BY DEF Life, LifeOf, Live
<1> QED BY <1>1, <1>2, LifeIs DEF Lives, Promise!LifeNext

\* A tick starts queued jobs, or buries them; it does nothing else to a row.
LEMMA TickLives ==
  ASSUME NEW q \in [Jobs -> Row], NEW act, Tick(q, act)
  PROVE  \A j \in Jobs : \/ job_queue'[j].status = q[j].status
                         \/ /\ q[j].status = "queued"
                            /\ job_queue'[j].status \in {"processing", "dead"}
<1> SUFFICES ASSUME NEW j \in Jobs
             PROVE  \/ job_queue'[j].status = q[j].status
                    \/ /\ q[j].status = "queued"
                       /\ job_queue'[j].status \in {"processing", "dead"}
  OBVIOUS
<1> DEFINE picked == IF proc = "running" THEN Picked(q, act) ELSE {}
<1>1. job_queue'[j] = IF j \in picked THEN Started(q[j]) ELSE q[j]
  BY DEF Tick, StartWorkers
<1>2. j \in picked => q[j].status = "queued"
  BY DEF Picked, Ready
<1>3. Started(q[j]).status \in {"processing", "dead"}
  BY DEF Started, Row
<1> HIDE DEF picked
<1> QED BY <1>1, <1>2, <1>3

\* The queue keeps what it promises about a job: every step of the queue is a step
\* of its life or leaves it as it is.
THEOREM KeepsPromise == Spec => ImplementsJobLife
<1>1. Init => Promise!LifeInit
  BY DEF Init, Promise!LifeInit, Life, Live, AbsentRow
<1>2. TypeOK /\ TypeOK' /\ [Next]_vars => [Promise!LifeNext]_Life
  <2> SUFFICES ASSUME TypeOK, TypeOK', [Next]_vars, ~UNCHANGED vars
               PROVE  Lives(job_queue, job_queue')
    BY LivesIsLifeNext DEF vars, Life
  <2> USE DEF LifeOf, Promise!Move
  <2>0. job_queue \in [Jobs -> Row]
    BY DEF TypeOK
  <2>1. CASE Enqueue
    <3>1. PICK t \in Types, p \in Priorities, k \in Keys \cup {NoKey}, m \in MaxAttemptsArgs :
            EnqueueExisting(k) \/ EnqueueCreates(t, p, k, m) \/ EnqueueThrows(k)
      BY <2>1 DEF Enqueue
    <3>2. CASE EnqueueExisting(k) \/ EnqueueThrows(k)
      BY <3>2 DEF EnqueueExisting, EnqueueThrows, Lives
    <3>3. CASE EnqueueCreates(t, p, k, m)
      <4> DEFINE q(j) == [job_queue EXCEPT ![j] = NewRow(t, p, k, m)]
      <4>1. PICK j \in Jobs : NextRow(j) /\ Tick(q(j), active)
        BY <3>3 DEF EnqueueCreates
      <4>2. q(j) \in [Jobs -> Row]
        BY <2>0, QueueAssumption DEF NewRow, Row, Statuses
      <4>3. \A i \in Jobs : q(j)[i].status = IF i = j THEN "queued" ELSE job_queue[i].status
        BY <2>0 DEF NewRow
      <4>4. job_queue[j].status = "absent"
        BY <4>1 DEF NextRow
      <4> HIDE DEF q
      <4> QED BY <4>1, <4>2, <4>3, <4>4, TickLives DEF Lives
    <3> QED BY <3>1, <3>2, <3>3
  <2>2. ASSUME NEW j \in Jobs, RetryDead(j) PROVE Lives(job_queue, job_queue')
    <3> DEFINE q == [job_queue EXCEPT ![j].status = "queued", ![j].attempts = 0, ![j].due = TRUE]
    <3>1. q \in [Jobs -> Row] /\ Tick(q, active) /\ job_queue[j].status = "dead"
      BY <2>0, <2>2, RetriedType DEF RetryDead
    <3>2. \A i \in Jobs : q[i].status = IF i = j THEN "queued" ELSE job_queue[i].status
      BY <2>0 DEF Row
    <3> HIDE DEF q
    <3> QED BY <3>1, <3>2, TickLives DEF Lives
  <2>3. CASE Purge
    BY <2>0, <2>3 DEF Purge, Lives, PurgedRow, AbsentRow, Terminal
  <2>4. CASE TickInterval
    BY <2>0, <2>4, TickLives DEF TickInterval, Lives
  <2>5. ASSUME NEW j \in Jobs, Finally(j) PROVE Lives(job_queue, job_queue')
    BY <2>0, <2>5, TickLives DEF Finally, Lives
  <2>6. ASSUME NEW j \in Jobs, HandlerResolves(j) PROVE Lives(job_queue, job_queue')
    BY <2>0, <2>6 DEF HandlerResolves, Working, Lives, Row
  <2>7. ASSUME NEW j \in Jobs, HandlerRejects(j) PROVE Lives(job_queue, job_queue')
    BY <2>0, <2>7 DEF HandlerRejects, Working, Lives, Row
  <2>8. ASSUME NEW j \in Jobs, DelayPasses(j) PROVE Lives(job_queue, job_queue')
    BY <2>0, <2>8 DEF DelayPasses, Lives, Row
  <2>9. CASE Boot
    BY <2>0, <2>9 DEF Boot, Lives, Row
  <2>10. CASE Stop \/ Exit \/ Crash
    BY <2>10 DEF Stop, Exit, Crash, Lose, Lives
  <2> QED BY <2>1, <2>2, <2>3, <2>4, <2>5, <2>6, <2>7, <2>8, <2>9, <2>10 DEF Next
<1> QED BY <1>1, <1>2, TypeCorrect, PTL DEF Spec, ImplementsJobLife, Promise!LifeSpec

-----------------------------------------------------------------------------
(* Slots and priorities. *)

LEMMA JobSetsFinite ==
  ASSUME NEW S \in SUBSET Jobs
  PROVE  IsFiniteSet(S) /\ Cardinality(S) \in Nat
<1>1. IsFiniteSet(Jobs)
  BY QueueAssumption, FS_Interval DEF Jobs
<1>2. IsFiniteSet(S)
  BY <1>1, FS_Subset
<1> QED BY <1>2, FS_CardinalityType

\* What Before compares are natural numbers.
LEMMA RanksNat ==
  ASSUME NEW q \in [Jobs -> Row], NEW j \in Jobs
  PROVE  j \in Nat /\ q[j].priority \in Nat
<1>1. j \in Nat
  BY QueueAssumption DEF Jobs
<1>2. q[j].priority \in Priorities
  BY DEF Row
<1> QED BY <1>1, <1>2, QueueAssumption

\* Of jobs picked together one comes after all the others.
LEMMA LastPicked ==
  ASSUME NEW q \in [Jobs -> Row], NEW P \in SUBSET Jobs, P # {}
  PROVE  \E last \in P : \A j \in P : j # last => Before(q, j, last)
<1> DEFINE behind(j) == {i \in P : Before(q, j, i)}
           Tails     == {behind(j) : j \in P}
<1>1. \A j \in Jobs : j \in Nat
  BY RanksNat
<1>2. \A j \in Jobs : q[j].priority \in Nat
  BY RanksNat
<1>3. \A j \in P : behind(j) \in SUBSET P /\ IsFiniteSet(behind(j))
  <2> TAKE j \in P
  <2>1. behind(j) \in SUBSET P /\ behind(j) \in SUBSET Jobs
    OBVIOUS
  <2> HIDE DEF behind
  <2> QED BY <2>1, JobSetsFinite
<1>4. Tails \subseteq FiniteSubsetsOf(P) /\ Tails # {}
  <2> HIDE DEF behind
  <2> QED BY <1>3 DEF FiniteSubsetsOf
<1>5. PICK tail \in Tails : \A t \in Tails : <<t, tail>> \notin StrictSubsetOrdering(P)
  <2> HIDE DEF Tails
  <2> QED BY <1>4, FS_StrictSubsetOrderingWellFounded, WFMin
<1>6. PICK last \in P : tail = behind(last)
  OBVIOUS
<1>7. ASSUME NEW j \in P, j # last PROVE Before(q, j, last)
  <2> SUFFICES ASSUME ~Before(q, j, last) PROVE FALSE
    OBVIOUS
  <2>1. Before(q, last, j)
    BY <1>1, <1>2, <1>7 DEF Before
  <2>2. \A i \in P : Before(q, j, i) => Before(q, last, i)
    BY <1>1, <1>2, <2>1 DEF Before
  <2>3. ~Before(q, j, j)
    BY <1>1, <1>2 DEF Before
  <2>4. behind(j) \subseteq tail /\ j \in tail /\ j \notin behind(j)
    BY <1>6, <2>1, <2>2, <2>3
  <2>5. behind(j) \in Tails /\ tail \subseteq P
    BY <1>6
  <2> HIDE DEF behind, Tails
  <2>6. <<behind(j), tail>> \in StrictSubsetOrdering(P)
    BY <2>4, <2>5 DEF StrictSubsetOrdering
  <2> QED BY <1>5, <2>5, <2>6
<1> QED BY <1>7

\* The jobs a tick picks fit into the free slots: the last of them has all the
\* others ahead of it, and fewer jobs ahead than there are free slots.
LEMMA PickedFit ==
  ASSUME NEW q \in [Jobs -> Row], NEW act \in SUBSET Jobs, Cardinality(act) <= Concurrency
  PROVE  Cardinality(act \cup Picked(q, act)) <= Concurrency
<1> DEFINE free     == Concurrency - Cardinality(act)
           ahead(j) == {i \in Ready(q) : Before(q, i, j)}
           P        == Picked(q, act)
<1>1. IsFiniteSet(act) /\ Cardinality(act) \in Nat /\ free \in Nat
  BY JobSetsFinite, QueueAssumption
<1>2. IsFiniteSet(Ready(q)) /\ Ready(q) \subseteq Jobs /\ P \subseteq Ready(q)
  BY JobSetsFinite DEF Ready, Picked
<1>3. \A j \in Jobs : IsFiniteSet(ahead(j)) /\ Cardinality(ahead(j)) \in Nat
  BY <1>2, FS_Subset, FS_CardinalityType
<1>4. \A j \in P : Cardinality(ahead(j)) < free
  BY DEF Picked
<1>5. IsFiniteSet(P) /\ Cardinality(P) \in Nat
  BY <1>2, FS_Subset, FS_CardinalityType
<1>6. Cardinality(P) <= free
  <2>1. CASE P = {}
    BY <1>1, <2>1, FS_EmptySet
  <2>2. CASE P # {}
    <3>1. P \in SUBSET Jobs
      BY <1>2
    <3>2. PICK last \in P : \A j \in P : j # last => Before(q, j, last)
      <4> HIDE DEF P
      <4> QED BY <2>2, <3>1, LastPicked
    <3>4. P \ {last} \subseteq ahead(last)
      BY <1>2, <3>2
    <3> HIDE DEF P, ahead, free
    <3>5. last \in Jobs
      BY <1>2
    <3>6. Cardinality(P \ {last}) <= Cardinality(ahead(last))
      BY <1>3, <3>4, <3>5, FS_Subset
    <3>7. Cardinality(P \ {last}) = Cardinality(P) - 1
      BY <1>5, FS_RemoveElement
    <3> QED BY <1>1, <1>3, <1>4, <1>5, <3>5, <3>6, <3>7
  <2> QED BY <2>1, <2>2
<1> HIDE DEF P
<1>7. /\ Cardinality(act \cup P) = Cardinality(act) + Cardinality(P) - Cardinality(act \cap P)
      /\ IsFiniteSet(act \cap P)
  BY <1>1, <1>5, FS_Union, FS_Subset
<1>8. Cardinality(act \cap P) \in Nat
  BY <1>7, FS_CardinalityType
<1>9. Cardinality(act \cup P) <= Concurrency
  BY <1>1, <1>5, <1>6, <1>7, <1>8, QueueAssumption
<1> QED BY <1>9 DEF P

\* A tick keeps the bound on the slots.
LEMMA TickFits ==
  ASSUME NEW q \in [Jobs -> Row], NEW act \in SUBSET Jobs, Cardinality(act) <= Concurrency,
         Tick(q, act)
  PROVE  Cardinality(active') <= Concurrency
<1>1. active' = act \/ active' = act \cup Picked(q, act)
  BY DEF Tick, StartWorkers
<1> QED BY <1>1, PickedFit

\* A finished worker gives its slot back.
LEMMA FewerActive ==
  ASSUME NEW act \in SUBSET Jobs, Cardinality(act) <= Concurrency, NEW j
  PROVE  act \ {j} \in SUBSET Jobs /\ Cardinality(act \ {j}) <= Concurrency
<1>1. IsFiniteSet(act) /\ act \ {j} \subseteq act
  BY JobSetsFinite
<1>2. /\ IsFiniteSet(act \ {j})
      /\ Cardinality(act \ {j}) <= Cardinality(act)
  BY <1>1, FS_Subset
<1>3. Cardinality(act \ {j}) \in Nat /\ Cardinality(act) \in Nat
  BY <1>1, <1>2, FS_CardinalityType
<1> QED BY <1>2, <1>3, QueueAssumption

\* Never more jobs run than there are slots.
THEOREM SlotsKept == Spec => []SlotsBounded
<1>1. Init => SlotsBounded
  BY FS_EmptySet, QueueAssumption DEF Init, SlotsBounded
<1>2. TypeOK /\ SlotsBounded /\ [Next]_vars => SlotsBounded'
  <2> SUFFICES ASSUME TypeOK, SlotsBounded, [Next]_vars
               PROVE  Cardinality(active') <= Concurrency
    BY DEF SlotsBounded
  <2>0. /\ job_queue \in [Jobs -> Row]
        /\ active \in SUBSET Jobs
        /\ Cardinality(active) <= Concurrency
    BY DEF TypeOK, SlotsBounded
  <2>1. CASE Enqueue
    <3>1. PICK t \in Types, p \in Priorities, k \in Keys \cup {NoKey}, m \in MaxAttemptsArgs :
            EnqueueExisting(k) \/ EnqueueCreates(t, p, k, m) \/ EnqueueThrows(k)
      BY <2>1 DEF Enqueue
    <3>2. CASE EnqueueExisting(k) \/ EnqueueThrows(k)
      BY <2>0, <3>2 DEF EnqueueExisting, EnqueueThrows
    <3>3. CASE EnqueueCreates(t, p, k, m)
      <4>1. PICK j \in Jobs : Tick([job_queue EXCEPT ![j] = NewRow(t, p, k, m)], active)
        BY <3>3 DEF EnqueueCreates
      <4>2. [job_queue EXCEPT ![j] = NewRow(t, p, k, m)] \in [Jobs -> Row]
        BY <2>0, QueueAssumption DEF NewRow, Row, Statuses
      <4> QED BY <2>0, <4>1, <4>2, TickFits
    <3> QED BY <3>1, <3>2, <3>3
  <2>2. ASSUME NEW j \in Jobs, RetryDead(j) PROVE Cardinality(active') <= Concurrency
    <3>1. [job_queue EXCEPT ![j].status = "queued", ![j].attempts = 0, ![j].due = TRUE]
            \in [Jobs -> Row]
      BY <2>0, RetriedType
    <3> QED BY <2>0, <2>2, <3>1, TickFits DEF RetryDead
  <2>3. CASE TickInterval
    BY <2>0, <2>3, TickFits DEF TickInterval
  <2>4. ASSUME NEW j \in Jobs, Finally(j) PROVE Cardinality(active') <= Concurrency
    <3>1. active \ {j} \in SUBSET Jobs /\ Cardinality(active \ {j}) <= Concurrency
      BY <2>0, FewerActive
    <3> QED BY <2>0, <2>4, <3>1, TickFits DEF Finally
  <2>5. CASE Exit \/ Crash
    BY <2>5, FS_EmptySet, QueueAssumption DEF Exit, Crash, Lose
  <2>6. CASE \/ Purge \/ Boot \/ Stop \/ UNCHANGED vars
             \/ \E j \in Jobs : HandlerResolves(j) \/ HandlerRejects(j) \/ DelayPasses(j)
    BY <2>0, <2>6 DEF Purge, Boot, Stop, HandlerResolves, HandlerRejects, DelayPasses, vars
  <2> QED BY <2>1, <2>2, <2>3, <2>4, <2>5, <2>6 DEF Next
<1> QED BY <1>1, <1>2, TypeCorrect, PTL DEF Spec

\* A tick starts no job while leaving one that comes before it.
LEMMA TickByPriority ==
  ASSUME NEW q \in [Jobs -> Row], NEW act \in SUBSET Jobs, Cardinality(act) <= Concurrency,
         Tick(q, act), NEW j \in active' \ act, NEW i \in Ready(job_queue')
  PROVE  Before(job_queue', j, i)
<1> DEFINE ahead(n) == {m \in Ready(q) : Before(q, m, n)}
           free     == Concurrency - Cardinality(act)
<1>1. /\ j \in Picked(q, act)
      /\ i \in Ready(q) /\ i \notin Picked(q, act)
      /\ \A n \in Jobs : job_queue'[n].priority = q[n].priority
  <2>1. j \in Picked(q, act) /\ proc = "running"
    BY DEF Tick, StartWorkers
  <2>2. \A n \in Jobs : job_queue'[n] = IF n \in Picked(q, act) THEN Started(q[n]) ELSE q[n]
    BY <2>1 DEF Tick, StartWorkers
  <2>3. \A n \in Jobs : /\ Started(q[n]).status # "queued"
                        /\ Started(q[n]).priority = q[n].priority
    BY DEF Started, Row
  <2> QED BY <2>1, <2>2, <2>3 DEF Ready
<1>2. i \in Jobs /\ j \in Ready(q) /\ j \in Jobs /\ i # j
  BY <1>1 DEF Ready, Picked
<1>3. \A n \in Jobs : n \in Nat /\ q[n].priority \in Nat
  BY RanksNat
<1>4. SUFFICES ASSUME ~Before(q, j, i) PROVE FALSE
  BY <1>1, <1>2 DEF Before
<1>5. Before(q, i, j) /\ ~Before(q, i, i)
  BY <1>2, <1>3, <1>4 DEF Before
<1>6. \A n \in Jobs : Before(q, n, i) => Before(q, n, j)
  BY <1>2, <1>3, <1>5 DEF Before
<1>7. ahead(i) \cup {i} \subseteq ahead(j) /\ i \notin ahead(i)
  BY <1>1, <1>5, <1>6 DEF Ready
<1>8. IsFiniteSet(ahead(i)) /\ IsFiniteSet(ahead(j))
  <2>1. ahead(i) \in SUBSET Jobs /\ ahead(j) \in SUBSET Jobs
    BY DEF Ready
  <2> HIDE DEF ahead
  <2> QED BY <2>1, JobSetsFinite
<1>9. Cardinality(ahead(j)) < free /\ ~(Cardinality(ahead(i)) < free)
  BY <1>1 DEF Picked
<1>10. free \in Int
  BY JobSetsFinite, QueueAssumption
<1> HIDE DEF ahead, free
<1>11. /\ Cardinality(ahead(i)) \in Nat /\ Cardinality(ahead(j)) \in Nat
       /\ Cardinality(ahead(i) \cup {i}) = Cardinality(ahead(i)) + 1
       /\ Cardinality(ahead(i) \cup {i}) <= Cardinality(ahead(j))
  BY <1>7, <1>8, FS_AddElement, FS_Subset, FS_CardinalityType
<1> QED BY <1>9, <1>10, <1>11

\* A started job comes before every job left ready, whatever triggered the tick.
THEOREM ByPriority == Spec => NoPriorityInversion
<1>1. TypeOK /\ SlotsBounded /\ [Next]_vars =>
        \A j \in active' \ active : \A i \in Ready(job_queue') : Before(job_queue', j, i)
  <2> SUFFICES ASSUME TypeOK, SlotsBounded, [Next]_vars,
                      NEW j \in active' \ active, NEW i \in Ready(job_queue')
               PROVE  Before(job_queue', j, i)
    OBVIOUS
  <2>0. /\ job_queue \in [Jobs -> Row]
        /\ active \in SUBSET Jobs
        /\ Cardinality(active) <= Concurrency
    BY DEF TypeOK, SlotsBounded
  <2>1. CASE Enqueue
    <3>1. PICK t \in Types, p \in Priorities, k \in Keys \cup {NoKey}, m \in MaxAttemptsArgs :
            EnqueueCreates(t, p, k, m)
      BY <2>1 DEF Enqueue, EnqueueExisting, EnqueueThrows
    <3>2. PICK n \in Jobs : Tick([job_queue EXCEPT ![n] = NewRow(t, p, k, m)], active)
      BY <3>1 DEF EnqueueCreates
    <3>3. [job_queue EXCEPT ![n] = NewRow(t, p, k, m)] \in [Jobs -> Row]
      BY <2>0, QueueAssumption DEF NewRow, Row, Statuses
    <3> QED BY <2>0, <3>2, <3>3, TickByPriority
  <2>2. ASSUME NEW n \in Jobs, RetryDead(n) PROVE Before(job_queue', j, i)
    <3>1. [job_queue EXCEPT ![n].status = "queued", ![n].attempts = 0, ![n].due = TRUE]
            \in [Jobs -> Row]
      BY <2>0, RetriedType
    <3> QED BY <2>0, <2>2, <3>1, TickByPriority DEF RetryDead
  <2>3. CASE TickInterval
    BY <2>0, <2>3, TickByPriority DEF TickInterval
  <2>4. ASSUME NEW n \in Jobs, Finally(n) PROVE Before(job_queue', j, i)
    <3>1. active \ {n} \in SUBSET Jobs /\ Cardinality(active \ {n}) <= Concurrency
      BY <2>0, FewerActive
    <3>2. j \in active' \ (active \ {n})
      BY <2>0
    <3> QED BY <2>0, <2>4, <3>1, <3>2, TickByPriority DEF Finally
  <2>5. CASE \/ Purge \/ Boot \/ Stop \/ Exit \/ Crash \/ UNCHANGED vars
             \/ \E n \in Jobs : HandlerResolves(n) \/ HandlerRejects(n) \/ DelayPasses(n)
    BY <2>5 DEF Purge, Boot, Stop, Exit, Crash, Lose, HandlerResolves, HandlerRejects,
                DelayPasses, vars
  <2> QED BY <2>1, <2>2, <2>3, <2>4, <2>5 DEF Next
<1> QED BY <1>1, TypeCorrect, SlotsKept, PTL DEF Spec, NoPriorityInversion

-----------------------------------------------------------------------------
(* The queue within the process. *)

\* Every step of requests, cron jobs, workers and the teardown is a step of the queue or
\* leaves it as it is.
LEMMA StageStep == [StageNext]_allVars => [Next]_vars
<1> SUFFICES ASSUME StageNext PROVE [Next]_vars
  BY DEF allVars
<1>1. CASE Around
  BY <1>1 DEF Around, RequestArrives, RequestsEnd, EnqueueJob, RetryByRequest, PurgeByCron,
              BackupStarts, BackupEnds, Signal, HttpClosed, DatabaseClosed, Start, Next
<1>2. CASE Work
  BY <1>2 DEF Work, Next
<1>3. CASE Death
  BY <1>3 DEF Death, Ends, ForcedExit, Dies, Next
<1> QED BY <1>1, <1>2, <1>3 DEF StageNext

\* What the handlers do between two steps of the process changes no variable of it.
LEMMA HandlersStep == [HandlersNext]_handlerVars => [StageNext]_allVars
<1> SUFFICES ASSUME HandlersNext PROVE [StageNext]_allVars
  BY DEF handlerVars
<1>1. CASE Around \/ Death
  BY <1>1 DEF StageNext
<1>2. CASE QueueStep
  BY <1>2 DEF QueueStep, Work, StageNext
<1>3. ASSUME NEW j \in Jobs, HandlerStep(j) PROVE [StageNext]_allVars
  <2>1. CASE HandlerEnds(j)
    BY <2>1 DEF HandlerEnds, Work, StageNext
  <2>2. CASE \/ DocumentWritten(j) \/ ReceiptLogged(j)
             \/ \E ch \in Channels : ChannelSettles(j, ch)
    BY <2>2 DEF DocumentWritten, ReceiptLogged, ChannelSettles
  <2> QED BY <1>3, <2>1, <2>2 DEF HandlerStep
<1> QED BY <1>1, <1>2, <1>3 DEF HandlersNext

\* The process with its handlers implements the process, and the process the queue.
THEOREM ProcessInside == HandlersSpec => ShutdownSpec
<1>1. HandlersInit => StageInit
  BY DEF HandlersInit
<1> QED BY <1>1, HandlersStep, PTL DEF HandlersSpec, ShutdownSpec

THEOREM QueueInside == ShutdownSpec => Spec
<1>1. StageInit => Init
  BY DEF StageInit
<1> QED BY <1>1, StageStep, PTL DEF ShutdownSpec, Spec

\* Hence what is proved of the queue holds in the whole process.
THEOREM QueueKept ==
  HandlersSpec => []OneLiveJobPerKey /\ NoPriorityInversion /\ ImplementsJobLife
BY ProcessInside, QueueInside, OneLiveJob, ByPriority, KeepsPromise

-----------------------------------------------------------------------------
(* The order of the teardown. *)

\* Where the process and its sources of work are in every stage.
StageInv ==
  /\ stage \in {"up", "http", "queue", "closed"}
  /\ stage = "http" => proc = "running"
  /\ stage \in {"queue", "closed"} <=> proc = "stopping"
  /\ proc \in {"stopping", "down"} => ~requests /\ ~cron
  /\ proc = "down" \/ stage = "closed" => active = {}

\* Nothing starts a job once the process is going down.
LEMMA StaysEmpty ==
  ASSUME [Next]_vars, proc # "running", active = {}
  PROVE  active' = {}
BY NothingStarts

THEOREM StageHolds == ShutdownSpec => []StageInv
<1>1. StageInit => StageInv
  BY DEF StageInit, StageInv, Init
<1>2. StageInv /\ [StageNext]_allVars => StageInv'
  <2> SUFFICES ASSUME StageInv, [StageNext]_allVars PROVE StageInv'
    OBVIOUS
  <2>0. proc # "running" /\ active = {} => active' = {}
    BY StageStep, StaysEmpty
  <2>1. CASE RequestArrives \/ RequestsEnd \/ BackupStarts \/ BackupEnds \/ Signal
    BY <2>1 DEF RequestArrives, RequestsEnd, BackupStarts, BackupEnds, Signal, StageInv, vars
  <2>2. CASE EnqueueJob
    BY <2>0, <2>2 DEF EnqueueJob, Enqueue, StageInv, stageVars
  <2>3. ASSUME NEW j \in Jobs, RetryByRequest(j) PROVE StageInv'
    BY <2>0, <2>3 DEF RetryByRequest, RetryDead, StageInv, stageVars
  <2>4. CASE PurgeByCron
    BY <2>4 DEF PurgeByCron, Purge, StageInv, stageVars
  <2>5. CASE HttpClosed
    BY <2>5 DEF HttpClosed, Stop, StageInv, CronLasts
  <2>6. CASE DatabaseClosed
    BY <2>6 DEF DatabaseClosed, QueueDrained, StageInv, CronLasts, vars
  <2>7. CASE Start
    BY <2>7 DEF Start, Boot, StageInv
  <2>8. CASE Work
    <3>1. UNCHANGED <<proc, stageVars>>
      BY <2>8 DEF Work, TickInterval, HandlerResolves, HandlerRejects, Finally, DelayPasses
    <3> QED BY <2>0, <3>1 DEF StageInv, stageVars
  <2>9. CASE Death
    BY <2>9 DEF Death, Ends, ForcedExit, Dies, Exit, Crash, Lose, Gone, StageInv
  <2>10. CASE UNCHANGED allVars
    BY <2>10 DEF allVars, vars, stageVars, StageInv
  <2> QED BY <2>1, <2>2, <2>3, <2>4, <2>5, <2>6, <2>7, <2>8, <2>9, <2>10 DEF StageNext, Around
<1> QED BY <1>1, <1>2, PTL DEF ShutdownSpec

\* The database is closed when no worker, request or cron job is left that could use it.
THEOREM DatabaseClosedLast == HandlersSpec => []ClosedLast
<1>1. StageInv => ClosedLast
  BY DEF StageInv, ClosedLast
<1> QED BY <1>1, StageHolds, ProcessInside, PTL

\* A stopped queue gets no new job.
THEOREM NothingEnqueuedAfterStop == ShutdownSpec => NoEnqueueAfterStop
<1>1. TypeOK /\ StageInv /\ [StageNext]_allVars =>
        (proc = "stopping" /\ proc' # "down" =>
           \A j \in Jobs : job_queue[j].status = "absent" => job_queue'[j].status = "absent")
  <2> SUFFICES ASSUME TypeOK, StageInv, [StageNext]_allVars, proc = "stopping",
                      NEW j \in Jobs, job_queue[j].status = "absent"
               PROVE  job_queue'[j].status = "absent"
    OBVIOUS
  <2>0. ~requests /\ ~cron /\ job_queue \in [Jobs -> Row]
    BY DEF StageInv, TypeOK
  <2>1. CASE \/ RequestArrives \/ RequestsEnd \/ BackupStarts \/ BackupEnds \/ Signal
             \/ HttpClosed \/ DatabaseClosed \/ Death \/ UNCHANGED allVars
    BY <2>1 DEF RequestArrives, RequestsEnd, BackupStarts, BackupEnds, Signal, HttpClosed, Stop,
                DatabaseClosed, Death, Ends, ForcedExit, Dies, Exit, Crash, Lose, allVars, vars
  <2>2. CASE EnqueueJob \/ PurgeByCron \/ Start \/ \E i \in Jobs : RetryByRequest(i)
    BY <2>0, <2>2 DEF EnqueueJob, PurgeByCron, RetryByRequest, Start, Boot
  <2>3. CASE Work
    <3>1. ASSUME NEW i \in Jobs, Finally(i) PROVE job_queue'[j].status = "absent"
      BY <2>0, <3>1, TickLives DEF Finally
    <3>2. ASSUME NEW i \in Jobs, HandlerResolves(i) \/ HandlerRejects(i) \/ DelayPasses(i)
          PROVE  job_queue'[j].status = "absent"
      <4>1. i # j
        BY <3>2 DEF HandlerResolves, HandlerRejects, DelayPasses, Working
      <4> QED BY <2>0, <3>2, <4>1 DEF HandlerResolves, HandlerRejects, DelayPasses
    <3>3. ~TickInterval
      BY DEF TickInterval
    <3> QED BY <2>3, <3>1, <3>2, <3>3 DEF Work
  <2> QED BY <2>1, <2>2, <2>3 DEF StageNext, Around
<1> QED BY <1>1, TypeCorrect, StageHolds, QueueInside, PTL DEF ShutdownSpec, NoEnqueueAfterStop

-----------------------------------------------------------------------------
(* Effects. *)

\* How often a process has ended so far: a stop counts when its process exits.
Deaths == IF proc = "stopping" THEN restarts - 1 ELSE restarts

\* The job has had its effect and will not be run again.
Over(j) == job_queue[j].status \in {"completed", "purged"}

One(b) == IF b THEN 1 ELSE 0

\* The channel has been tried in this run of the handler.
Tried(j, ch) == Has(j, ch) \/ Failed(j, ch)

Steps == {"pdf", "row"} \cup Channels

EffectsTypeOK ==
  /\ done \in [Jobs -> SUBSET (Steps \X BOOLEAN)]
  /\ receipts \in [Jobs -> Nat]
  /\ posted \in [Jobs -> [Channels -> Nat]]

\* A handler's steps belong to a job that is being worked on, and posts to one that carries
\* an incident.  Every death of the process pays for one effect more, and so does the run
\* under way or the one that ended the job.
Effects ==
  /\ EffectsTypeOK
  /\ \A j \in Jobs : done[j] # {} => Working(j)
  /\ \A j \in Jobs, ch \in Channels : Tried(j, ch) => IsIncident(j)
  /\ \A j \in Jobs :
       /\ receipts[j] <= Deaths + One(Over(j) \/ Has(j, "row"))
       /\ \A ch \in Channels : posted[j][ch] <= Deaths + One(Over(j) \/ Tried(j, ch))

\* Steps of the queue other than the end of a handler or of the process.
Quiet ==
  \/ Enqueue \/ Purge \/ TickInterval \/ Boot \/ Stop
  \/ \E j \in Jobs : RetryDead(j) \/ Finally(j) \/ DelayPasses(j)
  \/ UNCHANGED vars

LEMMA TickKeepsWorkers ==
  ASSUME NEW q \in [Jobs -> Row], NEW act \in SUBSET Jobs, Tick(q, act),
         NEW j \in act, q[j] = job_queue[j], job_queue[j].status = "processing"
  PROVE  j \in active' /\ job_queue'[j] = job_queue[j]
BY DEF Tick, StartWorkers, Picked, Ready

LEMMA TickKeepsOver ==
  ASSUME NEW q \in [Jobs -> Row], NEW act \in SUBSET Jobs, Tick(q, act),
         NEW j \in Jobs, q[j] = job_queue[j], Over(j)
  PROVE  Over(j)'
BY TickLives DEF Over

\* They leave the rows of running and of ended jobs as they are.
LEMMA QuietKeeps ==
  ASSUME TypeOK, Quiet, proc = "down" => active = {}, NEW j \in Jobs
  PROVE  /\ Working(j) => Working(j)' /\ job_queue'[j] = job_queue[j]
         /\ Over(j) => Over(j)'
         /\ Deaths' = Deaths
<1>0. /\ job_queue \in [Jobs -> Row] /\ active \in SUBSET Jobs /\ restarts \in Nat
      /\ proc \in {"down", "running", "stopping"}
  BY QueueAssumption DEF TypeOK
<1>1. CASE Enqueue
  <2>1. Deaths' = Deaths
    BY <1>1 DEF Enqueue, Deaths
  <2>2. PICK t \in Types, p \in Priorities, k \in Keys \cup {NoKey}, m \in MaxAttemptsArgs :
          EnqueueExisting(k) \/ EnqueueCreates(t, p, k, m) \/ EnqueueThrows(k)
    BY <1>1 DEF Enqueue
  <2>3. CASE EnqueueExisting(k) \/ EnqueueThrows(k)
    BY <2>1, <2>3 DEF EnqueueExisting, EnqueueThrows, Working, Over
  <2>4. CASE EnqueueCreates(t, p, k, m)
    <3> DEFINE q(i) == [job_queue EXCEPT ![i] = NewRow(t, p, k, m)]
    <3>1. PICK i \in Jobs : NextRow(i) /\ Tick(q(i), active)
      BY <2>4 DEF EnqueueCreates
    <3>2. q(i) \in [Jobs -> Row]
      BY <1>0, QueueAssumption DEF NewRow, Row, Statuses
    <3>3. Working(j) \/ Over(j) => q(i)[j] = job_queue[j]
      BY <1>0, <3>1 DEF NextRow, Working, Over
    <3> HIDE DEF q
    <3> QED BY <1>0, <2>1, <3>1, <3>2, <3>3, TickKeepsWorkers, TickKeepsOver DEF Working
  <2> QED BY <2>2, <2>3, <2>4
<1>2. CASE Purge
  BY <1>0, <1>2 DEF Purge, Working, Over, Terminal, PurgedRow, Deaths
<1>3. CASE TickInterval
  BY <1>0, <1>3, TickKeepsWorkers, TickKeepsOver DEF TickInterval, Working, Deaths
<1>4. CASE Boot \/ Stop
  BY <1>0, <1>4 DEF Boot, Stop, Working, Over, Deaths
<1>5. ASSUME NEW i \in Jobs, RetryDead(i)
      PROVE  /\ Working(j) => Working(j)' /\ job_queue'[j] = job_queue[j]
             /\ Over(j) => Over(j)'
             /\ Deaths' = Deaths
  <2> DEFINE q == [job_queue EXCEPT ![i].status = "queued", ![i].attempts = 0, ![i].due = TRUE]
  <2>1. q \in [Jobs -> Row] /\ Tick(q, active) /\ job_queue[i].status = "dead"
    BY <1>0, <1>5, RetriedType DEF RetryDead
  <2>2. Working(j) \/ Over(j) => q[j] = job_queue[j]
    BY <1>0, <2>1 DEF Working, Over
  <2>3. Deaths' = Deaths
    BY <1>5 DEF RetryDead, Deaths
  <2> HIDE DEF q
  <2> QED BY <1>0, <2>1, <2>2, <2>3, TickKeepsWorkers, TickKeepsOver DEF Working
<1>6. ASSUME NEW i \in Jobs, Finally(i)
      PROVE  /\ Working(j) => Working(j)' /\ job_queue'[j] = job_queue[j]
             /\ Over(j) => Over(j)'
             /\ Deaths' = Deaths
  <2>1. Working(j) => j \in active \ {i}
    BY <1>6 DEF Finally, Working
  <2>2. active \ {i} \in SUBSET Jobs /\ Tick(job_queue, active \ {i}) /\ Deaths' = Deaths
    BY <1>0, <1>6 DEF Finally, Deaths
  <2> QED BY <1>0, <2>1, <2>2, TickKeepsWorkers, TickKeepsOver DEF Working
<1>7. ASSUME NEW i \in Jobs, DelayPasses(i)
      PROVE  /\ Working(j) => Working(j)' /\ job_queue'[j] = job_queue[j]
             /\ Over(j) => Over(j)'
             /\ Deaths' = Deaths
  <2>1. Working(j) \/ Over(j) => i # j
    BY <1>7 DEF DelayPasses, Working, Over
  <2> QED BY <1>0, <1>7, <2>1 DEF DelayPasses, Working, Over, Deaths
<1>8. CASE UNCHANGED vars
  BY <1>8 DEF vars, Working, Over, Deaths
<1> QED BY <1>1, <1>2, <1>3, <1>4, <1>5, <1>6, <1>7, <1>8 DEF Quiet

LEMMA QuietEffects ==
  ASSUME TypeOK, StageInv, Effects, Quiet, UNCHANGED effects
  PROVE  Effects'
<1>1. EffectsTypeOK'
  BY DEF Effects, EffectsTypeOK, effects
<1>2. ASSUME NEW j \in Jobs
      PROVE  /\ Working(j) => Working(j)' /\ IsIncident(j)' = IsIncident(j)
             /\ Over(j) => Over(j)'
             /\ Deaths' = Deaths
  BY QuietKeeps DEF StageInv, IsIncident, Type
<1>3. ASSUME NEW j \in Jobs
      PROVE  /\ \A step : Has(j, step)' = Has(j, step) /\ Failed(j, step)' = Failed(j, step)
             /\ done[j]' = done[j] /\ receipts[j]' = receipts[j] /\ posted[j]' = posted[j]
  BY DEF effects, Has, Failed
<1>4. ASSUME NEW j \in Jobs, NEW ch \in Channels, Tried(j, ch)' PROVE IsIncident(j)'
  BY <1>2, <1>3, <1>4 DEF Effects, Tried, Has, Failed
<1>5. ASSUME NEW j \in Jobs
      PROVE  /\ receipts[j]' <= Deaths' + One(Over(j) \/ Has(j, "row"))'
             /\ \A ch \in Channels : posted[j][ch]' <= Deaths' + One(Over(j) \/ Tried(j, ch))'
  <2>1. Deaths \in Int
    BY QueueAssumption DEF Deaths, TypeOK
  <2>2. receipts[j] \in Nat /\ \A ch \in Channels : posted[j][ch] \in Nat
    BY DEF Effects, EffectsTypeOK
  <2>3. receipts[j]' <= Deaths' + One(Over(j) \/ Has(j, "row"))'
    BY <1>2, <1>3, <2>1, <2>2 DEF Effects, One
  <2>4. ASSUME NEW ch \in Channels
        PROVE  posted[j][ch]' <= Deaths' + One(Over(j) \/ Tried(j, ch))'
    BY <1>2, <1>3, <2>1, <2>2 DEF Effects, One, Tried
  <2> QED BY <2>3, <2>4
<1>6. \A j \in Jobs : done[j]' # {} => Working(j)'
  BY <1>2, <1>3 DEF Effects
<1> QED BY <1>1, <1>4, <1>5, <1>6 DEF Effects

\* A step of a handler is noted for its job and nothing else changes.
LEMMA DidNotes ==
  ASSUME EffectsTypeOK, NEW j \in Jobs, NEW step \in Steps, NEW ok \in BOOLEAN,
         Did(j, step, ok)
  PROVE  /\ done' \in [Jobs -> SUBSET (Steps \X BOOLEAN)]
         /\ <<step, ok>> \in done'[j]
         /\ \A i \in Jobs \ {j} : done'[i] = done[i]
         /\ \A i \in Jobs : \A other : i # j \/ other # step =>
              (Has(i, other)' <=> Has(i, other)) /\ (Failed(i, other)' <=> Failed(i, other))
<1>1. done' = [done EXCEPT ![j] = @ \cup {<<step, ok>>}] /\ <<step, ok>> \in Steps \X BOOLEAN
  BY DEF Did
<1>2. \A i \in Jobs : done'[i] = IF i = j THEN done[i] \cup {<<step, ok>>} ELSE done[i]
  BY <1>1 DEF EffectsTypeOK
<1>3. done' \in [Jobs -> SUBSET (Steps \X BOOLEAN)]
  <2> HIDE DEF Steps
  <2>1. done[j] \cup {<<step, ok>>} \in SUBSET (Steps \X BOOLEAN)
    BY <1>1 DEF EffectsTypeOK
  <2> QED BY <1>1, <2>1 DEF EffectsTypeOK
<1>4. \A i \in Jobs : \A other : i # j \/ other # step =>
        (Has(i, other)' <=> Has(i, other)) /\ (Failed(i, other)' <=> Failed(i, other))
  <2> SUFFICES ASSUME NEW i \in Jobs, NEW other, i # j \/ other # step, NEW b \in BOOLEAN
               PROVE  <<other, b>> \in done'[i] <=> <<other, b>> \in done[i]
    BY DEF Has, Failed
  <2>1. CASE i # j
    BY <1>2, <2>1
  <2>2. CASE i = j /\ other # step
    <3>1. <<other, b>> # <<step, ok>>
      BY <2>2
    <3>2. done'[i] = done[i] \cup {<<step, ok>>}
      BY <1>2, <2>2
    <3> QED BY <3>1, <3>2
  <2> QED BY <2>1, <2>2
<1> QED BY <1>2, <1>3, <1>4

THEOREM EffectsHold == HandlersSpec => []Effects
<1>1. HandlersInit => Effects
  <2> SUFFICES ASSUME HandlersInit PROVE Effects
    OBVIOUS
  <2>1. Deaths = 0
    BY DEF HandlersInit, StageInit, Init, Deaths
  <2>2. EffectsTypeOK
    BY DEF HandlersInit, EffectsTypeOK
  <2> QED BY <2>1, <2>2 DEF HandlersInit, Effects, Tried, Has, Failed, One
<1>2. TypeOK /\ StageInv /\ Effects /\ [HandlersNext]_handlerVars => Effects'
  <2> SUFFICES ASSUME TypeOK, StageInv, Effects, [HandlersNext]_handlerVars PROVE Effects'
    OBVIOUS
  <2>0. /\ Deaths \in Int
        /\ \A j \in Jobs : receipts[j] \in Nat /\ \A ch \in Channels : posted[j][ch] \in Nat
    BY QueueAssumption DEF Deaths, TypeOK, Effects, EffectsTypeOK
  <2>1. CASE (Around /\ UNCHANGED effects) \/ QueueStep \/ UNCHANGED handlerVars
    <3>1. Quiet /\ UNCHANGED effects
      BY <2>1 DEF Around, RequestArrives, RequestsEnd, EnqueueJob, RetryByRequest, PurgeByCron,
                  BackupStarts, BackupEnds, Signal, HttpClosed, DatabaseClosed, Start, QueueStep,
                  handlerVars, allVars, Quiet
    <3> QED BY <3>1, QuietEffects
  <2>2. ASSUME NEW j \in Jobs, DocumentWritten(j) PROVE Effects'
    <3>1. UNCHANGED <<Deaths, receipts, posted>> /\ \A i \in Jobs : UNCHANGED <<Working(i), Over(i), IsIncident(i)>>
      BY <2>2 DEF DocumentWritten, allVars, vars, Deaths, Working, Over, IsIncident, Type
    <3>2. "pdf" \in Steps /\ Did(j, "pdf", TRUE) /\ Working(j) /\ UNCHANGED <<receipts, posted>>
      BY <2>2 DEF DocumentWritten, Steps
    <3>3. /\ EffectsTypeOK'
          /\ \A i \in Jobs \ {j} : done'[i] = done[i]
          /\ \A i \in Jobs : \A other : other # "pdf" =>
               (Has(i, other)' <=> Has(i, other)) /\ (Failed(i, other)' <=> Failed(i, other))
      BY <3>2, DidNotes DEF Effects, EffectsTypeOK
    <3>4. \A i \in Jobs : done'[i] # {} => Working(i)
      BY <3>2, <3>3 DEF Effects
    <3>5. \A ch \in Channels : ch # "pdf"
      BY DEF Channels
    <3> QED BY <3>1, <3>3, <3>4, <3>5 DEF Effects, Tried, One
  <2>3. ASSUME NEW j \in Jobs, ReceiptLogged(j) PROVE Effects'
    <3>1. UNCHANGED <<Deaths, posted>> /\ \A i \in Jobs : UNCHANGED <<Working(i), Over(i), IsIncident(i)>>
      BY <2>3 DEF ReceiptLogged, allVars, vars, Deaths, Working, Over, IsIncident, Type
    <3>2. /\ "row" \in Steps /\ Did(j, "row", TRUE) /\ Working(j) /\ UNCHANGED posted
          /\ receipts' = [receipts EXCEPT ![j] = @ + 1]
      BY <2>3 DEF ReceiptLogged, Steps
    <3>3. /\ EffectsTypeOK'
          /\ <<"row", TRUE>> \in done'[j]
          /\ \A i \in Jobs \ {j} : done'[i] = done[i]
          /\ \A i \in Jobs : \A other : i # j \/ other # "row" =>
               (Has(i, other)' <=> Has(i, other)) /\ (Failed(i, other)' <=> Failed(i, other))
      <4>1. receipts' \in [Jobs -> Nat] /\ posted' \in [Jobs -> [Channels -> Nat]]
        BY <3>2 DEF Effects, EffectsTypeOK
      <4> QED BY <3>2, <4>1, DidNotes DEF Effects, EffectsTypeOK
    <3>4. \A i \in Jobs : done'[i] # {} => Working(i)
      BY <3>2, <3>3 DEF Effects
    <3>5. \A ch \in Channels : ch # "row"
      BY DEF Channels
    <3>6. ASSUME NEW i \in Jobs
          PROVE  receipts'[i] <= Deaths + One(Over(i) \/ Has(i, "row")')
      <4>1. CASE i # j
        BY <3>2, <3>3, <4>1 DEF Effects, EffectsTypeOK, One
      <4>2. CASE i = j
        <5>1. ~Has(j, "row") /\ ~Over(j)
          BY <2>3 DEF ReceiptLogged, MayLog, Working, Over
        <5>2. Has(j, "row")' /\ receipts'[j] = receipts[j] + 1
          BY <3>2, <3>3 DEF Has, Effects, EffectsTypeOK
        <5> QED BY <2>0, <4>2, <5>1, <5>2 DEF Effects, One
      <4> QED BY <4>1, <4>2
    <3> QED BY <3>1, <3>3, <3>4, <3>6, <3>5 DEF Effects, Tried, One
  <2>4. ASSUME NEW j \in Jobs, NEW ch \in Channels, ChannelSettles(j, ch) PROVE Effects'
    <3>1. UNCHANGED <<Deaths, receipts>> /\ \A i \in Jobs : UNCHANGED <<Working(i), Over(i), IsIncident(i)>>
      BY <2>4 DEF ChannelSettles, allVars, vars, Deaths, Working, Over, IsIncident, Type
    <3>2. /\ ch \in Steps /\ ch # "row"
          /\ \E ok \in BOOLEAN : Did(j, ch, ok)
          /\ UNCHANGED posted \/ posted' = [posted EXCEPT ![j][ch] = @ + 1]
          /\ Working(j) /\ IsIncident(j) /\ ~Tried(j, ch)
      BY <2>4 DEF ChannelSettles, Posted, Tried, Steps, Channels
    <3>3. PICK ok \in BOOLEAN : Did(j, ch, ok)
      BY <3>2
    <3>4. /\ done' \in [Jobs -> SUBSET (Steps \X BOOLEAN)]
          /\ <<ch, ok>> \in done'[j]
          /\ \A i \in Jobs \ {j} : done'[i] = done[i]
          /\ \A i \in Jobs : \A other : i # j \/ other # ch =>
               (Has(i, other)' <=> Has(i, other)) /\ (Failed(i, other)' <=> Failed(i, other))
      BY <3>2, <3>3, DidNotes DEF Effects
    <3>5. \A i \in Jobs : done'[i] # {} => Working(i)
      BY <3>2, <3>4 DEF Effects
    <3>6. EffectsTypeOK'
      <4>1. posted' \in [Jobs -> [Channels -> Nat]]
        BY <3>2 DEF Effects, EffectsTypeOK
      <4> QED BY <3>1, <3>4, <4>1 DEF Effects, EffectsTypeOK
    <3>7. Tried(j, ch)'
      BY <3>4 DEF Tried, Has, Failed
    <3>8. \A i \in Jobs, c \in Channels : i # j \/ c # ch => (Tried(i, c)' <=> Tried(i, c))
      BY <3>4 DEF Tried
    <3>9. ASSUME NEW i \in Jobs, NEW c \in Channels
          PROVE  posted'[i][c] <= Deaths + One(Over(i) \/ Tried(i, c)')
      <4>1. CASE i # j \/ c # ch
        BY <3>2, <3>8, <4>1 DEF Effects, EffectsTypeOK, One
      <4>2. CASE i = j /\ c = ch
        <5>1. ~Over(j)
          BY <3>2 DEF Working, Over
        <5>2. posted'[j][ch] <= posted[j][ch] + 1
          BY <2>0, <3>2 DEF Effects, EffectsTypeOK
        <5>3. posted[j][ch] <= Deaths /\ posted'[j][ch] \in Nat
          BY <2>0, <3>2, <3>6, <5>1 DEF Effects, EffectsTypeOK, One
        <5> QED BY <2>0, <3>7, <4>2, <5>2, <5>3 DEF One
      <4> QED BY <4>1, <4>2
    <3> QED BY <3>1, <3>2, <3>4, <3>5, <3>9, <3>6, <3>7, <3>8 DEF Effects, One
  <2>5. ASSUME NEW j \in Jobs, HandlerEnds(j) PROVE Effects'
    <3>1. UNCHANGED <<Deaths, receipts, posted>>
      BY <2>5 DEF HandlerEnds, HandlerResolves, HandlerRejects, Deaths
    <3>2. EffectsTypeOK' /\ done'[j] = {} /\ \A i \in Jobs \ {j} : done'[i] = done[i]
      BY <2>5, <3>1 DEF HandlerEnds, Effects, EffectsTypeOK
    <3>3. /\ Working(j) /\ active' = active
          /\ \A i \in Jobs \ {j} : job_queue'[i] = job_queue[i]
      BY <2>5 DEF HandlerEnds, HandlerResolves, HandlerRejects, TypeOK
    <3>4. Over(j)' \/ ~\E ch \in Channels : Has(j, "row") \/ Tried(j, ch)
      <4>1. CASE HandlerResolves(j)
        BY <4>1 DEF HandlerResolves, Over, TypeOK
      <4>2. CASE Rejectable(j)
        BY <4>2 DEF Rejectable, Effects
      <4> QED BY <2>5, <4>1, <4>2 DEF HandlerEnds
    <3>5. ~Over(j)
      BY <3>3 DEF Working, Over
    <3>6. ~Has(j, "row")' /\ \A ch \in Channels : ~Tried(j, ch)'
      BY <3>2 DEF Has, Failed, Tried
    <3>7. \A i \in Jobs \ {j} :
            /\ Over(i)' <=> Over(i)
            /\ Working(i)' <=> Working(i)
            /\ IsIncident(i)' <=> IsIncident(i)
            /\ Has(i, "row")' <=> Has(i, "row")
            /\ \A ch \in Channels : Tried(i, ch)' <=> Tried(i, ch)
      BY <3>2, <3>3 DEF Over, Working, IsIncident, Type, Has, Failed, Tried
    <3>8. \A ch \in Channels : Has(j, "row") \/ Tried(j, ch) => Over(j)'
      BY <3>4
    <3>9. receipts[j] <= Deaths + One(Over(j)')
      BY <2>0, <3>4, <3>5 DEF Effects, One, Channels
    <3>10. \A ch \in Channels : posted[j][ch] <= Deaths + One(Over(j)')
      BY <2>0, <3>5, <3>8 DEF Effects, One
    <3>11. \A i \in Jobs : done[i]' # {} => Working(i)'
      BY <3>2, <3>7 DEF Effects
    <3>12. \A i \in Jobs, ch \in Channels : Tried(i, ch)' => IsIncident(i)'
      BY <3>6, <3>7 DEF Effects
    <3>13. ASSUME NEW i \in Jobs
           PROVE  /\ receipts[i] <= Deaths + One(Over(i) \/ Has(i, "row"))'
                  /\ \A ch \in Channels : posted[i][ch] <= Deaths + One(Over(i) \/ Tried(i, ch))'
      <4>1. CASE i = j
        BY <3>6, <3>9, <3>10, <4>1 DEF One
      <4>2. CASE i # j
        BY <3>7, <4>2 DEF Effects, One
      <4> QED BY <4>1, <4>2
    <3> QED BY <3>1, <3>2, <3>11, <3>12, <3>13 DEF Effects
  <2>6. CASE Death /\ Forgotten
    <3>1. UNCHANGED <<job_queue, receipts, posted>>
      BY <2>6 DEF Death, Ends, ForcedExit, Dies, Exit, Crash, Lose, Forgotten
    <3>2. Deaths' >= Deaths + 1
      BY <2>6, QueueAssumption DEF Death, Ends, ForcedExit, Dies, Exit, Crash, Lose, Deaths, TypeOK
    <3>3. \A i \in Jobs : done'[i] = {}
      BY <2>6 DEF Forgotten
    <3>4. EffectsTypeOK'
      BY <2>6, <3>1 DEF Forgotten, Effects, EffectsTypeOK
    <3>5. Deaths' \in Int
      BY <2>6, QueueAssumption DEF Death, Ends, ForcedExit, Dies, Exit, Crash, Lose, Deaths, TypeOK
    <3>6. \A i \in Jobs : \A step : ~Has(i, step)' /\ ~Failed(i, step)'
      BY <3>3 DEF Has, Failed
    <3>7. ASSUME NEW i \in Jobs
          PROVE  /\ receipts[i] <= Deaths + 1
                 /\ \A ch \in Channels : posted[i][ch] <= Deaths + 1
      BY <2>0 DEF Effects, One
    <3>8. ASSUME NEW i \in Jobs
          PROVE  /\ receipts'[i] <= Deaths' + One(Over(i) \/ Has(i, "row"))'
                 /\ \A ch \in Channels : posted'[i][ch] <= Deaths' + One(Over(i) \/ Tried(i, ch))'
      <4>1. One(Over(i) \/ Has(i, "row"))' >= 0 /\ \A ch \in Channels : One(Over(i) \/ Tried(i, ch))' >= 0
        BY DEF One
      <4>2. One(Over(i) \/ Has(i, "row"))' \in Int /\ \A ch \in Channels : One(Over(i) \/ Tried(i, ch))' \in Int
        BY DEF One
      <4> QED BY <2>0, <3>1, <3>2, <3>5, <3>7, <4>1, <4>2
    <3> QED BY <3>3, <3>4, <3>6, <3>8 DEF Effects, Tried
  <2> QED BY <2>1, <2>2, <2>3, <2>4, <2>5, <2>6 DEF HandlersNext, HandlerStep
<1> QED BY <1>1, <1>2, TypeCorrect, StageHolds, ProcessInside, QueueInside, PTL DEF HandlersSpec

\* A job issues its receipt and posts its incident once, and once more at most for every time
\* the process ended.
THEOREM EffectsNotRepeated == HandlersSpec => []RepeatsNeedDeath
<1>1. TypeOK /\ Effects => RepeatsNeedDeath
  <2> SUFFICES ASSUME TypeOK, Effects PROVE RepeatsNeedDeath
    OBVIOUS
  <2>1. restarts \in Nat /\ Deaths \in Int /\ Deaths <= restarts
    BY QueueAssumption DEF Deaths, TypeOK
  <2>2. ASSUME NEW b PROVE One(b) \in {0, 1}
    BY DEF One
  <2>3. ASSUME NEW j \in Jobs
        PROVE  receipts[j] <= 1 + restarts /\ \A ch \in Channels : posted[j][ch] <= 1 + restarts
    <3>1. receipts[j] \in Nat /\ \A ch \in Channels : posted[j][ch] \in Nat
      BY DEF Effects, EffectsTypeOK
    <3>2. receipts[j] <= 1 + restarts
      BY <2>1, <2>2, <3>1 DEF Effects
    <3>3. ASSUME NEW ch \in Channels PROVE posted[j][ch] <= 1 + restarts
      BY <2>1, <2>2, <3>1 DEF Effects
    <3> QED BY <3>2, <3>3
  <2> QED BY <2>3 DEF RepeatsNeedDeath
<1> QED BY <1>1, TypeCorrect, EffectsHold, ProcessInside, QueueInside, PTL
=============================================================================
