----------------------------- MODULE PilotIngest -----------------------------
(***************************************************************************)
(* Listen Mode from end to end: the SDK inside a customer's process        *)
(* (src/packages/pilot-sdk/src/index.ts), the ingest endpoint it posts to  *)
(* (src/src/routes/pilot-ingest.ts) and the account whose key it uses      *)
(* (src/src/routes/provisioning.ts, behind the guards of DualPlane).       *)
(*                                                                         *)
(* The timer starts a flush every second whether or not the one before has *)
(* been answered, and a request may take two seconds: flushes overlap.  A  *)
(* request that timed out may still arrive.                                *)
(***************************************************************************)
EXTENDS DualPlane, SequencesExt

CONSTANTS
  MaxDecisions,   \* bound: decisions the host records, numbered as it does
  TooLarge,       \* those whose payload is over 8 KB
  MaxQueueSize,
  BatchSize,
  MaxFlights,     \* bound: overlapping flushes
  MaxFailures,    \* bound: requests that fail for another reason than what they carry
  MaxRotations,   \* bound: key rotations
  Tiers

Decisions == 1..MaxDecisions

ASSUME PilotAssumption ==
  /\ {MaxQueueSize, BatchSize} \subseteq Nat \ {0}
  /\ {MaxDecisions, MaxFlights, MaxFailures, MaxRotations} \subseteq Nat
  /\ TooLarge \subseteq Decisions

VARIABLES
  recorded,    \* how many decisions record() has accepted
  queue,       \* the SDK's queue
  flights,     \* requests in flight: slot -> what was sent, what became of it
  late,        \* requests the SDK has given up that may still arrive
  stopped,     \* stop() has been called
  flushing,    \* "no", "cycle" (flush() awaits the flight of slot 0) or "done"
  dropped,     \* decisions the SDK has dropped because the queue was full
  failures,    \* failed requests so far
  rows,        \* pilot_decisions: rows per client_decision_id
  key,         \* number of the key the account accepts; the SDK holds the first
  tier,        \* the account's tier
  changes      \* commercial_audit_log of the account: who did what

sdk == <<recorded, queue, flights, late, stopped, flushing, dropped, failures>>
account == <<key, tier, changes, planeVars>>
pilotVars == <<sdk, rows, account>>

\* Slot 0 is the flight flush() awaits, the others are the timer's.
Slots == 0..MaxFlights
Free == [batch |-> <<>>, stage |-> "free"]
In(seq) == {seq[i] : i \in DOMAIN seq}

PilotTypeOK ==
  /\ recorded \in 0..MaxDecisions /\ dropped \subseteq Decisions
  /\ In(queue) \subseteq Decisions /\ Len(queue) <= MaxQueueSize
  /\ \A s \in Slots : flights[s].stage \in {"free", "sent", "accepted", "refused"}
  /\ stopped \in BOOLEAN /\ flushing \in {"no", "cycle", "done"}
  /\ rows \in [Decisions -> Nat]
  /\ key \in 1..(MaxRotations + 1) /\ tier \in Tiers

-----------------------------------------------------------------------------
(* The SDK. *)

\* What the rule "drop the oldest" leaves of a queue, and what it drops.
Kept(q) == IF Len(q) > MaxQueueSize THEN SubSeq(q, Len(q) - MaxQueueSize + 1, Len(q)) ELSE q
DroppedOf(q) == IF Len(q) > MaxQueueSize THEN In(SubSeq(q, 1, Len(q) - MaxQueueSize)) ELSE {}

Requeue(q) == queue' = Kept(q) /\ dropped' = dropped \cup DroppedOf(q)

Record ==
  /\ ~stopped /\ recorded < MaxDecisions
  /\ recorded' = recorded + 1
  /\ Requeue(Append(queue, recorded + 1))
  /\ UNCHANGED <<flights, late, stopped, flushing, failures, rows, account>>

\* The first half of flushOnce: up to batchSize decisions leave the queue.
Sent(s) ==
  LET n == IF Len(queue) < BatchSize THEN Len(queue) ELSE BatchSize
  IN  /\ queue # <<>>
      /\ flights[s].stage = "free"
      /\ flights' = [flights EXCEPT ![s] = [batch |-> SubSeq(queue, 1, n), stage |-> "sent"]]
      /\ queue' = SubSeq(queue, n + 1, Len(queue))

\* The background timer, until stop() clears it.
TimerFlush(s) ==
  /\ s # 0 /\ ~stopped
  /\ Sent(s)
  /\ UNCHANGED <<recorded, late, stopped, flushing, dropped, failures, rows, account>>

\* flush(): one cycle after the other while the queue is not empty.  A flight of
\* the timer's is not awaited.
FlushCalled ==
  /\ ~stopped /\ flushing = "no"
  /\ IF queue = <<>>
     THEN /\ flushing' = "done" /\ stopped' = TRUE
          /\ UNCHANGED <<flights, queue>>
     ELSE /\ Sent(0) /\ flushing' = "cycle"
          /\ UNCHANGED stopped
  /\ UNCHANGED <<recorded, late, dropped, failures, rows, account>>

\* The next cycle; or the end of the loop, because the queue is empty or what is
\* left of the five seconds is shorter than a timeout, and with it the timer's.
FlushContinues ==
  /\ flushing = "cycle" /\ flights[0].stage = "free"
  /\ \/ /\ Sent(0)
        /\ UNCHANGED <<stopped, flushing>>
     \/ /\ stopped' = TRUE /\ flushing' = "done"
        /\ UNCHANGED <<flights, queue>>
  /\ UNCHANGED <<recorded, late, dropped, failures, rows, account>>

\* A 2xx answer: the promise resolves.
Resolves(s) ==
  /\ flights[s].stage = "accepted"
  /\ flights' = [flights EXCEPT ![s] = Free]
  /\ UNCHANGED <<recorded, queue, late, stopped, flushing, dropped, failures, rows, account>>

\* Fault: a batch that failed is not put back.
PutBackNever(batch) == queue

\* The queue after a failed request: the batch comes first again.
PutBack(batch) == batch \o queue

\* Any other answer, after which flushOnce puts the batch back.
Rejects(s) ==
  /\ flights[s].stage = "refused"
  /\ Requeue(PutBack(flights[s].batch))
  /\ flights' = [flights EXCEPT ![s] = Free]
  /\ UNCHANGED <<recorded, late, stopped, flushing, failures, rows, account>>

\* The timeout or a broken connection, before or after the server has acted; the
\* request may be under way still.
Fails(s) ==
  /\ failures < MaxFailures
  /\ flights[s].stage # "free"
  /\ failures' = failures + 1
  /\ Requeue(PutBack(flights[s].batch))
  /\ \/ UNCHANGED late
     \/ flights[s].stage = "sent" /\ late' = late \cup {<<failures, flights[s].batch>>}
  /\ flights' = [flights EXCEPT ![s] = Free]
  /\ UNCHANGED <<recorded, stopped, flushing, rows, account>>

-----------------------------------------------------------------------------
(* The endpoint. *)

\* requireApiKey, then the two checks that answer 413.
Accepts(batch) == key = 1 /\ Len(batch) <= 50 /\ In(batch) \cap TooLarge = {}

\* Fault: the rows are written once for every decision of the SDK's batch size.
InsertedTwice(batch) == [d \in Decisions |-> rows[d] + (IF d \in In(batch) THEN Len(batch) ELSE 0)]

\* The transaction: a row for every decision of the batch, whether or not there is
\* one already.
Inserted(batch) == [d \in Decisions |-> rows[d] + Cardinality({i \in DOMAIN batch : batch[i] = d})]

Arrives(s) ==
  /\ flights[s].stage = "sent"
  /\ IF Accepts(flights[s].batch)
     THEN /\ flights' = [flights EXCEPT ![s].stage = "accepted"]
          /\ rows' = Inserted(flights[s].batch)
     ELSE /\ flights' = [flights EXCEPT ![s].stage = "refused"]
          /\ UNCHANGED rows
  /\ UNCHANGED <<recorded, queue, late, stopped, flushing, dropped, failures, account>>

\* Over 600 requests in the minute (pilotIngestLimiter).
Throttled(s) ==
  /\ flights[s].stage = "sent" /\ failures < MaxFailures
  /\ failures' = failures + 1
  /\ flights' = [flights EXCEPT ![s].stage = "refused"]
  /\ UNCHANGED <<recorded, queue, late, stopped, flushing, dropped, rows, account>>

ArrivesLate(m) ==
  /\ m \in late
  /\ late' = late \ {m}
  /\ rows' = IF Accepts(m[2]) THEN Inserted(m[2]) ELSE rows
  /\ UNCHANGED <<recorded, queue, flights, stopped, flushing, dropped, failures, account>>

-----------------------------------------------------------------------------
(* The account. *)

Guarded(u, method) == Verdict(Principal[u], RequireGlobalSuperAdmin, Unscoped, method)

\* requireBusinessPlane(["global_super_admin"]) before a handler of provisioning.ts.
Admitted(u, method) ==
  Guarded(u, method).granted /\ Judged(u, Guarded(u, method))

AccountRefused(u) ==
  /\ ~Guarded(u, "POST").granted
  /\ Judged(u, Guarded(u, "POST"))
  /\ UNCHANGED <<sdk, rows, key, tier, changes>>

\* POST /accounts/:id/rotate-key: the old key is refused from here on.
RotateApiKey(u) ==
  /\ Admitted(u, "POST")
  /\ key <= MaxRotations
  /\ key' = key + 1
  /\ changes' = Append(changes, [actor |-> u, old |-> key, new |-> key + 1])
  /\ UNCHANGED <<sdk, rows, tier>>

\* PATCH /accounts/:id/tier.  The same tier changes nothing.
ChangeTier(u, t) ==
  /\ Admitted(u, "PATCH")
  /\ tier' = t
  /\ changes' = IF t = tier THEN changes
                ELSE Append(changes, [actor |-> u, old |-> tier, new |-> t])
  /\ UNCHANGED <<sdk, rows, key>>

OtherRequest ==
  /\ HourPasses \/ UnauthenticatedRequest
  /\ UNCHANGED <<sdk, rows, key, tier, changes>>

-----------------------------------------------------------------------------
PilotInit ==
  /\ recorded = 0 /\ queue = <<>> /\ flights = [s \in Slots |-> Free]
  /\ late = {} /\ stopped = FALSE /\ flushing = "no" /\ dropped = {} /\ failures = 0
  /\ rows = [d \in Decisions |-> 0]
  /\ key = 1 /\ tier = "LITE" /\ changes = <<>>
  /\ metrics = <<>> /\ signals = {}

PilotNext ==
  \/ Record
  \/ FlushCalled \/ FlushContinues
  \/ \E s \in Slots : TimerFlush(s) \/ Resolves(s) \/ Rejects(s) \/ Fails(s)
  \/ \E s \in Slots : Arrives(s) \/ Throttled(s)
  \/ \E m \in late : ArrivesLate(m)
  \/ \E u \in Users : AccountRefused(u) \/ RotateApiKey(u) \/ (\E t \in Tiers : ChangeTier(u, t))
  \/ OtherRequest

\* The interval fires, requests arrive or fail, and answers are processed.
Fairness ==
  /\ \A s \in Slots :
       /\ WF_pilotVars(TimerFlush(s))
       /\ WF_pilotVars(Arrives(s))
       /\ WF_pilotVars(Resolves(s) \/ Rejects(s))
  /\ WF_pilotVars(FlushContinues)

PilotSpec == PilotInit /\ [][PilotNext]_pilotVars /\ Fairness

-----------------------------------------------------------------------------
InFlight == UNION {In(flights[s].batch) : s \in Slots}

\* No decision is lost without a trace: one the SDK has accepted is queued, in
\* flight, stored, or was dropped because the queue was full, whichever flushes
\* overlapped and in whichever order they failed.
RecordedIsKept ==
  \A d \in 1..recorded : d \in In(queue) \cup InFlight \cup dropped \/ rows[d] > 0

\* The endpoint has no idempotency key, so a decision is stored again whenever an
\* answer is lost; it is never stored more often than there were failures, and one.
DuplicatesNeedFailures == \A d \in Decisions : rows[d] <= failures + 1

\* A decision that was recorded is stored in the end, unless it is dropped, the SDK
\* stopped or the key rotated: failures are retried and flights cannot hold it for
\* ever.  A payload that is too large can: its batch comes back to the head of the
\* queue after every 413.
DecisionsArrive ==
  \A d \in Decisions :
    d <= recorded ~> \/ rows[d] > 0 \/ d \in dropped \/ stopped \/ key # 1
                     \/ TooLarge \cap 1..recorded # {}
=============================================================================
