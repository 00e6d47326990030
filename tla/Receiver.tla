------------------------------ MODULE Receiver ------------------------------
(***************************************************************************)
(* The webhook receiver (src/src/webhook/receiver.ts) in front of the      *)
(* verification of module Policies.                                        *)
(*                                                                         *)
(* A request is checked step by step; the first flaw is answered and ends  *)
(* it.  What passes is marked as seen, answered 202 and verified in the    *)
(* same turn of the event loop; only the callback onVerified is awaited.   *)
(* The seen ids live in memory.  Time is in units of which a dedup entry   *)
(* lives Ttl; the drift of a timestamp only decides whether a request is   *)
(* refused, and so does its signature.                                     *)
(***************************************************************************)
EXTENDS Policies

CONSTANTS
  Ids,          \* ids of events
  Payloads,     \* type, environment and fields an event may come with
  Ttl,          \* DEDUP_TTL_MS
  Never,        \* no time
  MaxTime,      \* bound: the clock
  MaxEdits,   \* bound: changes of policy files
  MaxDeaths     \* bound: how often the process dies

ASSUME ReceiverAssumption ==
  /\ {Ttl, MaxTime, MaxEdits, MaxDeaths} \subseteq Nat
  /\ Never \notin Nat

VARIABLES
  process,      \* "up" or "down"
  now,          \* Date.now()
  seen,         \* dedupStore: when each id it holds was marked
  pruneTimer,   \* when the timer of schedulePrune fires, or Never
  answer,       \* the last answer the sender of an id got from this process
  verified,     \* when an id was last handed to verify in this process, or Never
  batch,        \* the outcome for an id that onVerified is working on, or "none"
  edits, deaths

receiverVars == <<process, now, seen, pruneTimer, answer, verified, batch, edits, deaths>>
vars == <<policyVars, receiverVars>>

Forget ==
  /\ seen' = [id \in {} |-> id]
  /\ pruneTimer' = Never
  /\ answer' = [id \in Ids |-> "none"]
  /\ verified' = [id \in Ids |-> Never]
  /\ batch' = [id \in Ids |-> "none"]

-----------------------------------------------------------------------------
(* Requests. *)

Flaws == {"unread body", "timestamp", "signature", "JSON", "schema"}

\* Fault: the id is marked as soon as the body has been parsed.
MarksOfParsed(flaw) == flaw \in {"none", "schema"}

\* checkAndMark comes last, after every check has passed.
Marks(flaw) == flaw = "none"

\* schedulePrune: one timer at a time.
PruneAt == IF pruneTimer = Never THEN now + Ttl ELSE pruneTimer

Mark(id) ==
  /\ seen' = [i \in DOMAIN seen \cup {id} |-> IF i = id THEN now ELSE seen[i]]
  /\ pruneTimer' = PruneAt

\* 400, 401 or 422.
Refuse(id) ==
  /\ process = "up"
  /\ \E flaw \in Flaws : IF Marks(flaw) /\ id \notin DOMAIN seen THEN Mark(id)
                                                                ELSE UNCHANGED <<seen, pruneTimer>>
  /\ answer' = [answer EXCEPT ![id] = "refused"]
  /\ UNCHANGED <<policyVars, process, now, verified, batch, edits, deaths>>

\* 202, "duplicate - already processed".
Duplicate(id) ==
  /\ process = "up" /\ id \in DOMAIN seen
  /\ answer' = [answer EXCEPT ![id] = "duplicate"]
  /\ UNCHANGED <<policyVars, process, now, seen, pruneTimer, verified, batch, edits, deaths>>

\* 202, toDomainEvent and dispatch up to the callback.
Accept(id, event) ==
  /\ process = "up" /\ id \notin DOMAIN seen
  /\ \A p \in Applicable(event) : ~Throws(event, p)
  /\ Mark(id)
  /\ answer' = [answer EXCEPT ![id] = "accepted"]
  /\ verified' = [verified EXCEPT ![id] = now]
  /\ batch' = [batch EXCEPT ![id] = OverallOutcome(event)]
  /\ UNCHANGED <<policyVars, process, now, edits, deaths>>

Die ==
  /\ process' = "down"
  /\ Forget
  /\ deaths' = deaths + 1
  /\ watcher' = "off" /\ debounce' = FALSE
  /\ UNCHANGED <<files, store, now, edits>>

\* verify rejects, dispatch does not catch it, and nobody handles its promise: the
\* process ends after the 202.
AcceptAndDie(id, event) ==
  /\ process = "up" /\ id \notin DOMAIN seen
  /\ \E p \in Applicable(event) : Throws(event, p)
  /\ deaths < MaxDeaths
  /\ Die

\* onVerified resolves, or throws and is logged: the receiver does the same.
CallbackSettles(id) ==
  /\ batch[id] # "none"
  /\ batch' = [batch EXCEPT ![id] = "none"]
  /\ UNCHANGED <<policyVars, process, now, seen, pruneTimer, answer, verified, edits, deaths>>

-----------------------------------------------------------------------------
(* Time, files and the process. *)

\* Fault: the cutoff is the moment itself.
OutdatedAtOnce(id) == seen[id] < now

Outdated(id) == seen[id] < now - Ttl

\* The callback of schedulePrune; the timer is set again by the next mark.
Prune ==
  /\ pruneTimer # Never /\ now >= pruneTimer
  /\ seen' = [id \in {i \in DOMAIN seen : ~Outdated(i)} |-> seen[id]]
  /\ pruneTimer' = Never
  /\ UNCHANGED <<policyVars, process, now, answer, verified, batch, edits, deaths>>

TimePasses ==
  /\ now < MaxTime
  /\ now' = now + 1
  /\ UNCHANGED <<policyVars, process, seen, pruneTimer, answer, verified, batch, edits, deaths>>

PolicyChange(f) ==
  /\ edits < MaxEdits
  /\ edits' = edits + 1
  /\ FileChanges(f)
  /\ UNCHANGED <<process, now, seen, pruneTimer, answer, verified, batch, deaths>>

PolicyStep ==
  /\ process = "up"
  /\ Reload \/ Watch \/ StopWatch
  /\ UNCHANGED receiverVars

Crash == process = "up" /\ deaths < MaxDeaths /\ Die

Boot ==
  /\ process = "down"
  /\ process' = "up"
  /\ Create
  /\ UNCHANGED <<now, seen, pruneTimer, answer, verified, batch, edits, deaths>>

Init ==
  /\ files = [f \in {Files[i] : i \in DOMAIN Files} |-> Absent]
  /\ store = [id \in {} |-> id] /\ watcher = "off" /\ debounce = FALSE
  /\ process = "down" /\ now = 0
  /\ seen = [id \in {} |-> id] /\ pruneTimer = Never
  /\ answer = [id \in Ids |-> "none"]
  /\ verified = [id \in Ids |-> Never]
  /\ batch = [id \in Ids |-> "none"]
  /\ edits = 0 /\ deaths = 0

Next ==
  \/ \E id \in Ids : Refuse(id)
  \/ \E id \in Ids : Duplicate(id)
  \/ \E id \in Ids, event \in Payloads : Accept(id, event)
  \/ \E id \in Ids, event \in Payloads : AcceptAndDie(id, event)
  \/ \E id \in Ids : CallbackSettles(id)
  \/ Prune
  \/ TimePasses
  \/ \E f \in DOMAIN files : PolicyChange(f)
  \/ PolicyStep
  \/ Crash
  \/ Boot

Spec == Init /\ [][Next]_vars

-----------------------------------------------------------------------------
\* "duplicate - already processed" is true of what this process has done: no id is
\* held as seen, through refusals, sweeps and deaths, that was not handed to verify
\* (the place of checkAndMark in handleRequest).
DuplicatesWereVerified ==
  \A id \in Ids : answer[id] = "duplicate" => verified[id] # Never

\* However late the sweeps come and whatever else is marked, one process verifies an
\* id again only when more than Ttl has passed (the one timer of schedulePrune, whose
\* cutoff is its own time and not the time it was set).
VerifiedApart ==
  [][\A id \in Ids :
       (verified[id] # Never /\ verified'[id] \notin {Never, verified[id]})
          => verified'[id] - verified[id] > Ttl]_vars
=============================================================================
