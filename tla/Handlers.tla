------------------------------ MODULE Handlers ------------------------------
(***************************************************************************)
(* What the built-in handlers of the queue do outside it                   *)
(* (registerBuiltInHandlers of src/src/services/queue.ts): tax receipts    *)
(* and statements (src/src/services/taxReceipt.ts) and notifications       *)
(* (src/src/services/notifications.ts), within the life of the process.    *)
(*                                                                         *)
(* A document is written to disk and then logged; an incident is posted to *)
(* two channels at once and notifyIncident never rejects.  The process may *)
(* die between any two of these steps, and the job is run again.           *)
(***************************************************************************)
EXTENDS Shutdown

CONSTANTS
  Severity,      \* the severity of the incident a notification job carries
  MinSeverity    \* NOTIFICATION_MIN_SEVERITY

VARIABLES
  done,       \* steps of each job's handler in this run of it, and whether they worked
  documents,  \* PDF files written for each job
  receipts,   \* rows of receipt_log for each job
  posted      \* how often each channel got the job's incident

effects == <<done, documents, receipts, posted>>
handlerVars == <<allVars, effects>>

Documents == {"wht_receipt_generate", "bulk_statement_generate"}
Channels == {"slack", "discord"}
SeverityOrder == [info |-> 0, warning |-> 1, high |-> 2, critical |-> 3]

ASSUME HandlersAssumption ==
  /\ Severity \in [Jobs -> DOMAIN SeverityOrder]
  /\ MinSeverity \in DOMAIN SeverityOrder

Type(j) == job_queue[j].type
IsDocument(j) == Type(j) \in Documents
IsIncident(j) == Type(j) = "notification_dispatch"
MeetsMinSeverity(j) == SeverityOrder[Severity[j]] >= SeverityOrder[MinSeverity]

Did(j, step, ok) == done' = [done EXCEPT ![j] = @ \cup {<<step, ok>>}]
Has(j, step) == <<step, TRUE>> \in done[j]
Failed(j, step) == <<step, FALSE>> \in done[j]

-----------------------------------------------------------------------------
(* Documents: the PDF, then the row. *)

DocumentWritten(j) ==
  /\ Working(j) /\ IsDocument(j) /\ done[j] = {}
  /\ Did(j, "pdf", TRUE)
  /\ documents' = [documents EXCEPT ![j] = @ + 1]
  /\ UNCHANGED <<allVars, receipts, posted>>

MayLog(j) == Has(j, "pdf") /\ ~Has(j, "row")

ReceiptLogged(j) ==
  /\ Working(j) /\ IsDocument(j) /\ MayLog(j)
  /\ Did(j, "row", TRUE)
  /\ receipts' = [receipts EXCEPT ![j] = @ + 1]
  /\ UNCHANGED <<allVars, documents, posted>>

-----------------------------------------------------------------------------
(* Notifications: both channels at once, each settled on its own. *)

Posted(j, ch) == posted' = [posted EXCEPT ![j][ch] = @ + 1]

\* A channel that is not configured gets nothing; one whose answer is lost or an error may
\* have got it all the same.
ChannelSettles(j, ch) ==
  /\ Working(j) /\ IsIncident(j) /\ MeetsMinSeverity(j) /\ ~Has(j, ch) /\ ~Failed(j, ch)
  /\ \/ Did(j, ch, TRUE) /\ Posted(j, ch)
     \/ Did(j, ch, FALSE) /\ (Posted(j, ch) \/ UNCHANGED posted)
  /\ UNCHANGED <<allVars, documents, receipts>>

Settled(j) == ~MeetsMinSeverity(j) \/ \A ch \in Channels : Has(j, ch) \/ Failed(j, ch)

-----------------------------------------------------------------------------
(* How a handler ends. *)

\* A statement over a period without payouts is skipped: such a job is one of the others.
Resolvable(j) ==
  CASE IsDocument(j) -> Has(j, "row")
    [] IsIncident(j) -> Settled(j)
    [] OTHER         -> TRUE

\* Fault: notifyIncident rejects when a channel has failed.
RejectableWithChannels(j) ==
  IF IsIncident(j) THEN \E ch \in Channels : Failed(j, ch) ELSE ~Has(j, "row")

\* notifyIncident never rejects; a document fails at its stream, its stat or its INSERT.
Rejectable(j) == ~IsIncident(j) /\ ~Has(j, "row")

HandlerEnds(j) ==
  /\ (Resolvable(j) /\ HandlerResolves(j)) \/ (Rejectable(j) /\ HandlerRejects(j))
  /\ done' = [done EXCEPT ![j] = {}]
  /\ UNCHANGED <<stageVars, documents, receipts, posted>>

HandlerStep(j) ==
  DocumentWritten(j) \/ ReceiptLogged(j) \/ (\E ch \in Channels : ChannelSettles(j, ch)) \/ HandlerEnds(j)

QueueStep ==
  /\ TickInterval \/ \E j \in Jobs : Finally(j) \/ DelayPasses(j)
  /\ UNCHANGED <<stageVars, effects>>

\* What a handler was at is lost with its process, what it did stays.
Forgotten == done' = [j \in Jobs |-> {}] /\ UNCHANGED <<documents, receipts, posted>>

HandlersInit ==
  /\ StageInit
  /\ done = [j \in Jobs |-> {}]
  /\ documents = [j \in Jobs |-> 0]
  /\ receipts = [j \in Jobs |-> 0]
  /\ posted = [j \in Jobs |-> [ch \in Channels |-> 0]]

HandlersNext ==
  \/ Around /\ UNCHANGED effects
  \/ QueueStep
  \/ \E j \in Jobs : HandlerStep(j)
  \/ Death /\ Forgotten

\* Timers fire, settled promises run their callbacks, handlers and the backup settle, the
\* timer of the forced exit fires, and the container runtime restarts the process
\* (restart: unless-stopped).  A retry delay that has passed is noticed between two turns
\* of the event loop, however busy it is.  No request need ever be answered.
HandlersFairness ==
  /\ WF_handlerVars(TickInterval /\ UNCHANGED <<stageVars, effects>>)
  /\ WF_handlerVars(Start /\ UNCHANGED effects)
  /\ WF_handlerVars(BackupEnds /\ UNCHANGED effects)
  /\ WF_handlerVars(ForcedExit /\ Forgotten)
  /\ WF_handlerVars(Ends /\ Forgotten)
  /\ \A j \in Jobs :
       /\ WF_handlerVars(HandlerStep(j))
       /\ WF_handlerVars(Finally(j) /\ UNCHANGED <<stageVars, effects>>)
       /\ SF_handlerVars(DelayPasses(j) /\ UNCHANGED <<stageVars, effects>>)

HandlersSpec == HandlersInit /\ [][HandlersNext]_handlerVars /\ HandlersFairness

-----------------------------------------------------------------------------
\* A retried job does not issue a receipt or post an incident again: a second one means that
\* the process died between the effect and markCompleted.
RepeatsNeedDeath ==
  \A j \in Jobs :
    /\ receipts[j] <= 1 + restarts
    /\ \A ch \in Channels : posted[j][ch] <= 1 + restarts
=============================================================================
