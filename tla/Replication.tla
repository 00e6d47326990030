---------------------------- MODULE Replication ----------------------------
(***************************************************************************)
(* Backups and failover (src/src/db/replication.ts), as app.ts builds and  *)
(* calls them: a nightly timer and POST /admin/backups each start a run,   *)
(* and nothing keeps two runs apart.                                       *)
(*                                                                         *)
(* A run stages a copy of the database, checks it, ships it to each        *)
(* destination and records a manifest; retention then works through the    *)
(* directory and the bucket on its own, while later runs go on.  Names     *)
(* begin with the time a run started, so run 2 sorts after run 1.          *)
(* Nothing in the repository calls triggerFailover or clearFailover.       *)
(***************************************************************************)
EXTENDS Integers, FiniteSets, FiniteSetsExt

CONSTANTS
  Destinations,    \* what is configured: a subset of {"s3", "filesystem"}
  RetentionCount,  \* files the directory keeps; 0 keeps all
  RetentionDays,   \* days the bucket keeps an object; 0 keeps all
  MaxRuns,         \* bound: runs ever started
  MaxDay,          \* bound: days
  MaxFaults,       \* bound: damaged copies, failed steps
  MaxCrashes       \* bound: crashes

ASSUME ReplicationAssumption ==
  /\ Destinations \subseteq {"s3", "filesystem"}
  /\ {RetentionCount, RetentionDays, MaxRuns, MaxDay, MaxFaults, MaxCrashes} \subseteq Nat

VARIABLES
  run,        \* run id -> its stage, whether its copy is sound, and what became of each upload
  files,      \* the directory: run id -> "partial", "sound" or "damaged", for the files there are
  objects,    \* the bucket: run id -> day of upload, for the objects there are
  prunes,     \* retention of the directory under way: run id -> files it still has to unlink
  manifests,  \* manifestLog
  failover,   \* triggerFailover: its stage and the file it is about
  day, faults, crashes,
  appeared,   \* history: runs that have had a file in the directory
  arrived     \* history: <<run id, destination>> that got a complete copy

backupVars == <<run, files, objects, prunes, manifests, failover, day, faults, crashes, appeared, arrived>>

Runs == 1..MaxRuns
Unstarted == [stage |-> "none", sound |-> TRUE, upload |-> [d \in Destinations |-> "pending"]]
NoFailover == [stage |-> "idle", file |-> 0]
NoFile == [id \in {} |-> "partial"]
Started == {id \in Runs : run[id].stage # "none"}

ReplicationTypeOK ==
  /\ \A id \in Runs :
       /\ run[id].stage \in {"none", "staging", "shipping", "ended"}
       /\ run[id].upload \in [Destinations -> {"pending", "done", "failed"}]
  /\ DOMAIN files \subseteq Runs /\ \A id \in DOMAIN files : files[id] \in {"partial", "sound", "damaged"}
  /\ DOMAIN objects \subseteq Runs
  /\ DOMAIN prunes \subseteq Runs
  /\ \A m \in manifests : m.id \in Runs /\ m.status \in {"success", "partial", "failed"}
  /\ failover.stage \in {"idle", "checking", "null", "active"} /\ failover.file \in 0..MaxRuns
  /\ arrived \subseteq Runs \X Destinations

Drop(f, ids) == [id \in DOMAIN f \ ids |-> f[id]]
Put(f, id, value) == [i \in DOMAIN f \cup {id} |-> IF i = id THEN value ELSE f[i]]

Fault == faults < MaxFaults /\ faults' = faults + 1

-----------------------------------------------------------------------------
(* One run of runBackup. *)

StartRun ==
  /\ \E id \in Runs :
       /\ run[id].stage = "none" /\ \A before \in 1..(id - 1) : run[before].stage # "none"
       /\ run' = [run EXCEPT ![id].stage = "staging"]
  /\ UNCHANGED <<files, objects, prunes, manifests, failover, day, faults, crashes, appeared, arrived>>

Manifest(id, status, ok) == manifests \cup {[id |-> id, status |-> status, integrityOk |-> ok]}

\* The backup or its check throws: a failed manifest, and nothing was shipped.
StagingFails(id) ==
  /\ run[id].stage = "staging" /\ Fault
  /\ run' = [run EXCEPT ![id].stage = "ended"]
  /\ manifests' = Manifest(id, "failed", FALSE)
  /\ UNCHANGED <<files, objects, prunes, failover, day, crashes, appeared, arrived>>

\* The copy is staged and checked; a damaged one is shipped like any other.
Staged(id) ==
  /\ run[id].stage = "staging"
  /\ \/ run' = [run EXCEPT ![id].stage = "shipping"] /\ UNCHANGED faults
     \/ run' = [run EXCEPT ![id].stage = "shipping", ![id].sound = FALSE] /\ Fault
  /\ IF "filesystem" \in Destinations
       THEN files' = Put(files, id, "partial") /\ appeared' = appeared \cup {id}
       ELSE UNCHANGED <<files, appeared>>
  /\ UNCHANGED <<objects, prunes, manifests, failover, day, crashes, arrived>>

Uploading(id, d) == run[id].stage = "shipping" /\ d \in Destinations /\ run[id].upload[d] = "pending"

\* The file may have been pruned while it was written.
CopyDone(id) ==
  /\ Uploading(id, "filesystem")
  /\ run' = [run EXCEPT ![id].upload["filesystem"] = "done"]
  /\ files' = IF id \in DOMAIN files
                THEN [files EXCEPT ![id] = IF run[id].sound THEN "sound" ELSE "damaged"] ELSE files
  /\ arrived' = arrived \cup {<<id, "filesystem">>}
  /\ UNCHANGED <<objects, prunes, manifests, failover, day, faults, crashes, appeared>>

UploadDone(id) ==
  /\ Uploading(id, "s3")
  /\ run' = [run EXCEPT ![id].upload["s3"] = "done"]
  /\ objects' = Put(objects, id, day)
  /\ arrived' = arrived \cup {<<id, "s3">>}
  /\ UNCHANGED <<files, prunes, manifests, failover, day, faults, crashes, appeared>>

\* A copy that fails may leave what it has written.
UploadFails(id, d) ==
  /\ Uploading(id, d) /\ Fault
  /\ run' = [run EXCEPT ![id].upload[d] = "failed"]
  /\ \/ UNCHANGED files
     \/ d = "filesystem" /\ files' = Drop(files, {id})
  /\ UNCHANGED <<objects, prunes, manifests, failover, day, crashes, appeared, arrived>>

Results(id) == {run[id].upload[d] : d \in Destinations}

\* Fault: the uploads are not awaited.
ShippedAtOnce(id) == TRUE

Shipped(id) == "pending" \notin Results(id)

Status(id) == IF "failed" \notin Results(id) THEN "success"
              ELSE IF "done" \in Results(id) THEN "partial" ELSE "failed"

Expired == {id \in DOMAIN objects : objects[id] < day - RetentionDays}

\* The manifest is recorded; what has expired leaves the bucket, and the directory is read.
Finish(id) ==
  /\ run[id].stage = "shipping" /\ Shipped(id)
  /\ run' = [run EXCEPT ![id].stage = "ended"]
  /\ manifests' = Manifest(id, Status(id), run[id].sound)
  /\ objects' = IF RetentionDays = 0 THEN objects ELSE Drop(objects, Expired)
  /\ prunes' = IF "filesystem" \in Destinations /\ RetentionCount > 0
                 THEN Put(prunes, id, {0}) ELSE prunes
  /\ UNCHANGED <<files, failover, day, faults, crashes, appeared, arrived>>

-----------------------------------------------------------------------------
(* Retention of the directory, a task of its own. *)

\* Fault: the names sorted the other way, so that the last ones go.
BeyondCountReversed == {id \in DOMAIN files :
  Cardinality({other \in DOMAIN files : other < id}) >= RetentionCount}

\* All but the last RetentionCount names, whatever is in the files.
BeyondCount == {id \in DOMAIN files :
  Cardinality({other \in DOMAIN files : other > id}) >= RetentionCount}

\* The directory is read once (0 stands for that) and the files are unlinked one by one.
List(id) ==
  /\ id \in DOMAIN prunes /\ prunes[id] = {0}
  /\ prunes' = IF BeyondCount = {} THEN Drop(prunes, {id}) ELSE Put(prunes, id, BeyondCount)
  /\ UNCHANGED <<run, files, objects, manifests, failover, day, faults, crashes, appeared, arrived>>

Unlink(id) ==
  /\ id \in DOMAIN prunes /\ prunes[id] # {0}
  /\ files' = Drop(files, {Min(prunes[id])})
  /\ prunes' = IF Cardinality(prunes[id]) = 1 THEN Drop(prunes, {id})
               ELSE Put(prunes, id, prunes[id] \ {Min(prunes[id])})
  /\ UNCHANGED <<run, objects, manifests, failover, day, faults, crashes, appeared, arrived>>

-----------------------------------------------------------------------------
(* Failover. *)

\* The last name in the directory, unless a replica is in use.
TriggerFailover ==
  /\ failover.stage \in {"idle", "null"}
  /\ failover' = IF DOMAIN files = {} THEN [stage |-> "null", file |-> 0]
                 ELSE [stage |-> "checking", file |-> Max(DOMAIN files)]
  /\ UNCHANGED <<run, files, objects, prunes, manifests, day, faults, crashes, appeared, arrived>>

Opens(id) == id \in DOMAIN files /\ files[id] = "sound"

\* The replica is checked and opened; a file that has gone makes the call throw.
VerifyReplica ==
  /\ failover.stage = "checking"
  /\ failover' = IF Opens(failover.file) THEN [failover EXCEPT !.stage = "active"]
                 ELSE IF failover.file \in DOMAIN files THEN [stage |-> "null", file |-> 0] ELSE NoFailover
  /\ UNCHANGED <<run, files, objects, prunes, manifests, day, faults, crashes, appeared, arrived>>

ClearFailover ==
  /\ failover.stage = "active" /\ failover' = NoFailover
  /\ UNCHANGED <<run, files, objects, prunes, manifests, day, faults, crashes, appeared, arrived>>

-----------------------------------------------------------------------------
\* What the process held is lost; a file it was writing stays as it is.
Crash ==
  /\ crashes < MaxCrashes /\ crashes' = crashes + 1
  /\ run' = [id \in Runs |-> IF id \in Started THEN [run[id] EXCEPT !.stage = "ended"] ELSE run[id]]
  /\ prunes' = [id \in {} |-> {}] /\ manifests' = {} /\ failover' = NoFailover
  /\ UNCHANGED <<files, objects, day, faults, appeared, arrived>>

NextDay ==
  /\ day < MaxDay /\ day' = day + 1
  /\ UNCHANGED <<run, files, objects, prunes, manifests, failover, faults, crashes, appeared, arrived>>

BackupInit ==
  /\ run = [id \in Runs |-> Unstarted]
  /\ files = NoFile /\ objects = [id \in {} |-> 0] /\ prunes = [id \in {} |-> {}]
  /\ manifests = {} /\ failover = NoFailover
  /\ day = 0 /\ faults = 0 /\ crashes = 0
  /\ appeared = {} /\ arrived = {}

Step(id) ==
  \/ StagingFails(id) \/ Staged(id) \/ CopyDone(id) \/ UploadDone(id)
  \/ (\E d \in Destinations : UploadFails(id, d)) \/ Finish(id)
  \/ List(id) \/ Unlink(id)

BackupNext ==
  \/ StartRun \/ \E id \in Runs : Step(id)
  \/ TriggerFailover \/ VerifyReplica \/ ClearFailover
  \/ Crash \/ NextDay

BackupSpec == BackupInit /\ [][BackupNext]_backupVars

-----------------------------------------------------------------------------
(* Properties. *)

\* Retention never takes one of the last RetentionCount copies, however the runs and their
\* prunings overlap: a copy that arrived is missing only if that many later ones appeared.
NewestAreKept ==
  \A id \in Runs :
    /\ <<id, "filesystem">> \in arrived
    /\ Cardinality({later \in appeared : later > id}) < RetentionCount
    => id \in DOMAIN files

\* A run is reported a success only if every destination has got its complete copy.
SuccessMeansCopied ==
  \A m \in manifests : m.status = "success" => \A d \in Destinations : <<m.id, d>> \in arrived
=============================================================================
